SPECIFICATION FairSpec
CONSTANTS
    r1 = r1
    r2 = r2
    r3 = r3
    r4 = r4
    r5 = r5
    Requests <- FiveRequests
    Streaming <- OneStream
    ConsecutiveFailThreshold = 2
    RateNum = 1
    RateDen = 2
    MinSamples = 3
    RateWindow = 2
    Cooldown = 2
    MaxTime = 5
INVARIANTS
    TypeOK
    ClosedBelowThreshold
    HalfOpenOccupied
    ProbesSpaced
PROPERTIES
    HalfOpenResolves
    ImplementsCircuit
CHECK_DEADLOCK FALSE
