SPECIFICATION Spec
CONSTANTS
    c1 = c1
    c2 = c2
    u1 = u1
    u2 = u2
    Callers <- TwoCallers
    Upstreams <- TwoUpstreams
    ttftSampleCap = 4
    Latencies <- OneAndTwo
    MaxCalls = 6
SYMMETRY SameCallers
INVARIANTS
    TypeOK
    NothingUncounted
    SamplesRecent
    RowSound
CHECK_DEADLOCK FALSE
