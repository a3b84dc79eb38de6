SPECIFICATION BusySpec
CONSTANTS
    u1 = u1
    u2 = u2
    r1 = r1
    r2 = r2
    None = None
    Upstreams <- TwoUpstreams
    Requests <- TwoRequests
    Weight <- EqualWeights
    MaxAttempts = 1
    Metered <- Nobody
    Tokens = 0
    MaxSent = 0
    Shapes <- AllAble
    Modes <- Plain
    Endings <- NoEnding
    Fragile <- OnlyU1
    Stallers <- Nobody
PROPERTY
    Recovers
