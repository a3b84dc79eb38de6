SPECIFICATION FairSpec
CONSTANTS
    u1 = u1
    u2 = u2
    r1 = r1
    r2 = r2
    None = None
    Upstreams <- TwoUpstreams
    Requests <- TwoRequests
    Weight <- EqualWeights
    MaxAttempts = 2
    Metered <- OnlyU1
    Tokens = 0
    MaxSent = 0
    Shapes <- AllAble
    Modes <- Both
    Endings <- AllEndings
    Fragile <- OnlyU1
    Stallers <- OneStalls
PROPERTY
    RequestTerminates
