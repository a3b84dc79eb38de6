SPECIFICATION Spec
CONSTANTS
    u1 = u1
    u2 = u2
    r1 = r1
    r2 = r2
    None = None
    Upstreams <- TwoUpstreams
    Requests <- OneRequest
    Weight <- EqualWeights
    MaxAttempts = 2
    Metered <- Nobody
    Tokens = 0
    MaxSent = 0
    Shapes <- AllAble
    Modes <- Plain
    Endings <- Expiry
    Fragile <- Nobody
    Stallers <- Nobody
INVARIANT
    AlwaysAnswered
