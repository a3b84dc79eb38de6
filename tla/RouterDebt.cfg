SPECIFICATION Spec
CONSTANTS
    u1 = u1
    u2 = u2
    r1 = r1
    r2 = r2
    None = None
    Upstreams <- TwoUpstreams
    Requests <- TwoRequests
    Weight <- EqualWeights
    MaxAttempts = 2
    Metered <- Nobody
    Tokens = 2
    MaxSent = 12
    Shapes <- AllAble
    Modes <- Plain
    Endings <- NoEnding
    Fragile <- OnlyU1
    Stallers <- Nobody
SYMMETRY Interchangeable
INVARIANTS
    DebtConserved
    ShareOnTarget
