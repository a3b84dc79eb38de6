SPECIFICATION Spec
CONSTANTS
    u1 = u1
    u2 = u2
    None = None
    Upstreams <- TwoUpstreams
    MaxEdits = 4
    MaxTime = 2
INVARIANTS
    TypeOK
    RegistryConsistent
PROPERTIES
    StateKept
    EditsTakeEffect
