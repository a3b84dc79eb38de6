SPECIFICATION Spec
CONSTANTS
    u1 = u1
    u2 = u2
    None = None
    Upstreams <- TwoUpstreams
    MaxEdits = 2
    MaxInt = 32767
    Settings <- TheSettings
    ClientRequests <- Requests
    PublicModel = "m"
    MaxAttempts = 2
    Payloads <- ThePayloads
    Secrets <- TheSecrets
    RequestID = "own-id"
    MaxEvents = 3
INVARIANTS
    TypeOK
    InFlightExact
    Servable
    CapableNotRefused
    BodyFits
    PartsInOrder
    Opaque
    TokensTold
PROPERTIES
    ImplementsRelay
