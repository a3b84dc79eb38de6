SPECIFICATION GateSpec
CONSTANTS
    p1 = p1
    p2 = p2
    Adders <- TwoAdders
    Slots = 3
    FirstMinute = 4
    LastMinute = 12
    MaxTokens = 6
    TPMLimit = 2
SYMMETRY Interchangeable
INVARIANT
    AddRecorded
CHECK_DEADLOCK FALSE
