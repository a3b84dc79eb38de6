SPECIFICATION FairSpec
CONSTANTS
    i1 = i1
    i2 = i2
    Instances <- TwoInstances
    MaxDelivered = 3
    MaxUnapplied = 2
    MaxRestarts = 1
    MaxLost = 1
INVARIANTS
    TypeOK
    NoDoubleCount
    BooksBalance
PROPERTIES
    Converges
    ImplementsTally
