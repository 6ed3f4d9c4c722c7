SPECIFICATION Spec
CONSTANTS
    Data <- MCData
    Sizes <- MCSizes
    MaxBytes = 4
INVARIANTS
    PoolInv
PROPERTIES
    QueueSpec
