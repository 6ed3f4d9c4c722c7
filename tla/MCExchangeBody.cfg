SPECIFICATION Spec
CONSTANTS
    MaxAsks = 2
    Kinds <- Describe
    Worlds <- InPieces
INVARIANTS BodyIsWhole
CHECK_DEADLOCK FALSE
