SPECIFICATION FeederSpec
CONSTANTS
    File <- LongShortFile
    ReadSizes = {100}
    Period = 2
    TickRange = 20
    Reorder = 1
    MaxClock = 10
INVARIANTS SendsOnlyTheFrame
CHECK_DEADLOCK FALSE
