SPECIFICATION FeederSpec
CONSTANTS
    File <- GoodFile
    ReadSizes = {35, 100}
    Period = 2
    TickRange = 12
    Reorder = 1
    MaxClock = 21
INVARIANTS FeederInv FramesAfterInit
PROPERTIES NotEarly ResumesAfterCut TimesFollowTheFrames StopEnds
CHECK_DEADLOCK FALSE
