CONSTANTS
    MaxInt = 3
    Err = Err
    a = a
    Keys <- MCKeys
    ConfigKeys = {}
    Blocks <- MCShortBlocks
    MaxBlocks = 3
    MaxCrashes = 2
    MaxRollbacks = 1
SPECIFICATION FairSpec
PROPERTY CatchesUp
CHECK_DEADLOCK FALSE
