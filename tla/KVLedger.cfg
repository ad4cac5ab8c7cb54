CONSTANTS
    MaxInt = 3
    Err = Err
    a = a
    Keys <- MCKeys
    ConfigKeys = {}
    Blocks <- MCBlocks
    MaxBlocks = 4
    MaxCrashes = 2
    MaxRollbacks = 1
SPECIFICATION Spec
INVARIANTS TypeOK ExactlyOnce HistoryComplete InStep HashChain 
CHECK_DEADLOCK FALSE
