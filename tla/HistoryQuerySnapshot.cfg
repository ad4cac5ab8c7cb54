CONSTANTS
    MaxInt = 3
    Err = Err
    a = a
    Keys <- MCKeys
    ConfigKeys = {}
    Templates <- MCTemplates
    Origins <- FromSnapshot
    MaxTxs = 4
    MaxBlockLen = 2
SPECIFICATION Spec
INVARIANT HistoryIsMaterialised
CHECK_DEADLOCK FALSE
