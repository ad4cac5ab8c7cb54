CONSTANTS
    MaxInt = 3
    Err = Err
    a = a
    Keys <- MCKeys
    ConfigKeys = {}
    Templates <- MCTemplates
    Origins <- FromGenesis
    MaxTxs = 4
    MaxBlockLen = 2
SPECIFICATION Spec
INVARIANTS TypeOK HistoryIsMaterialised
CHECK_DEADLOCK FALSE
