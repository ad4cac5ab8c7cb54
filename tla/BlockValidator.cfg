CONSTANTS
    MaxInt = 3
    Err = Err
    acct1 = acct1
    acct2 = acct2
    conf = conf
    Keys <- MCKeys
    ConfigKeys <- MCConfigKeys
    Templates <- MCTemplates
    MaxTxs = 3
    MaxPool = 2
    MaxBlockLen = 2
SPECIFICATION Spec
INVARIANTS TypeOK OrderedPrefix  
PROPERTY RefinesTypedStore
CHECK_DEADLOCK FALSE
