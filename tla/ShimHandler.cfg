CONSTANTS
    Contexts <- TwoContexts
    MaxCalls = 1
    MaxInbox = 1
    None = None
    t1 = t1
    t2 = t2
SPECIFICATION FairSpec
INVARIANTS TypeOK Routed LoopSurvives ChannelPerCall OneRequest
PROPERTY CallReturns
CHECK_DEADLOCK FALSE
