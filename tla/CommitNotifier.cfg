CONSTANTS
    Capacity = 2
    Numbers = 5
SPECIFICATION FairSpec
INVARIANTS  EveryBlockOnce NoSendOnClosed
PROPERTIES DoneCloses QueryServed
