CONSTANTS
    MaxInt = 3
    Err = Err
    MaxDeltas = 3
SPECIFICATION Spec
INVARIANT FoldNetCommutes
CHECK_DEADLOCK FALSE
