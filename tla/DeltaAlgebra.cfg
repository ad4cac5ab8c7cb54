CONSTANTS
    MaxInt = 3
    Err = Err
    MaxDeltas = 3
SPECIFICATION Spec
INVARIANT ApplyIsSum
CHECK_DEADLOCK FALSE
