CONSTANTS
    MaxInt = 1
    Err = Err
    a = a
    Keys <- MCKeys
    ConfigKeys = {}
    Args <- MCArgs
    MaxInvocations = 3
SPECIFICATION Spec
INVARIANT ProposalInputsOnly
