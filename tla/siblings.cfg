CONSTANTS
    Dash = 45
    A = 97
    B = 98
    Keys <- FewKeys
SPECIFICATION Spec
INVARIANT EveryNameListed
CHECK_DEADLOCK FALSE
