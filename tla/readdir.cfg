CONSTANTS
    Dash = 45
    A = 97
    B = 98
    Keys <- FewKeys
SPECIFICATION FairSpec
INVARIANTS
    TypeOK
    NothingPassedOver
    NamesListedOnce
PROPERTIES
    ReadsMoveOn
    ListingEnds
CHECK_DEADLOCK FALSE
