CONSTANTS
    Batches = {}
    Gets = {"g", "h"}
    Peers = {"p", "q"}
    Holders = {"p"}
    Refusing = {"q"}
    Silent = {"q"}
    Limited = {"g"}
SPECIFICATION FairSpec
INVARIANT TypeOK
PROPERTIES
    LimitedGetsEnd
    GetsAreServed
CHECK_DEADLOCK FALSE
