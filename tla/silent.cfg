CONSTANTS
    Batches = {}
    Gets = {"g"}
    Peers = {"p", "q"}
    Holders = {"p"}
    Refusing = {"q"}
    Silent = {"q"}
    Limited = {"g"}
SPECIFICATION FairSpec
PROPERTY TimeoutsAreKept
CHECK_DEADLOCK FALSE
