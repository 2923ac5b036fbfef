CONSTANTS
    a = a
    b = b
    Drives = {a, b}
    Paths = {"f"}
    Namespace <- Own
    Founders = {a, b}
    Guests = {b}
    Calls = {"call"}
    Batches = {"batch"}
    CountsBatch = TRUE
    MaxNodes = 3
    MaxRestarts = 1
SPECIFICATION Spec
INVARIANT FlushedQueueIsLogged
CHECK_DEADLOCK FALSE
