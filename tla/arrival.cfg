CONSTANTS
    a = a
    b = b
    Drives = {a, b}
    Paths = {"f"}
    Namespace <- Shared
    Founders = {a, b}
    Guests = {}
    Calls = {"call"}
    Batches = {}
    CountsBatch = TRUE
    MaxNodes = 3
    MaxRestarts = 1
SPECIFICATION FairSpec
PROPERTY
    WritesArrive
    ImplementsSharedFiles
CHECK_DEADLOCK FALSE
