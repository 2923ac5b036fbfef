CONSTANTS
    a = a
    b = b
    Drives = {a, b}
    Paths = {"f"}
    Namespace <- Shared
    Founders = {a, b}
    Guests = {}
    Calls = {"call"}
    Batches = {}
    CountsBatch = TRUE
    MaxNodes = 4
    MaxRestarts = 0
SPECIFICATION Spec
INVARIANT OverwritesAreSeen
CHECK_DEADLOCK FALSE
