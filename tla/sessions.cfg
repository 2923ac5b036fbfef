CONSTANTS
    a = a
    b = b
    Drives = {a, b}
    Paths = {"f"}
    Namespace <- Own
    Founders = {a}
    Guests = {b}
    Calls = {"call"}
    Batches = {"batch"}
    CountsBatch = FALSE
    MaxNodes = 3
    MaxRestarts = 1
SPECIFICATION Spec
INVARIANTS
    HistoryIsTrue
    NamespacesAreKept
    Convergence
    BatchesAreAtomic
    DeletionsTakeEffect
CHECK_DEADLOCK FALSE
