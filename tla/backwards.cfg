CONSTANTS
    a = a
    b = b
    Drives = {a, b}
    Paths = {"f", "g"}
    Namespace <- Shared
    Path = "f"
    WrittenOps <- SomeOps
    MaxLine = 3
    MaxUndos = 0
SPECIFICATION Spec
SYMMETRY Symmetry
INVARIANT HistoryGoesBackwards
CHECK_DEADLOCK FALSE
