CONSTANTS
    a = a
    b = b
    Drives = {a, b}
    Paths = {"f", "g"}
    Namespace <- Shared
    Path = "f"
    WrittenOps <- SomeOps
    MaxLine = 3
    MaxUndos = 1
SPECIFICATION Spec
SYMMETRY Symmetry
INVARIANTS
    TypeOK
    VersionsAreOfThePath
    EveryVersionIsCleared
    EveryVersionIsYielded
CHECK_DEADLOCK FALSE
