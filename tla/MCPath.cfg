SPECIFICATION Spec
CONSTANTS
    Name = {"a", "bb"}
    Chars <- MCChars
    Paths <- MCPaths
    Directories <- MCDirectories
    VFS_MAX_PATH = 8
INVARIANTS MeaningKept RefusedOnlyIfLong SecondPassAgrees
CHECK_DEADLOCK FALSE
