SPECIFICATION VfsSpec
CONSTANTS
    MAX_VNODES = 4
    MAX_OPEN_FILES = 2
    MAX_FD_PER_PROCESS = 5
    RAMFS_MAX_FILES = 4
    RefLimit = 8
    MaxSize = 1
    Process = {p1, p2}
    File = {"f", "g"}
    Parent <- MCParent
    Flags <- MCFlags
    Counts = {1}
    Offsets <- MCOffsets
    MaxOffset = 2
    RootRefs = 2
SYMMETRY ProcessSymmetry
INVARIANTS ReferencesCounted VnodesSuffice
PROPERTY DescriptorsPrivate
