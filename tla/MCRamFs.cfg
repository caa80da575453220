SPECIFICATION Spec
CONSTANTS
    RAMFS_MAX_FILES = 3
    RAMFS_MAX_BLOCKS = 4
    RAMFS_DATA_START_BLOCK = 1
    RAMFS_BLOCK_SIZE = 2
    RAMFS_DIRECT_BLOCKS = 2
    RAMFS_DIRENTS_PER_BLOCK = 2
    Name = {a, b}
    Data <- MCData
INVARIANTS BlocksAccounted TreeConsistent
SYMMETRY NameSymmetry
PROPERTY ImplementsFileStore
CHECK_DEADLOCK FALSE
