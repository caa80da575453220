\* A process is given up for want of a slot.
SPECIFICATION FailSpec
CONSTANTS
    N = 8
    Pool <- LowPool
    USER_CODE_REGION = 2
    HEAP_REGION = 6
    CodePages = 2
    StackPages = 2
    HeapLimit = 2
    SpaceLimit = 2
INVARIANT NothingLost
CHECK_DEADLOCK FALSE
