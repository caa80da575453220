\* Memory reaches up to the addresses the heap is mapped at.
SPECIFICATION Spec
CONSTANTS
    N = 8
    Pool <- WholePool
    USER_CODE_REGION = 2
    HEAP_REGION = 6
    CodePages = 2
    StackPages = 2
    HeapLimit = 2
    SpaceLimit = 2
INVARIANT DirectMap
CHECK_DEADLOCK FALSE
