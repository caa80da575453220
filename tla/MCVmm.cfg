\* Tables of 8 entries, 64 page frames, those below the heap's addresses free.
\* Two processes with two pages of program and of stack; the heap grows past
\* the first huge page it splits.
SPECIFICATION Spec
CONSTANTS
    N = 8
    Pool <- LowPool
    USER_CODE_REGION = 2
    HEAP_REGION = 6
    CodePages = 2
    StackPages = 2
    HeapLimit = 9
    SpaceLimit = 2
INVARIANTS
    KernelMappedAlike
    PagesMapped
    OneUse
PROPERTY
    KernelMappingsStay
\* The bounds end the run.
CHECK_DEADLOCK FALSE
