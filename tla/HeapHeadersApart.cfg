SPECIFICATION Spec
CONSTANTS
    HEAP_ALIGNMENT = 2
    HEAP_HEADER_SIZE = 4
    HEAP_MIN_BLOCK = 4
    HEAP_INITIAL_SIZE = 32
    HEAP_EXPAND_SIZE = 16
    HEAP_MAX_SIZE = 48
    PAGE_SIZE = 8
    PTR_SIZE = 1
    SIZE_WRAP = 128
    Sizes = {1, 6, 11}
    Alignments = {2, 8}
    Pages = {0, 1, 3}
INVARIANT
    HeadersApart
CHECK_DEADLOCK FALSE
