SPECIFICATION PmmSpec
CONSTANTS
    MAX_PAGES = 8
    PAGE_SIZE = 4
    MaxCount = 3
    SystemPages = {0, 1}
    MemoryMaps <- Maps
INVARIANTS
    Exclusive
    Accounted
PROPERTIES
    AllocPageFinds
