SPECIFICATION FairSpec
CONSTANTS
    MAX_PROCESSES = 4
    DEFAULT_TIME_SLICE = 2
    SleepMs = {15}
    UINT64_WRAP = 32
PROPERTIES
    SleepEnds
CHECK_DEADLOCK FALSE
