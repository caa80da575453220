SPECIFICATION Spec
CONSTANTS
    MAX_PROCESSES = 3
    DEFAULT_TIME_SLICE = 2
    SleepMs = {0, 15}
    UINT64_WRAP = 32
PROPERTIES
    FullTimeSlice
CHECK_DEADLOCK FALSE
