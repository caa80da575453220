\* Idle and three processes with a quantum of two ticks.  Sleeps of 0 ms (a
\* yield), of 1 tick and, through the wrap-around of ms + 9, of 0 ticks.
SPECIFICATION FairSpec
CONSTANTS
    MAX_PROCESSES = 4
    DEFAULT_TIME_SLICE = 2
    SleepMs = {0, 5, 31}
    UINT64_WRAP = 32
INVARIANTS
    OneRunning
    QueueIsReady
    ContextOfCurrent
    WakeTickMatches
    EOIOnSomeStack
PROPERTIES
    TerminatedForever
    ReadyRuns
    SleepEndsIfIdling
\* All processes may have terminated or be blocked for good with the timer
\* blocked by a pending EOI.
CHECK_DEADLOCK FALSE
