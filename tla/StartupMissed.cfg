SPECIFICATION FairSpec
CONSTANTS
    CPU_NUM = 2
    SLOW_START = 1
    DURATION = 2
    DELAY_SEC = 1
    CanFail = FALSE
PROPERTIES
    InterruptEnds
CHECK_DEADLOCK FALSE
