SPECIFICATION FairSpec
CONSTANTS
    CPU_NUM = 3
    SLOW_START = 1
    DURATION = 2
    DELAY_SEC = 1
    CanFail = TRUE
INVARIANTS
    BarrierInv
    TablesComplete
    NoLateLaunch
PROPERTIES
    StartedEnds
CHECK_DEADLOCK FALSE
