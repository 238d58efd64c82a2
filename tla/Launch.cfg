SPECIFICATION FairSpec
CONSTANTS
    CPU_NUM = 2
    TSC_PER_SEC = 5
    Targets <- MCTargets
    DEFAULT_LAUNCH_MIN = 1
    DEFAULT_LAUNCH_MAX = 2
    DEFAULT_LAUNCH = 1
    WAIT = 1
    SLOW_START = 2
    DURATION = 3
    MaxTsc = 40
    MaxLag = 2
    MaxCloses = 1
INVARIANTS
    WithinCc
    WithinCps
    FullSpeed
PROPERTIES
    ReachesCc
CHECK_DEADLOCK FALSE
