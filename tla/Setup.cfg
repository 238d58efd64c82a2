SPECIFICATION Spec
CONSTANTS
    Error = Error
    NETWORK_PORT_NUM = 5
    LISTEN_DEFAULT = 1
    DEFAULT_CPS = 2
    THREAD_NUM_MAX = 4
    NETIF_PORT_MAX = 2
    IP_RANGE_NUM_MAX = 2
    IP_LIST_NUM_MAX = 4
    INT_MAX = 8388607
    UINT64_NUM = 1073741824
    FLOAT_OVERFLOW <- IntMin
    LOG_DIR_EXISTS = TRUE
    UINT32_NUM = 20
    Files <- MCFiles
    Lines <- MCLines
    MaxLines = 2
    MaxTakes = 3
CHECK_DEADLOCK FALSE
INVARIANTS PoolExact FlowHasSocket OneCopy AcceptedSound TemplateFits
