SPECIFICATION Spec
CONSTANTS
    Socket <- MCSocket
    PoolSize = 2
    Queue = {retransmit, keepalive}
    NoQueue = NoQueue
    Retransmit = retransmit
    Keepalive = keepalive
    Configs <- PacedConfigs
    DURATION = 12
    StopSlack = 1
    MaxTsc = 12
    NetMax = 1
    FiredMax = 3
CHECK_DEADLOCK FALSE
INVARIANT RequestsPaced
