SPECIFICATION FairSpec
CONSTANTS
    Socket <- MCSocket
    PoolSize = 2
    Queue = {retransmit, keepalive}
    NoQueue = NoQueue
    Retransmit = retransmit
    Keepalive = keepalive
    Configs <- AllConfigs
    DURATION = 5
    StopSlack = 0
    MaxTsc = 6
    NetMax = 1
    FiredMax = 3
CHECK_DEADLOCK FALSE
INVARIANTS QueuesLinked Guarded NotLate
PROPERTIES EventuallyClosed RunEnds
