SPECIFICATION FairSpec
CONSTANTS
    TX_QUEUE_SIZE = 7
    TX_BURST = 3
    FLUSH_TRIES = 2
    MaxMbufs = 11
INVARIANTS
    QueueInv
    SingleOwner
    DropsCounted
PROPERTIES
    WireInOrder
    ImplementsFifo
    EventuallyOut
CHECK_DEADLOCK FALSE
