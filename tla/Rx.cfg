SPECIFICATION Spec
CONSTANTS
    QUEUE_NUM = 2
    PER_QUEUE = 2
    MBUF_FREE_POOL_SIZE = 2
    KNI_RING_SIZE = 1
    NB_RXD = 2
    PCI_NUM = 2
    NEIGH_SEC = 2
    POLLS = 1
    Confs <- MCConfs
    Frames <- MCFrames
    KernelFrames <- MCKernelFrames
    Macs = {1, 2}
    ArpLikeIcmp = {2}
    NO_MBUF = NO_MBUF
CHECK_DEADLOCK FALSE
INVARIANTS TypeOK OneOwner GatewayEverywhere UpdatesLive
