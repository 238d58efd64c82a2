SPECIFICATION FairSpec
CONSTANTS
    SeqMod = 64
    InitSeq <- MCInitSeq
    ReqLen = 1
    RspLen = 2
    RETRANSMIT_NUM_MAX = 4
    TSC_PER_SEC = 1
    SEND_WINDOW_MAX = 2
    Configs <- MCNoMbuf
    MaxFaults = 1
    AgeMax = 11
    MaxOpens = 1
    MaxReqs = 2
PROPERTIES
    ServerClosesIdle
CHECK_DEADLOCK FALSE
