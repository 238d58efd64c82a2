SPECIFICATION Spec
CONSTANTS
    SeqMod = 64
    InitSeq <- MCInitSeq
    ReqLen = 1
    RspLen = 2
    RETRANSMIT_NUM_MAX = 4
    TSC_PER_SEC = 1
    SEND_WINDOW_MAX = 2
    Configs <- MCSafe
    MaxFaults = 3
    AgeMax = 11
    MaxOpens = 2
    MaxReqs = 2
INVARIANTS
    TypeOK
    InStep
    FinMeansAnswered
    ClientResendReady
    ServerTimerArmed
    FinWait2Acked
PROPERTIES
    ServedOnce
    AnswersMyRequest
    RetransmitPacedShort
CHECK_DEADLOCK FALSE
