SPECIFICATION Spec
CONSTANTS
    Socks = {"s1", "s2"}
    Scenarios = {"encoded", "bytes", "two"}
    Responses <- MCResponses
    MaxResponses <- MCMaxResponses
    TCP_ACK_DELAY_MAX = 1
CHECK_DEADLOCK FALSE
INVARIANTS Framing AckBounded
