------------------------------- MODULE MCUdp -------------------------------
\* Configurations of Udp for TLC.
EXTENDS Udp

MCSocket == 0 .. PoolSize - 1

Plain == [keepalive |-> FALSE, flood |-> FALSE, interval |-> 0, pipeline |-> 0, rto |-> 1]
Flood == [Plain EXCEPT !.flood = TRUE]
Paced == [Plain EXCEPT !.keepalive = TRUE, !.interval = 2]
PacedFlood == [Paced EXCEPT !.flood = TRUE, !.interval = 1, !.pipeline = 2]
Pipelined == [Plain EXCEPT !.keepalive = TRUE, !.pipeline = 2]

AllConfigs == {Plain, Flood, Paced, PacedFlood, Pipelined}
PacedConfigs == {Paced}
=============================================================================
