------------------------------- MODULE MCTcp -------------------------------
(***************************************************************************)
(* Values for the constants of Tcp: configurations of dperf, each with the *)
(* faults of the environment it is explored with.                          *)
(***************************************************************************)
EXTENDS Tcp

\* close to the wrap-around, so that every conversation crosses it
MCInitSeq == [e \in Ends |-> IF e = "c" THEN SeqMod - 3 ELSE SeqMod - 2]

Network == {"loss", "dup", "late"}

\* one request per connection
Short ==
    [rto |-> 2, interval |-> 0, num |-> 0, keepalive |-> [e \in Ends |-> FALSE],
     fast_close |-> FALSE, flood |-> FALSE, disable_ack |-> FALSE, http |-> FALSE,
     window |-> 0, segs |-> 1,
     faults |-> Network]

Fast == [Short EXCEPT !.fast_close = TRUE]

KeepOpen == [Short EXCEPT !.interval = 1, !.keepalive = [e \in Ends |-> TRUE]]

\* keepalive without an interval: the client may acknowledge while its FIN is
\* outstanding, and then resends the ACK instead.  With a loss it waits for ever.
NoPause == [KeepOpen EXCEPT !.interval = 0, !.faults = {"dup", "late"}]

\* a request limit, at which the client ends the connection
Limited == [KeepOpen EXCEPT !.num = 2]

\* the ends disagree about keepalive
ClientOnly == [KeepOpen EXCEPT !.keepalive = [e \in Ends |-> e = "c"]]
ServerOnly == [Short EXCEPT !.keepalive = [e \in Ends |-> e = "s"]]

\* http, with an interval that makes the client acknowledge at once
HttpSlow == [KeepOpen EXCEPT !.interval = 3, !.http = TRUE]
HttpNoAck == [HttpSlow EXCEPT !.disable_ack = TRUE]

\* responses of three segments, two of them in flight
Large == [HttpSlow EXCEPT !.window = 2, !.segs = 3, !.faults = {"loss"}]
LargeShort == [Short EXCEPT !.http = TRUE, !.window = 2, !.segs = 3, !.faults = {"loss", "dup"}]

\* ... over an undisturbed network
LargeQuiet == [Large EXCEPT !.faults = {}]
LargeQuietShort == [LargeShort EXCEPT !.faults = {}]

\* a SYN flood over an undisturbed network
SynFlood == [ClientOnly EXCEPT !.flood = TRUE, !.faults = {}]

MCSafe == {Short, Fast, KeepOpen, Limited, ClientOnly, ServerOnly, HttpSlow, HttpNoAck,
           Large, LargeShort, SynFlood}

MCLive == {Short, Fast, KeepOpen, NoPause, Limited, ClientOnly, ServerOnly, SynFlood,
           LargeQuiet, LargeQuietShort}

\* the mbuf pool runs empty
MCNoMbuf == {[Short EXCEPT !.faults = {"nobuf"}]}
=============================================================================
