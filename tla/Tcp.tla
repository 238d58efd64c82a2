-------------------------------- MODULE Tcp --------------------------------
(***************************************************************************)
(* dperf's TCP stack (src/src/tcp.c, socket.h, socket_timer.h): a dperf    *)
(* client and a dperf server, one socket each, one four-tuple.             *)
(*                                                                         *)
(* A worker thread runs every handler to completion, so a handler is one   *)
(* step; the two workers and the network interleave.  The network loses,   *)
(* duplicates and reorders.  A socket keeps the age of its timer_tsc; Tick *)
(* makes everything one time unit older.                                   *)
(*                                                                         *)
(* With send_window 0 a response is one segment and either end stops and   *)
(* waits.  A server with a send_window answers with several segments, some *)
(* of them in flight at once.  rss is off.                                 *)
(***************************************************************************)
EXTENDS Integers, FiniteSets

CONSTANTS
    SeqMod,              \* sequence numbers are modulo this (2^32 in the code)
    InitSeq,             \* the random snd_nxt of socket_init, per end
    ReqLen, RspLen,      \* length of a request and of a response
    RETRANSMIT_NUM_MAX, TSC_PER_SEC,
    SEND_WINDOW_MAX,     \* how far snd_window grows
    Configs,             \* the configurations and environments explored
    MaxFaults,           \* bound: how many faults happen in all
    AgeMax,              \* bound: ages saturate here
    MaxOpens,            \* bound: connections the client launches
    MaxReqs              \* bound: requests the client sends

Ends == {"c", "s"}
Other(e) == IF e = "c" THEN "s" ELSE "c"

\* keepalive is per end: the two machines have a configuration each.  window is
\* the server's send_window and segs the length of its responses, in segments.
ConfigType ==
    [rto : Nat \ {0}, interval : Nat, num : Nat, keepalive : [Ends -> BOOLEAN],
     fast_close : BOOLEAN, flood : BOOLEAN, disable_ack : BOOLEAN, http : BOOLEAN,
     window : Nat, segs : Nat \ {0},
     faults : SUBSET {"loss", "dup", "late", "nobuf"}]

ASSUME TcpAssumption ==
    /\ SeqMod \in Nat /\ SeqMod > 1 /\ SeqMod % 2 = 0
    /\ InitSeq \in [Ends -> 0 .. SeqMod - 1]
    \* a segment with its FIN does not span the sequence space
    /\ ReqLen \in Nat \ {0} /\ RspLen \in Nat \ {0}
    /\ ReqLen + 1 < SeqMod /\ RspLen + 1 < SeqMod
    \* at least the three repeated ACKs that tcp_check_sequence counts
    /\ RETRANSMIT_NUM_MAX \in Nat /\ RETRANSMIT_NUM_MAX >= 3 /\ TSC_PER_SEC \in Nat \ {0}
    /\ SEND_WINDOW_MAX \in Nat \ {0, 1}
    /\ \A c \in Configs :
        /\ c \in ConfigType
        \* config_parse_keepalive, config_check_keepalive
        /\ c.interval = 0 => c.num = 0
        /\ c.flood /\ c.keepalive["c"] => c.interval > 0
        \* config_parse_send_window, config_check_payload_size
        /\ c.window <= SEND_WINDOW_MAX /\ (c.window = 0 => c.segs = 1)
        \* config_parse_retransmit_timeout: RTO_MIN is two seconds
        /\ c.rto >= 2 * TSC_PER_SEC
        /\ AgeMax > 3 * c.interval
        /\ AgeMax >= c.rto * RETRANSMIT_NUM_MAX + c.interval
    /\ AgeMax \in Nat /\ AgeMax > TSC_PER_SEC
    /\ {MaxOpens, MaxReqs, MaxFaults} \subseteq Nat

VARIABLES
    cfg,     \* g_config: set before the workers start, then constant
    sk,      \* the socket of each end
    net,     \* packets in flight
    phase,   \* "run", "over" (duration elapsed), "stop" (work_space_stop_all)
    opens,   \* connections launched so far
    faults   \* faults that have happened so far

\* the options of g_config the stack reads
RTO == cfg.rto                     \* retransmit_timeout
Interval == cfg.interval           \* keepalive_request_interval
KeepaliveNum == cfg.num            \* keepalive_request_num, 0 for no limit
Keepalive == cfg.keepalive
FastClose == cfg.fast_close
Flood == cfg.flood
DisableAck == cfg.disable_ack
Http == cfg.http
SendWindow == cfg.window           \* send_window, 0 for stop and wait

\* ws->send_window: only a server has one
Windowed(e) == e = "s" /\ SendWindow > 0

vars == <<cfg, sk, net, phase, opens, faults>>

\* enum of socket.h; SK_LISTEN, SK_CLOSE_WAIT and SK_TIME_WAIT are never set
SK_CLOSED == 0
SK_SYN_SENT == 2
SK_SYN_RECEIVED == 3
SK_ESTABLISHED == 4
SK_FIN_WAIT_1 == 6
SK_CLOSING == 7
SK_LAST_ACK == 8
SK_FIN_WAIT_2 == 9

States == {SK_CLOSED, SK_SYN_SENT, SK_SYN_RECEIVED, SK_ESTABLISHED,
           SK_FIN_WAIT_1, SK_CLOSING, SK_LAST_ACK, SK_FIN_WAIT_2}

SYN == {"SYN"}
ACK == {"ACK"}
PUSH == {"PUSH"}
FIN == {"FIN"}
RST == {"RST"}

Seq == 0 .. SeqMod - 1
Plus(a, n) == (a + n) % SeqMod

\* tcp_seq_le: the signed difference of two unsigned numbers is not positive
SeqLe(a, b) == LET d == (a - b) % SeqMod IN d = 0 \/ d >= SeqMod \div 2

\* tcp_seq_lt (tcp_seq_gt with its arguments swapped)
SeqLt(a, b) == SeqLe(a, b) /\ a # b

(***************************************************************************)
(* struct socket.  timer names the queue the socket is linked in; age is   *)
(* now - timer_tsc; parts counts the segments of a response the client's   *)
(* HTTP parser has seen.  The last five fields are history: id numbers the      *)
(* request this end sent (client) or last served (server), got counts the  *)
(* data segments it accepted, rid is the request the last accepted         *)
(* response answered, by is how it was last closed, and quiet is the time  *)
(* since it last transmitted.                                              *)
(***************************************************************************)
QuietMax == TSC_PER_SEC + 1

Socket(e) ==
    [state |-> SK_CLOSED, rcv_nxt |-> 0, snd_nxt |-> InitSeq[e], snd_una |-> 0,
     flags |-> {}, retrans |-> 0, keepalive |-> Keepalive[e], reqnum |-> 0,
     timer |-> "none", age |-> AgeMax, http_ack |-> FALSE,
     snd_window |-> 0, snd_max |-> 0, parts |-> 0,
     id |-> 0, got |-> 0, rid |-> 0, by |-> "none", quiet |-> 0]

Init ==
    /\ cfg \in Configs
    /\ sk = [e \in Ends |-> Socket(e)]
    /\ net = {} /\ phase = "run" /\ opens = 0 /\ faults = 0

\* work_space_in_duration
InDuration == phase = "run"
-----------------------------------------------------------------------------
(***************************************************************************)
(* A handler maps a work record w to the work record it leaves: w.s is the *)
(* socket, w.out the packets transmitted, w.bufs the mbufs left in the     *)
(* pool.                                                                   *)
(***************************************************************************)
Set(w, s) == [w EXCEPT !.s = s]

\* mutant: the socket stays linked in its timer queue
CloseKeepsTimer(w, why) ==
    IF w.s.state = SK_CLOSED THEN w
    ELSE Set(w, [w.s EXCEPT !.state = SK_CLOSED, !.by = why])

\* socket_close: a closed socket is linked in no timer queue
Close(w, why) ==
    IF w.s.state = SK_CLOSED THEN w
    ELSE Set(w, [w.s EXCEPT !.state = SK_CLOSED, !.timer = "none", !.by = why])

\* socket_add_timer: leaves whatever queue it was in
AddTimer(s, queue, age) == [s EXCEPT !.timer = queue, !.age = age]

\* socket_accurate_timer_tsc for a socket whose timer is a old
AccurateAge(a) ==
    CASE a <= Interval     -> a
      [] a <= 2 * Interval /\ a > Interval -> a - Interval
      [] a <= 3 * Interval /\ a > 2 * Interval -> a - 2 * Interval
      [] OTHER             -> Interval

\* socket_start_keepalive_timer
StartKeepalive(s, age) ==
    IF s.keepalive /\ s.snd_nxt = s.snd_una THEN AddTimer(s, "keepalive", age) ELSE s

\* the sequence space a segment of tcp_new_packet takes
SegLen(e, f) ==
    (IF "PUSH" \in f THEN (IF e = "c" THEN ReqLen ELSE RspLen) ELSE 0)
    + (IF f \cap (SYN \cup FIN) # {} THEN 1 ELSE 0)

DataLen(e, f) == IF "PUSH" \in f THEN (IF e = "c" THEN ReqLen ELSE RspLen) ELSE 0

\* mutant: snd_nxt moves on every transmission
AdvanceAlways(s, e, f) ==
    [s EXCEPT !.snd_nxt = Plus(@, SegLen(e, f)), !.quiet = 0,
              !.id = IF e = "c" /\ "PUSH" \in f THEN @ + 1 ELSE @]

\* tcp_new_packet on the socket: snd_nxt moves only when nothing is outstanding
Advance(s, e, f) ==
    LET new == s.snd_nxt = s.snd_una
    IN  [s EXCEPT !.snd_nxt = IF new THEN Plus(@, SegLen(e, f)) ELSE @, !.quiet = 0,
                  !.id = IF new /\ e = "c" /\ "PUSH" \in f THEN @ + 1 ELSE @]

\* a segment always starts at snd_una; URG asks for data without PUSH
Segment(s, e, f) ==
    [from |-> e, flags |-> IF "URG" \in f THEN f \ {"URG", "PUSH"} ELSE f, seq |-> s.snd_una, ack |-> s.rcv_nxt,
     len |-> DataLen(e, f), id |-> IF "PUSH" \in f THEN s.id ELSE 0]

\* tcp_new_packet and work_space_tx_send_tcp
NewPacket(w, e, f) ==
    LET Sent(s) == [s |-> s, bufs |-> w.bufs - 1, out |-> w.out \cup {Segment(s, e, f)}]
    IN  IF w.bufs = 0 THEN w ELSE Sent(Advance(w.s, e, f))

\* the flags after which tcp_reply waits for an acknowledgement
MustBeAcked(f) == f \cap (PUSH \cup SYN \cup FIN) # {}

\* The timer tcp_reply arms: retransmit, or the server's idle timeout.  With a
\* send window it arms none.
Arm(s, e, f) ==
    LET age == IF e = "c" /\ s.keepalive THEN AccurateAge(s.age) ELSE 0
    IN  CASE Windowed(e) -> s
          [] ~Windowed(e) /\ s.state # SK_CLOSED /\ MustBeAcked(f) /\ s.snd_nxt # s.snd_una ->
                AddTimer(s, "retransmit", age)
          [] /\ ~Windowed(e) /\ s.state # SK_CLOSED
             /\ ~MustBeAcked(f) /\ e = "s" -> AddTimer(s, "timeout", 0)
          [] OTHER -> s

\* tcp_reply: remember the flags, transmit, arm a timer
Reply(w, e, f) ==
    LET Armed(x) == Set(x, Arm(x.s, e, f))
    IN  Armed(NewPacket(Set(w, [w.s EXCEPT !.flags = f]), e, f))

\* mutant: the error is not counted
GiveUpUncounted(w) == Close(w, "fin")

\* net_stats_socket_error and socket_close
GiveUp(w) == Close(w, "error")

\* socket_start_retransmit_timer
StartRetransmit(s) == IF s.snd_nxt # s.snd_una THEN AddTimer(s, "retransmit", 0) ELSE s

\* With a send window only the first outstanding segment is sent again; snd_nxt
\* is put back and the burst starts from one.
ResendFirst(w) ==
    LET Sent(x) == Set(x, [x.s EXCEPT !.snd_nxt = w.s.snd_nxt, !.snd_window = 1])
    IN  Sent(Reply(Set(w, [w.s EXCEPT !.snd_nxt = w.s.snd_una]), "s", PUSH \cup ACK))

\* tcp_do_retransmit
DoRetransmit(w, e) ==
    LET n == w.s.retrans + 1
        x == Set(w, [w.s EXCEPT !.retrans = n])
        Timed(y) == Set(y, StartRetransmit(y.s))
    IN  CASE w.s.snd_nxt = w.s.snd_una -> Set(w, [w.s EXCEPT !.retrans = 0])
          [] w.s.snd_nxt # w.s.snd_una /\ n >= RETRANSMIT_NUM_MAX -> GiveUp(x)
          [] w.s.snd_nxt # w.s.snd_una /\ n < RETRANSMIT_NUM_MAX ->
                IF Windowed(e) /\ "PUSH" \in w.s.flags THEN Timed(ResendFirst(x))
                ELSE Reply(x, e, w.s.flags)

\* tcp_process_rst
ProcessRst(w) == Close(w, "rst")

-----------------------------------------------------------------------------
\* mutant: the pause is not checked
PausedNotChecked(s) == TRUE

\* the last transmission is more than one second ago
Paused(s) == s.age > TSC_PER_SEC

\* socket_server_open and the SYN-ACK of tcp_server_process_syn
ServerOpen(w, p) ==
    LET iss == Plus(w.s.snd_nxt, 1)
    IN  Reply(Set(w, [w.s EXCEPT !.state = SK_SYN_RECEIVED, !.timer = "none",
                                 !.retrans = 0, !.reqnum = 0, !.snd_window = 1,
                                 !.snd_nxt = iss, !.snd_una = iss,
                                 !.rcv_nxt = Plus(p.seq, 1)]),
              "s", SYN \cup ACK)

\* tcp_server_process_syn
ServerProcessSyn(w, p) ==
    CASE w.s.state = SK_CLOSED -> ServerOpen(w, p)
      [] w.s.state = SK_SYN_RECEIVED /\ Paused(w.s) ->
            Reply(w, "s", SYN \cup ACK)
      [] OTHER -> w

\* tcp_client_process_syn_ack
ClientProcessSynAck(w, p) ==
    CASE w.s.state = SK_SYN_SENT /\ p.ack = w.s.snd_nxt ->
            Reply(Set(w, [w.s EXCEPT !.rcv_nxt = Plus(p.seq, 1), !.snd_una = p.ack,
                                     !.state = SK_ESTABLISHED]),
                  "c", ACK \cup PUSH)
      [] /\ w.s.state = SK_ESTABLISHED
         /\ p.ack = w.s.snd_nxt /\ Plus(p.seq, 1) = w.s.rcv_nxt ->
            Reply(w, "c", ACK)
      [] OTHER -> w

\* mutant: an old segment passes
InOrderOrOld(s, p) == SeqLe(p.seq, s.rcv_nxt)

\* the segment is the next one and acknowledges everything this end has sent
InOrder(s, p) == p.ack = s.snd_nxt /\ p.seq = s.rcv_nxt

\* the burst grows with every acknowledgement
Grown(s, e) ==
    IF Windowed(e) /\ s.snd_window < SEND_WINDOW_MAX THEN s.snd_window + 1
    ELSE s.snd_window

\* The send_window branch of tcp_check_sequence: part of what is outstanding is
\* acknowledged (seq is not looked at), or nothing, which the third time means a
\* lost segment.
PartlyAcked(w, p) ==
    LET s == w.s
        again == p.ack = s.snd_una
        more == [s EXCEPT !.retrans = 0, !.snd_una = p.ack, !.snd_window = Grown(s, "s")]
        Reset(x) == Set(x, [x.s EXCEPT !.retrans = 0])
        dup == Set(w, [s EXCEPT !.retrans = @ + 1])
    IN  CASE SeqLt(s.snd_una, p.ack) -> [ok |-> TRUE, w |-> Set(w, more)]
          [] again /\ s.retrans + 1 < 3 -> [ok |-> FALSE, w |-> dup]
          [] again /\ s.retrans + 1 >= 3 -> [ok |-> FALSE, w |-> Reset(ResendFirst(dup))]
          [] OTHER -> [ok |-> FALSE, w |-> w]

\* tcp_check_sequence.  Its last branch (ack = snd_nxt, "lost ack") cannot be
\* reached: tcp_seq_le(ack, snd_nxt) is tested first and includes equality.
CheckSequence(w, e, p) ==
    LET s == w.s
        len == p.len + (IF "FIN" \in p.flags THEN 1 ELSE 0)
        inOrder == InOrder(s, p)
        acked == s.snd_una # p.ack
        taken == [s EXCEPT !.retrans = 0, !.snd_una = p.ack,
                           !.rcv_nxt = Plus(p.seq, len),
                           !.snd_window = Grown(s, e),
                           !.timer = IF acked /\ ~Windowed(e) THEN "none" ELSE @]
        lost == s.state # SK_CLOSED /\ SeqLe(p.ack, s.snd_nxt)
    IN  CASE inOrder /\ s.state # SK_CLOSED -> [ok |-> TRUE, w |-> Set(w, taken)]
          [] inOrder /\ s.state = SK_CLOSED ->
                [ok |-> FALSE, w |-> Set(w, [s EXCEPT !.retrans = 0])]
          [] /\ ~inOrder /\ s.state = SK_FIN_WAIT_1 /\ "FIN" \in p.flags
             /\ len = 1 /\ ~acked /\ p.seq = s.rcv_nxt ->
                [ok |-> TRUE, w |-> Set(w, [s EXCEPT !.rcv_nxt = Plus(p.seq, 1),
                                                     !.state = SK_CLOSING])]
          [] OTHER ->
                IF lost /\ Windowed(e) THEN PartlyAcked(w, p)
                ELSE [ok |-> FALSE,
                      w |-> IF lost /\ Paused(s) THEN DoRetransmit(w, e) ELSE w]

\* tcp_process_fin: the socket moves on and tx grows by the flags to answer with
ProcessFin(w, rx, tx) ==
    LET Goto(st, f) == [w |-> Set(w, [w.s EXCEPT !.state = st]), tx |-> tx \cup f]
        fin == "FIN" \in rx
    IN  CASE w.s.state = SK_ESTABLISHED /\ fin -> Goto(SK_LAST_ACK, FIN \cup ACK)
          [] w.s.state = SK_ESTABLISHED /\ ~fin /\ "FIN" \in tx ->
                Goto(SK_FIN_WAIT_1, FIN \cup ACK)
          [] w.s.state \in {SK_FIN_WAIT_1, SK_FIN_WAIT_2} /\ fin ->
                [w |-> Close(w, "fin"), tx |-> tx \cup ACK]
          [] w.s.state = SK_FIN_WAIT_1 /\ ~fin -> Goto(SK_FIN_WAIT_2, {})
          [] w.s.state = SK_CLOSING -> Goto(SK_LAST_ACK, FIN \cup ACK)
          [] w.s.state = SK_LAST_ACK -> [w |-> Close(w, "fin"), tx |-> tx]
          [] OTHER -> [w |-> w, tx |-> tx]

MaybeFin(w, rx, tx) ==
    IF w.s.state > SK_ESTABLISHED \/ "FIN" \in rx \cup tx
    THEN ProcessFin(w, rx, tx) ELSE [w |-> w, tx |-> tx]

\* mutant: a server socket with nothing to answer gets no timer
NothingToAnswerNoTimer(w) == w

\* the end of tcp_server_process_data when there is nothing to answer
NothingToAnswer(w) ==
    IF w.s.state = SK_CLOSED THEN w ELSE Set(w, AddTimer(w.s, "timeout", 0))

MORE == PUSH \cup ACK \cup {"URG"}

\* the loop of tcp_reply_more: up to snd_window segments, within the send window
\* and the response
Burst(w) ==
    LET s == w.s
        At(k) == Plus(s.snd_nxt, k * RspLen)
        tried == {k \in 0 .. s.snd_window - 1 :
                    /\ SeqLt(At(k), Plus(s.snd_una, SendWindow * RspLen))
                    /\ SeqLt(At(k), s.snd_max)}
        sent == {k \in tried : k < w.bufs}
    IN  [s |-> [s EXCEPT !.snd_nxt = At(Cardinality(sent)),
                         !.flags = IF tried # {} THEN MORE ELSE @,
                         !.quiet = IF sent # {} THEN 0 ELSE @],
         bufs |-> w.bufs - Cardinality(sent),
         out |-> w.out \cup {Segment([s EXCEPT !.snd_una = At(k)], "s", MORE) : k \in sent}]

\* tcp_reply_more
ReplyMore(w) ==
    LET Finish(x) ==
            CASE x.s.snd_una # x.s.snd_max -> x
              [] x.s.snd_una = x.s.snd_max /\ x.s.keepalive ->
                    Set(x, AddTimer(x.s, "timeout", 0))
              [] x.s.snd_una = x.s.snd_max /\ ~x.s.keepalive ->
                    Reply(Set(x, [x.s EXCEPT !.state = SK_FIN_WAIT_1]), "s", FIN \cup ACK)
    IN  Finish(Burst(w))

\* the send_window part of tcp_server_process_data: the first response of a
\* connection starts with one segment (slow start)
ServerSendMore(w, p) ==
    LET s == w.s
        asked == [s EXCEPT !.id = p.id, !.got = @ + 1,
                           !.snd_max = Plus(s.snd_nxt, cfg.segs * RspLen)]
        Slow(x) == Set(x, [x.s EXCEPT !.reqnum = 1])
        Timed(x) == Set(x, StartRetransmit(x.s))
    IN  CASE p.len = 0 -> ReplyMore(w)
          [] p.len > 0 /\ s.reqnum # 0 -> Timed(ReplyMore(Set(w, asked)))
          [] p.len > 0 /\ s.reqnum = 0 -> Timed(Slow(Reply(Set(w, asked), "s", PUSH \cup ACK)))

\* the request part of tcp_server_process_data, and its FIN processing
ServerTakeRequest(w, p) ==
    LET serve == w.s.state = SK_ESTABLISHED /\ p.len > 0
        fin == IF w.s.keepalive THEN {} ELSE FIN
    IN  IF serve
        THEN MaybeFin(Set(w, [w.s EXCEPT !.id = p.id, !.got = @ + 1]), p.flags,
                      PUSH \cup ACK \cup fin)
        ELSE MaybeFin(w, p.flags, {})

\* tcp_server_process_data
ServerProcessData(w, p) ==
    LET Answer(f) == IF f.tx # {} THEN Reply(f.w, "s", f.tx) ELSE NothingToAnswer(f.w)
        Established(x) ==
            Set(x, [x.s EXCEPT !.state = IF @ < SK_ESTABLISHED THEN SK_ESTABLISHED ELSE @])
        Take(x) ==
            IF x.s.state = SK_ESTABLISHED /\ Windowed("s") /\ "FIN" \notin p.flags
            THEN ServerSendMore(x, p) ELSE Answer(ServerTakeRequest(x, p))
        Checked(c) == IF c.ok THEN Take(Established(c.w)) ELSE c.w
    IN  Checked(CheckSequence(w, "s", p))

\* mutant: an idle connection is left alone when the test is over
SendKeepaliveRequestNoEnd(w) ==
    IF InDuration THEN Reply(Set(w, [w.s EXCEPT !.reqnum = @ + 1]), "c", ACK \cup PUSH)
                  ELSE w

\* tcp_send_keepalive_request
SendKeepaliveRequest(w) ==
    LET Last(x) == Set(x, [x.s EXCEPT !.keepalive = FALSE])
        Limited(x) ==
            IF KeepaliveNum > 0 /\ x.s.reqnum >= KeepaliveNum THEN Last(x) ELSE x
    IN  IF InDuration
        THEN Limited(Reply(Set(w, [w.s EXCEPT !.reqnum = @ + 1]), "c", ACK \cup PUSH))
        ELSE Last(Reply(Set(w, [w.s EXCEPT !.state = SK_FIN_WAIT_1]), "c", ACK \cup FIN))

\* the client acknowledges at once when its next request would come too late
AckAtOnce == Interval >= RTO /\ ~DisableAck

\* mutant: the next request is sent at once
NextRequestAtOnce(w) == SendKeepaliveRequest(w)

\* with an interval the next request waits for its timer
NextRequest(w) ==
    IF Interval > 0 THEN Set(w, StartKeepalive(w.s, w.s.age)) ELSE SendKeepaliveRequest(w)

\* http_client_process_data.  The parser returns HTTP_PARSE_OK until the last
\* segment of a response, then HTTP_PARSE_END.
HttpTakeResponse(w, rx) ==
    LET s == w.s
        end == s.parts + 1 = cfg.segs
        fin == "FIN" \in rx
    IN  CASE ~end ->
                [w |-> Set(w, [s EXCEPT !.parts = @ + 1, !.http_ack = @ \/ ~fin]),
                 tx |-> IF fin THEN ACK ELSE {}]
          [] end /\ s.keepalive /\ ~fin ->
                [w |-> Set(w, [StartKeepalive(s, AccurateAge(s.age))
                               EXCEPT !.http_ack = s.parts >= 2 \/ AckAtOnce, !.parts = 0]),
                 tx |-> {}]
          [] end /\ (~s.keepalive \/ fin) ->
                [w |-> Set(w, [s EXCEPT !.http_ack = FALSE, !.parts = 0]),
                 tx |-> ACK \cup FIN]

\* The response part of tcp_client_process_data: the work record and the flags
\* to answer with.
ClientTakeResponse(w, rx) ==
    LET s == w.s
    IN  CASE Http -> HttpTakeResponse(w, rx)
          [] ~Http /\ ~s.keepalive -> [w |-> w, tx |-> ACK \cup FIN]
          [] ~Http /\ s.keepalive -> [w |-> NextRequest(w), tx |-> ACK]

\* the end of tcp_client_process_data: FIN processing, and an ACK alone may wait
ClientAnswer(w, rx, tx) ==
    LET Now(f) == \/ "FIN" \in rx \/ f.tx # ACK \/ ~f.w.s.keepalive
                  \/ AckAtOnce
        Send(f) == IF f.tx # {} /\ Now(f) THEN Reply(f.w, "c", f.tx) ELSE f.w
    IN  Send(MaybeFin(w, rx, tx))

\* tcp_client_process_data
ClientProcessData(w, p) ==
    LET Taken(d) ==
            IF "FIN" \in d.tx /\ FastClose
            THEN Close(Reply(d.w, "c", RST \cup ACK), "fast")
            ELSE ClientAnswer(d.w, p.flags, d.tx)
        Response(s) == [s EXCEPT !.got = @ + 1, !.rid = p.id]
        Checked(c) ==
            CASE ~c.ok -> c.w
              [] c.ok /\ c.w.s.state = SK_ESTABLISHED /\ p.len > 0 ->
                    Taken(ClientTakeResponse(Set(c.w, Response(c.w.s)), p.flags))
              [] OTHER -> ClientAnswer(c.w, p.flags, {})
    IN  Checked(CheckSequence(w, "c", p))

\* tcp_server_process and tcp_client_process: dispatch on the flags
Process(w, e, p) ==
    CASE p.flags \cap (SYN \cup RST) = {} /\ "ACK" \in p.flags ->
            IF e = "s" THEN ServerProcessData(w, p) ELSE ClientProcessData(w, p)
      [] e = "s" /\ p.flags = SYN -> ServerProcessSyn(w, p)
      [] e = "c" /\ p.flags = SYN \cup ACK -> ClientProcessSynAck(w, p)
      [] "RST" \in p.flags -> ProcessRst(w)
      [] OTHER -> w

\* the flood branch of tcp_do_keepalive and of tcp_client_launch
FloodSyn(w) ==
    LET Again(x) == Set(x, StartKeepalive([x.s EXCEPT !.snd_una = x.s.snd_nxt],
                                          AccurateAge(x.s.age)))
    IN  Again(Reply(w, "c", SYN))

FloodMore(w) == IF InDuration THEN FloodSyn(w) ELSE Close(w, "flood")

\* tcp_do_keepalive, called on the client's sockets only
DoKeepalive(w) ==
    LET idle == /\ w.s.snd_nxt = w.s.snd_una /\ w.s.state = SK_ESTABLISHED
                /\ w.s.keepalive
    IN  CASE idle -> SendKeepaliveRequest(w)
          [] ~idle /\ Flood -> FloodMore(w)
          [] ~idle /\ ~Flood /\ ~w.s.keepalive /\ w.s.state = SK_ESTABLISHED ->
                Reply(Set(w, [w.s EXCEPT !.state = SK_FIN_WAIT_1]), "c", ACK \cup FIN)
          [] OTHER -> w

\* one iteration of tcp_client_launch, on a closed socket (socket_client_open)
ClientLaunch(w) ==
    LET iss == Plus(w.s.snd_nxt, 1)
        x == Set(w, [w.s EXCEPT !.age = 0, !.retrans = 0, !.reqnum = 0,
                                !.keepalive = Keepalive["c"],
                                !.snd_nxt = iss, !.snd_una = iss, !.rcv_nxt = 0,
                                !.state = SK_SYN_SENT, !.http_ack = FALSE, !.parts = 0])
    IN  CASE ~Flood -> Reply(x, "c", SYN)
          [] Flood /\ Keepalive["c"] -> FloodSyn(x)
          [] Flood /\ ~Keepalive["c"] -> Close(Reply(x, "c", SYN), "flood")

-----------------------------------------------------------------------------
\* what each timer queue waits for (socket_timer_run's timeout argument)
Timeout(e, queue) ==
    CASE queue = "retransmit" -> IF e = "c" THEN RTO ELSE RTO + RTO \div 10
      [] queue = "keepalive"  -> Interval
      [] queue = "timeout"    -> RTO * RETRANSMIT_NUM_MAX + Interval

\* mutant: the timers run before the delayed ACKs are flushed
ExpiredBeforeFlush(e, queue) ==
    sk[e].timer = queue /\ sk[e].age >= Timeout(e, queue)

\* The socket is at the head of an expired queue.  The client's loop flushes
\* delayed ACKs before it runs the timers of the same tick.
Expired(e, queue) ==
    /\ sk[e].timer = queue /\ sk[e].age >= Timeout(e, queue)
    /\ ~sk[e].http_ack

Due(e) == sk[e].http_ack \/ \E q \in {"retransmit", "keepalive", "timeout"} : Expired(e, q)

CanFail(kind) == kind \in cfg.faults /\ faults < MaxFaults

\* The worker of end e runs handler H to completion; `gone' leaves the network.
\* mbuf_cache_alloc finds the pool empty only as a fault; Enough mbufs are what
\* the longest handler takes.
Enough == SEND_WINDOW_MAX + 1

Step(e, gone, H(_)) ==
    \E b \in IF CanFail("nobuf") THEN 0 .. Enough ELSE {Enough} :
        \E w \in {H([s |-> sk[e], out |-> {}, bufs |-> b])} :
            /\ w.s.id <= MaxReqs
            /\ sk' = [sk EXCEPT ![e] = w.s]
            /\ net' = (net \ gone) \cup w.out
            /\ faults' = IF b < Enough THEN faults + 1 ELSE faults

\* tcp_server_process / tcp_client_process on a packet of the rx burst
Receive(e) ==
    \E p \in net :
        /\ p.from = Other(e)
        /\ Step(e, {p}, LAMBDA w : Process(w, e, p))
        /\ UNCHANGED <<cfg, phase, opens>>

\* The network (external) duplicates: a packet that was received stays in flight.
ReceiveCopy(e) ==
    \E p \in net :
        /\ p.from = Other(e) /\ CanFail("dup")
        /\ LET w == Process([s |-> sk[e], out |-> {}, bufs |-> Enough], e, p)
           IN  /\ w.s.id <= MaxReqs
               /\ sk' = [sk EXCEPT ![e] = w.s]
               /\ net' = net \cup w.out
        /\ faults' = faults + 1
        /\ UNCHANGED <<cfg, phase, opens>>

\* The network loses a packet.
Lose ==
    \E p \in net :
        /\ CanFail("loss") /\ faults' = faults + 1
        /\ net' = net \ {p}
        /\ UNCHANGED <<cfg, sk, phase, opens>>

\* work_space_stop_all clears launch_num, so a stopped client launches nothing
Launch ==
    /\ phase # "stop" /\ opens < MaxOpens
    /\ sk["c"].state = SK_CLOSED
    /\ Step("c", {}, ClientLaunch)
    /\ opens' = opens + 1
    /\ UNCHANGED <<cfg, phase>>

\* socket_timer_run: unlink the expired socket and call the queue's handler
Unlink(w) == Set(w, [w.s EXCEPT !.timer = "none"])

RetransmitTimer(e) ==
    /\ Expired(e, "retransmit")
    /\ Step(e, {}, LAMBDA w : DoRetransmit(Unlink(w), e))
    /\ UNCHANGED <<cfg, phase, opens>>

KeepaliveTimer ==
    /\ Keepalive["c"] /\ Expired("c", "keepalive")
    /\ Step("c", {}, LAMBDA w : DoKeepalive(Unlink(w)))
    /\ UNCHANGED <<cfg, phase, opens>>

\* socket_timeout_timer_expire: the server gives up an idle socket
TimeoutTimer ==
    /\ Expired("s", "timeout")
    /\ Step("s", {}, LAMBDA w : GiveUp(Unlink(w)))
    /\ UNCHANGED <<cfg, phase, opens>>

\* tcp_ack_delay_flush for the one socket that can be in the array
AckDelayFlush ==
    /\ sk["c"].http_ack
    /\ Step("c", {}, LAMBDA w :
            LET x == Set(w, [w.s EXCEPT !.http_ack = FALSE])
            IN  IF x.s.state = SK_ESTABLISHED THEN Reply(x, "c", ACK) ELSE x)
    /\ UNCHANGED <<cfg, phase, opens>>

Older(a, most) == IF a < most THEN a + 1 ELSE a

\* Time passes on both machines.  A round trip and a pass of the loop take less
\* than one unit unless a packet or a loop is late.
Tick ==
    LET late == net # {} \/ Due("c") \/ Due("s")
    IN  /\ late => CanFail("late")
        /\ faults' = IF late THEN faults + 1 ELSE faults
        /\ sk' = [e \in Ends |-> [sk[e] EXCEPT !.age = Older(@, AgeMax),
                                             !.quiet = Older(@, QuietMax)]]
        /\ sk' # sk
        /\ UNCHANGED <<cfg, net, phase, opens>>

\* the worker's second counter reaches the configured duration
DurationOver ==
    /\ phase = "run" /\ phase' = "over"
    /\ UNCHANGED <<cfg, sk, net, opens, faults>>

\* the control thread calls work_space_stop_all
Stop ==
    /\ phase # "stop" /\ phase' = "stop"
    /\ UNCHANGED <<cfg, sk, net, opens, faults>>

Next ==
    \/ \E e \in Ends : Receive(e) \/ ReceiveCopy(e) \/ RetransmitTimer(e)
    \/ Launch \/ KeepaliveTimer \/ TimeoutTimer \/ AckDelayFlush
    \/ Lose \/ Tick \/ DurationOver \/ Stop

Spec == Init /\ [][Next]_vars

(***************************************************************************)
(* The loops poll forever: packets that stay in the network are received,  *)
(* expired timers run, time passes, and the control thread ends the test.  *)
(* Each conjunct is weak fairness with the action's guard written out.     *)
(***************************************************************************)
Arrived(e) == \E p \in net : p.from = Other(e)

Fairness ==
    /\ \A e \in Ends :
        /\ []<>~Arrived(e) \/ []<><<Receive(e)>>_vars
        /\ []<>~Expired(e, "retransmit") \/ []<><<RetransmitTimer(e)>>_vars
    /\ []<>~Expired("c", "keepalive") \/ []<><<KeepaliveTimer>>_vars
    /\ []<>~Expired("s", "timeout") \/ []<><<TimeoutTimer>>_vars
    /\ []<>~sk["c"].http_ack \/ []<><<AckDelayFlush>>_vars
    /\ WF_vars(Tick)
    /\ WF_vars(Stop)

FairSpec == Spec /\ Fairness
-----------------------------------------------------------------------------
Flags == SUBSET {"SYN", "ACK", "PUSH", "FIN", "RST", "URG"}

Sockets ==
    [state : States, rcv_nxt : Seq, snd_nxt : Seq, snd_una : Seq, flags : Flags,
     retrans : 0 .. RETRANSMIT_NUM_MAX, keepalive : BOOLEAN, reqnum : Nat,
     timer : {"none", "retransmit", "keepalive", "timeout"}, age : 0 .. AgeMax,
     http_ack : BOOLEAN, snd_window : 0 .. SEND_WINDOW_MAX, snd_max : Seq, parts : Nat,
     id : Nat, got : Nat, rid : Nat,
     by : {"none", "fin", "fast", "error", "rst", "flood"}, quiet : 0 .. QuietMax]

Packets ==
    [from : Ends, flags : Flags, seq : Seq, ack : Seq, len : Nat, id : Nat]

\* Types, and the queue discipline of the intrusive timer node: a closed socket
\* is in no timer queue, so no timer handler ever runs on one.
TypeOK ==
    /\ cfg \in Configs
    /\ sk \in [Ends -> Sockets]
    /\ \A p \in net : p \in Packets
    /\ phase \in {"run", "over", "stop"}
    /\ {opens, faults} \subseteq Nat
    /\ \A e \in Ends : sk[e].state = SK_CLOSED => sk[e].timer = "none"

\* tcp_check_sequence keeps delivery exactly-once: whatever is lost, delayed,
\* duplicated or retransmitted, the server parses each request once.
ServedOnce ==
    [][sk'["s"].got # sk["s"].got => sk'["s"].id > sk["s"].id]_vars

\* ... and a segment the client accepts answers its outstanding request: it is
\* the first of a response to a request that was not answered before, or belongs
\* to the response being read; never one of an earlier connection.
AnswersMyRequest ==
    [][sk'["c"].got # sk["c"].got =>
           /\ sk'["c"].rid = sk["c"].id
           /\ (sk'["c"].rid > sk["c"].rid) <=> (sk["c"].parts = 0)]_vars

\* A client connection that closes by FIN, with no error counted, has had all of
\* its requests answered: the statistics do not hide a lost request.
FinMeansAnswered ==
    sk["c"].state = SK_CLOSED /\ sk["c"].by \in {"fin", "fast"} =>
        sk["c"].rid = sk["c"].id /\ sk["c"].parts = 0

\* Once both ends have synchronised, each has received a prefix of what the
\* other has outstanding: nothing or everything when it stops and waits.  With a
\* send window the server has at most the window outstanding, until its FIN.
InStep ==
    \A e \in Ends : LET s == sk[e] r == sk[Other(e)] IN
        s.state >= SK_ESTABLISHED /\ r.state >= SK_ESTABLISHED =>
            IF Windowed(e)
            THEN s.state = SK_ESTABLISHED =>
                 /\ SeqLe(s.snd_una, r.rcv_nxt) /\ SeqLe(r.rcv_nxt, s.snd_nxt)
                 /\ SeqLe(s.snd_nxt, Plus(s.snd_una, SendWindow * RspLen))
            ELSE r.rcv_nxt \in {s.snd_una, s.snd_nxt}

\* The server closes idle sockets: an open server socket is always linked in a
\* timer queue that will resend or close it; with a send window, only while it is
\* ESTABLISHED.
ServerTimerArmed ==
    sk["s"].state # SK_CLOSED /\ (Windowed("s") => sk["s"].state = SK_ESTABLISHED) =>
        sk["s"].timer \in {"retransmit", "timeout"}

\* An unacknowledged client segment is guarded by the retransmit queue, and what
\* the timer will resend (sk->flags) is that segment, not a bare ACK.
ClientResendReady ==
    sk["c"].state # SK_CLOSED /\ sk["c"].snd_nxt # sk["c"].snd_una =>
        /\ sk["c"].timer = "retransmit"
        /\ sk["c"].flags \cap (SYN \cup PUSH \cup FIN) # {}

\* A socket waits in FIN_WAIT_2 for the peer's FIN only once its own FIN has
\* been acknowledged ("wait FIN" in tcp_process_fin).
FinWait2Acked ==
    \A e \in Ends : sk[e].state = SK_FIN_WAIT_2 => sk[e].snd_nxt = sk[e].snd_una

\* The peer has had a second to answer before an end resends.
Rested(e) == sk'[e].retrans > sk[e].retrans => sk[e].quiet > TSC_PER_SEC

\* No server without a send window resends before the peer has had a second to
\* answer, and no client without keepalive.  With keepalive and an interval of retransmit_timeout or
\* more socket_accurate_timer_tsc arms a timer that has expired already.
RetransmitPacedShort ==
    [][\A e \in Ends :
        ~Windowed(e) /\ (e = "s" \/ ~Keepalive["c"]) => Rested(e)]_vars

\* After the test is stopped every connection ends on both machines.
AllClosed == \A e \in Ends : sk[e].state = SK_CLOSED
EventuallyClosed == (phase = "stop") ~> AllClosed

\* "server close idle sockets": when no packet arrives any more the server closes.
ServerClosesIdle == (phase = "stop" /\ net = {}) ~> (sk["s"].state = SK_CLOSED)
=============================================================================
