----------------------------- MODULE TcpProofs -----------------------------
(***************************************************************************)
(* What the TCP handlers keep, for every configuration, whatever arrives:  *)
(* types and timer queues, the meaning of FIN_WAIT_2, a timer on every     *)
(* open server socket, and a pause before the server resends.              *)
(***************************************************************************)
EXTENDS Tcp, FiniteSetTheorems, TLAPS

(* A work record, and what links the state of a socket to its timer queue  *)
(* and its retransmissions.                                                *)
Typed(w) == w \in [s : Sockets, out : SUBSET Packets, bufs : Nat]

Linked(s) ==
    IF s.state = SK_CLOSED THEN s.timer = "none" ELSE s.retrans < RETRANSMIT_NUM_MAX

Sane(w) == Typed(w) /\ Linked(w.s)

(* What TcpAssumption says of the configuration of this test.              *)
LEMMA CfgFacts ==
  ASSUME cfg \in Configs
  PROVE  /\ cfg \in ConfigType
         /\ Interval \in Nat /\ RTO \in Nat \ {0} /\ AgeMax > 3 * Interval
         /\ SendWindow \in Nat /\ SendWindow <= SEND_WINDOW_MAX
         /\ cfg.segs \in Nat \ {0} /\ KeepaliveNum \in Nat
         /\ Keepalive \in [Ends -> BOOLEAN]
         /\ Http \in BOOLEAN /\ Flood \in BOOLEAN /\ FastClose \in BOOLEAN
  BY TcpAssumption DEF ConfigType, Interval, RTO, SendWindow, KeepaliveNum, Keepalive,
     Http, Flood, FastClose

(* What TcpAssumption says of the numbers.                                 *)
LEMMA Numbers ==
  /\ SeqMod \in Nat /\ SeqMod > 1
  /\ InitSeq \in [Ends -> Seq]
  /\ ReqLen \in Nat \ {0} /\ RspLen \in Nat \ {0}
  /\ ReqLen + 1 < SeqMod /\ RspLen + 1 < SeqMod
  /\ RETRANSMIT_NUM_MAX \in Nat /\ RETRANSMIT_NUM_MAX >= 3
  /\ TSC_PER_SEC \in Nat \ {0}
  /\ SEND_WINDOW_MAX \in Nat /\ SEND_WINDOW_MAX >= 2
  /\ AgeMax \in Nat /\ AgeMax > TSC_PER_SEC
  BY TcpAssumption DEF Seq

(* Sequence numbers stay within their width.                               *)
LEMMA PlusType ==
  ASSUME NEW a \in Nat, NEW n \in Nat
  PROVE  Plus(a, n) \in Seq
  BY Numbers DEF Plus, Seq

(* A segment shorter than the sequence space moves a sequence number.      *)
LEMMA PlusMoves ==
  ASSUME NEW a \in Seq, NEW n \in Nat \ {0}, n < SeqMod
  PROVE  Plus(a, n) # a
  <1>1. a \in Nat /\ a < SeqMod /\ SeqMod \in Nat
    BY Numbers DEF Seq
  <1>2. CASE a + n < SeqMod
    BY <1>1, <1>2 DEF Plus
  <1>3. CASE a + n >= SeqMod
    <2>1. (a + n) % SeqMod = a + n - SeqMod
      BY <1>1, <1>3
    <2> QED
      BY <1>1, <2>1 DEF Plus
  <1> QED
    BY <1>1, <1>2, <1>3

(* Segments that must be acknowledged take sequence numbers.               *)
LEMMA LengthType ==
  ASSUME NEW e \in Ends, NEW f \in Flags
  PROVE  /\ SegLen(e, f) \in Nat /\ DataLen(e, f) \in Nat
         /\ SegLen(e, f) < SeqMod
         /\ MustBeAcked(f) <=> SegLen(e, f) # 0
  BY Numbers DEF SegLen, DataLen, MustBeAcked, SYN, FIN, PUSH

(* tcp_new_packet builds a packet.                                         *)
LEMMA SegmentType ==
  ASSUME NEW s \in Sockets, NEW e \in Ends, NEW f \in Flags
  PROVE  Segment(s, e, f) \in Packets
  <1>1. DataLen(e, f) \in Nat
    BY LengthType
  <1>2. s.snd_una \in Seq /\ s.rcv_nxt \in Seq /\ s.id \in Nat
    BY DEF Sockets
  <1> QED
    BY <1>1, <1>2 DEF Segment, Packets, Flags

(* socket_accurate_timer_tsc sets no timer in the future.                  *)
LEMMA AccurateAgeType ==
  ASSUME cfg \in Configs, NEW a \in 0 .. AgeMax
  PROVE  AccurateAge(a) \in 0 .. AgeMax
  BY CfgFacts, Numbers DEF AccurateAge

-----------------------------------------------------------------------------
(* What tcp_reply does to a socket.                                        *)
Replied(w, e, f, r) ==
    LET s == w.s t == r.s IN
    /\ Typed(r)
    /\ t.state = s.state /\ t.retrans = s.retrans /\ t.snd_una = s.snd_una
    /\ t.keepalive = s.keepalive /\ t.reqnum = s.reqnum /\ t.http_ack = s.http_ack
    /\ t.snd_window = s.snd_window /\ t.parts = s.parts
    /\ t.snd_nxt = IF w.bufs > 0 /\ s.snd_nxt = s.snd_una
                   THEN Plus(s.snd_nxt, SegLen(e, f)) ELSE s.snd_nxt
    /\ t.timer = IF Windowed(e) \/ s.state = SK_CLOSED THEN s.timer
                 ELSE IF MustBeAcked(f)
                      THEN (IF t.snd_nxt # t.snd_una THEN "retransmit" ELSE s.timer)
                      ELSE (IF e = "s" THEN "timeout" ELSE s.timer)

(* A work record keeps its type when its socket does.                      *)
LEMMA SetType ==
  ASSUME NEW w, Typed(w), NEW s \in Sockets
  PROVE  Typed(Set(w, s)) /\ Set(w, s).s = s /\ Set(w, s).bufs = w.bufs /\ Set(w, s).out = w.out
  BY DEF Typed, Set

(* tcp_new_packet moves snd_nxt and nothing else that matters.             *)
Transmitted(w, e, f, y) ==
    /\ Typed(y)
    /\ \E n \in Seq, q \in 0 .. QuietMax, i \in Nat :
          /\ y.s = [w.s EXCEPT !.snd_nxt = n, !.quiet = q, !.id = i]
          /\ n = IF w.bufs > 0 /\ w.s.snd_nxt = w.s.snd_una
                 THEN Plus(w.s.snd_nxt, SegLen(e, f)) ELSE w.s.snd_nxt

(* Sending a segment has that effect, whether or not there is an mbuf.     *)
LEMMA NewPacketFacts ==
  ASSUME NEW w, Typed(w), NEW e \in Ends, NEW f \in Flags
  PROVE  Transmitted(w, e, f, NewPacket(w, e, f))
  <1>1. w.s \in Sockets /\ w.out \in SUBSET Packets /\ w.bufs \in Nat
    BY DEF Typed
  <1>2. w.s.snd_nxt \in Seq /\ w.s.quiet \in 0 .. QuietMax /\ w.s.id \in Nat
    BY <1>1 DEF Sockets
  <1>3. CASE w.bufs = 0
    <2>1. NewPacket(w, e, f) = w
      BY <1>3 DEF NewPacket
    <2>2. w.s = [w.s EXCEPT !.snd_nxt = w.s.snd_nxt, !.quiet = w.s.quiet, !.id = w.s.id]
      BY <1>1 DEF Sockets
    <2>3. w.s.snd_nxt = IF w.bufs > 0 /\ w.s.snd_nxt = w.s.snd_una
                        THEN Plus(w.s.snd_nxt, SegLen(e, f)) ELSE w.s.snd_nxt
      BY <1>3
    <2> QED
      BY <1>2, <2>1, <2>2, <2>3, Zenon DEF Transmitted
  <1>4. CASE w.bufs # 0
    <2> DEFINE s == w.s
               new == s.snd_nxt = s.snd_una
               n == IF new THEN Plus(s.snd_nxt, SegLen(e, f)) ELSE s.snd_nxt
               i == IF new /\ e = "c" /\ "PUSH" \in f THEN s.id + 1 ELSE s.id
               t == [s EXCEPT !.snd_nxt = n, !.quiet = 0, !.id = i]
    <2>1. n \in Seq
      <3>1. s.snd_nxt \in Nat /\ SegLen(e, f) \in Nat
        BY <1>2, LengthType DEF Seq
      <3>2. Plus(s.snd_nxt, SegLen(e, f)) \in Seq
        BY <3>1, PlusType
      <3> QED
        BY <1>2, <3>2
    <2>2. i \in Nat /\ 0 \in 0 .. QuietMax
      BY <1>2, Numbers DEF QuietMax
    <2>3. t \in Sockets
      <3> HIDE DEF n, i
      <3> QED BY <1>1, <2>1, <2>2 DEF Sockets
    <2>4. Advance(s, e, f) = t
      BY DEF Advance
    <2>5. NewPacket(w, e, f) = [s |-> t, bufs |-> w.bufs - 1, out |-> w.out \cup {Segment(t, e, f)}]
      BY <1>4, <2>4 DEF NewPacket
    <2>6. Segment(t, e, f) \in Packets
      BY <2>3, SegmentType
    <2>7. w.bufs - 1 \in Nat /\ w.bufs > 0
      BY <1>1, <1>4
    <2>8. Typed(NewPacket(w, e, f))
      <3> HIDE DEF t
      <3> QED BY <1>1, <2>3, <2>5, <2>6, <2>7 DEF Typed
    <2>9. NewPacket(w, e, f).s = t
      BY <2>5
    <2> HIDE DEF n, i
    <2>10. NewPacket(w, e, f).s = [w.s EXCEPT !.snd_nxt = n, !.quiet = 0, !.id = i]
      BY <2>9
    <2>11. n = IF w.bufs > 0 /\ w.s.snd_nxt = w.s.snd_una
               THEN Plus(w.s.snd_nxt, SegLen(e, f)) ELSE w.s.snd_nxt
      BY <2>7 DEF n
    <2> QED
      BY <2>1, <2>2, <2>8, <2>10, <2>11 DEF Transmitted
  <1> QED
    BY <1>3, <1>4

(* The timer tcp_reply arms is the retransmit timer while something is     *)
(* outstanding, and otherwise the server's idle timeout.                   *)
LEMMA ArmFacts ==
  ASSUME cfg \in Configs, NEW s \in Sockets, NEW e \in Ends, NEW f \in Flags
  PROVE  \E q \in {"none", "retransmit", "keepalive", "timeout"}, a \in 0 .. AgeMax :
           /\ Arm(s, e, f) = [s EXCEPT !.timer = q, !.age = a]
           /\ q = IF Windowed(e) \/ s.state = SK_CLOSED THEN s.timer
                  ELSE IF MustBeAcked(f)
                       THEN (IF s.snd_nxt # s.snd_una THEN "retransmit" ELSE s.timer)
                       ELSE (IF e = "s" THEN "timeout" ELSE s.timer)
  <1> DEFINE age == IF e = "c" /\ s.keepalive THEN AccurateAge(s.age) ELSE 0
  <1>1. s.age \in 0 .. AgeMax /\ s.timer \in {"none", "retransmit", "keepalive", "timeout"}
    BY DEF Sockets
  <1>2. age \in 0 .. AgeMax /\ 0 \in 0 .. AgeMax
    BY <1>1, AccurateAgeType, Numbers
  <1>3. s = [s EXCEPT !.timer = s.timer, !.age = s.age]
    BY DEF Sockets
  <1> HIDE DEF age
  <1>4. CASE Windowed(e) \/ s.state = SK_CLOSED
    <2>1. Arm(s, e, f) = s
      BY <1>4 DEF Arm
    <2> QED
      BY <1>1, <1>3, <1>4, <2>1
  <1>5. CASE ~(Windowed(e) \/ s.state = SK_CLOSED) /\ MustBeAcked(f)
    <2>1. CASE s.snd_nxt # s.snd_una
      <3>1. Arm(s, e, f) = [s EXCEPT !.timer = "retransmit", !.age = age]
        BY <1>5, <2>1 DEF Arm, AddTimer, age
      <3> QED
        BY <1>2, <1>5, <2>1, <3>1
    <2>2. CASE s.snd_nxt = s.snd_una
      <3>1. Arm(s, e, f) = s
        BY <1>5, <2>2 DEF Arm
      <3> QED
        BY <1>1, <1>3, <1>5, <2>2, <3>1
    <2> QED
      BY <2>1, <2>2
  <1>6. CASE ~(Windowed(e) \/ s.state = SK_CLOSED) /\ ~MustBeAcked(f)
    <2>1. CASE e = "s"
      <3>1. Arm(s, e, f) = [s EXCEPT !.timer = "timeout", !.age = 0]
        BY <1>6, <2>1 DEF Arm, AddTimer
      <3> QED
        BY <1>2, <1>6, <2>1, <3>1
    <2>2. CASE e # "s"
      <3>1. Arm(s, e, f) = s
        BY <1>6, <2>2 DEF Arm
      <3> QED
        BY <1>1, <1>3, <1>6, <2>2, <3>1
    <2> QED
      BY <2>1, <2>2
  <1> QED
    BY <1>4, <1>5, <1>6

(* tcp_reply as a whole.                                                   *)
LEMMA ReplyFacts ==
  ASSUME cfg \in Configs, NEW w, Typed(w), NEW e \in Ends, NEW f \in Flags
  PROVE  Replied(w, e, f, Reply(w, e, f))
  <1> DEFINE s == w.s
             x == Set(w, [s EXCEPT !.flags = f])
             y == NewPacket(x, e, f)
  <1>1. s \in Sockets /\ w.bufs \in Nat
    BY DEF Typed
  <1>2. [s EXCEPT !.flags = f] \in Sockets
    BY <1>1 DEF Sockets
  <1>3. Typed(x) /\ x.s = [s EXCEPT !.flags = f] /\ x.bufs = w.bufs
    BY <1>2, SetType
  <1>4. /\ x.s.snd_nxt = s.snd_nxt /\ x.s.snd_una = s.snd_una
    BY <1>1, <1>3 DEF Sockets
  <1> HIDE DEF x
  <1>5. Transmitted(x, e, f, y)
    BY <1>3, NewPacketFacts
  <1>6. PICK n \in Seq, q \in 0 .. QuietMax, i \in Nat :
          /\ y.s = [x.s EXCEPT !.snd_nxt = n, !.quiet = q, !.id = i]
          /\ n = IF x.bufs > 0 /\ x.s.snd_nxt = x.s.snd_una
                 THEN Plus(x.s.snd_nxt, SegLen(e, f)) ELSE x.s.snd_nxt
    BY <1>5 DEF Transmitted
  <1> HIDE DEF y
  <1>7. Typed(y) /\ y.s \in Sockets
    BY <1>5 DEF Transmitted, Typed
  <1>8. PICK qu \in {"none", "retransmit", "keepalive", "timeout"}, a \in 0 .. AgeMax :
           /\ Arm(y.s, e, f) = [y.s EXCEPT !.timer = qu, !.age = a]
           /\ qu = IF Windowed(e) \/ y.s.state = SK_CLOSED THEN y.s.timer
                   ELSE IF MustBeAcked(f)
                        THEN (IF y.s.snd_nxt # y.s.snd_una THEN "retransmit" ELSE y.s.timer)
                        ELSE (IF e = "s" THEN "timeout" ELSE y.s.timer)
    BY <1>7, ArmFacts
  <1> DEFINE t == [y.s EXCEPT !.timer = qu, !.age = a]
  <1>9. t \in Sockets
    BY <1>7, <1>8 DEF Sockets
  <1>10. Reply(w, e, f) = Set(y, t)
    BY <1>8 DEF Reply, x, y
  <1>11. Typed(Reply(w, e, f)) /\ Reply(w, e, f).s = t
    <2> HIDE DEF t
    <2> QED BY <1>7, <1>9, <1>10, SetType
  <1>12. /\ y.s.state = s.state /\ y.s.retrans = s.retrans /\ y.s.snd_una = s.snd_una
         /\ y.s.keepalive = s.keepalive /\ y.s.reqnum = s.reqnum /\ y.s.http_ack = s.http_ack
         /\ y.s.snd_window = s.snd_window /\ y.s.parts = s.parts
         /\ y.s.snd_nxt = n /\ y.s.timer = s.timer
    BY <1>1, <1>3, <1>6 DEF Sockets
  <1>13. /\ t.state = s.state /\ t.retrans = s.retrans /\ t.snd_una = s.snd_una
         /\ t.keepalive = s.keepalive /\ t.reqnum = s.reqnum /\ t.http_ack = s.http_ack
         /\ t.snd_window = s.snd_window /\ t.parts = s.parts
         /\ t.snd_nxt = n /\ t.timer = qu
    BY <1>7, <1>12 DEF Sockets
  <1> HIDE DEF t
  <1>14. n = IF w.bufs > 0 /\ s.snd_nxt = s.snd_una
             THEN Plus(s.snd_nxt, SegLen(e, f)) ELSE s.snd_nxt
    BY <1>3, <1>4, <1>6
  <1>15. qu = IF Windowed(e) \/ s.state = SK_CLOSED THEN s.timer
              ELSE IF MustBeAcked(f)
                   THEN (IF t.snd_nxt # t.snd_una THEN "retransmit" ELSE s.timer)
                   ELSE (IF e = "s" THEN "timeout" ELSE s.timer)
    BY <1>8, <1>12, <1>13
  <1> QED
    BY <1>11, <1>13, <1>14, <1>15 DEF Replied

(* tcp_reply keeps the link between state, timer and retransmissions.      *)
LEMMA ReplySane ==
  ASSUME cfg \in Configs, NEW w, Sane(w), NEW e \in Ends, NEW f \in Flags
  PROVE  /\ Sane(Reply(w, e, f))
         /\ Reply(w, e, f).s.state = w.s.state
         /\ Reply(w, e, f).s.reqnum = w.s.reqnum
         /\ Reply(w, e, f).s.keepalive = w.s.keepalive
  <1>1. Replied(w, e, f, Reply(w, e, f))
    BY ReplyFacts DEF Sane
  <1> QED
    BY <1>1 DEF Replied, Sane, Linked

(* socket_close unlinks the socket whatever it was doing.                  *)
LEMMA CloseSane ==
  ASSUME NEW w, Typed(w), w.s.state = SK_CLOSED => w.s.timer = "none",
         NEW why \in {"fin", "fast", "error", "rst", "flood"}
  PROVE  /\ Sane(Close(w, why)) /\ Close(w, why).s.state = SK_CLOSED
         /\ Close(w, why).s.timer = "none"
  <1>1. w.s \in Sockets
    BY DEF Typed
  <1>2. CASE w.s.state = SK_CLOSED
    BY <1>2 DEF Close, Sane, Linked
  <1>3. CASE w.s.state # SK_CLOSED
    <2> DEFINE t == [w.s EXCEPT !.state = SK_CLOSED, !.timer = "none", !.by = why]
    <2>1. t \in Sockets /\ t.state = SK_CLOSED /\ t.timer = "none"
      BY <1>1 DEF Sockets, States
    <2>2. Close(w, why) = Set(w, t)
      BY <1>3 DEF Close
    <2> HIDE DEF t
    <2>3. Typed(Set(w, t)) /\ Set(w, t).s = t
      BY <2>1, SetType
    <2> QED
      BY <2>1, <2>2, <2>3 DEF Sane, Linked
  <1> QED
    BY <1>2, <1>3

(* ... and changes nothing that later steps depend on.                     *)
LEMMA CloseKeeps ==
  ASSUME NEW w, Typed(w), NEW why
  PROVE  /\ Close(w, why).s.keepalive = w.s.keepalive
         /\ Close(w, why).s.retrans = w.s.retrans
  BY DEF Close, Set, Typed, Sockets

(* Flag sets that the handlers answer with.                                *)
LEMMA FlagSets ==
  /\ SYN \in Flags /\ ACK \in Flags /\ FIN \in Flags /\ PUSH \in Flags /\ RST \in Flags
  /\ {} \in Flags /\ MORE \in Flags
  /\ \A f, g \in Flags : f \cup g \in Flags
  BY DEF SYN, ACK, FIN, PUSH, RST, MORE, Flags

(* socket_start_retransmit_timer on an open socket.                        *)
LEMMA StartRetransmitFacts ==
  ASSUME NEW s \in Sockets
  PROVE  /\ StartRetransmit(s) \in Sockets
         /\ StartRetransmit(s).state = s.state
         /\ StartRetransmit(s).retrans = s.retrans
  <1>1. 0 \in 0 .. AgeMax
    BY Numbers
  <1> QED
    BY <1>1 DEF StartRetransmit, AddTimer, Sockets

(* socket_start_keepalive_timer with an age that a timer can have.         *)
LEMMA StartKeepaliveFacts ==
  ASSUME NEW s \in Sockets, NEW a \in 0 .. AgeMax
  PROVE  LET t == StartKeepalive(s, a) IN
         /\ t \in Sockets
         /\ t.state = s.state /\ t.retrans = s.retrans /\ t.snd_nxt = s.snd_nxt
         /\ t.snd_una = s.snd_una /\ t.keepalive = s.keepalive
         /\ t.timer \in {s.timer, "keepalive"}
  BY DEF StartKeepalive, AddTimer, Sockets

(* A new socket value in a work record.                                    *)
LEMMA SetSane ==
  ASSUME NEW w, Typed(w), NEW t \in Sockets, Linked(t)
  PROVE  Sane(Set(w, t)) /\ Set(w, t).s = t /\ Typed(Set(w, t)) /\ Set(w, t).bufs = w.bufs
  BY SetType DEF Sane

(* Only the first outstanding segment is sent again.                       *)
LEMMA ResendFirstFacts ==
  ASSUME cfg \in Configs, NEW w, Typed(w)
  PROVE  LET r == ResendFirst(w) IN
         /\ Typed(r)
         /\ r.s.state = w.s.state /\ r.s.retrans = w.s.retrans
         /\ w.s.state = SK_CLOSED => r.s.timer = w.s.timer
  <1> DEFINE s == w.s
             x == Set(w, [s EXCEPT !.snd_nxt = s.snd_una])
             y == Reply(x, "s", PUSH \cup ACK)
             t == [y.s EXCEPT !.snd_nxt = s.snd_nxt, !.snd_window = 1]
  <1>1. s \in Sockets
    BY DEF Typed
  <1>2. [s EXCEPT !.snd_nxt = s.snd_una] \in Sockets
    BY <1>1 DEF Sockets
  <1>3. Typed(x) /\ x.s = [s EXCEPT !.snd_nxt = s.snd_una]
    BY <1>2, SetType
  <1> HIDE DEF x
  <1>4. Replied(x, "s", PUSH \cup ACK, y)
    BY <1>3, ReplyFacts, FlagSets DEF Ends
  <1> HIDE DEF y
  <1>5. Typed(y) /\ y.s \in Sockets
    BY <1>4 DEF Replied, Typed
  <1>6. s.snd_nxt \in Seq /\ 1 \in 0 .. SEND_WINDOW_MAX
    BY <1>1, Numbers DEF Sockets
  <1>7. t \in Sockets /\ t.state = y.s.state /\ t.retrans = y.s.retrans /\ t.timer = y.s.timer
    BY <1>5, <1>6 DEF Sockets
  <1>8. /\ y.s.state = s.state /\ y.s.retrans = s.retrans
        /\ s.state = SK_CLOSED => y.s.timer = s.timer
    <2>1. x.s.state = s.state /\ x.s.retrans = s.retrans /\ x.s.timer = s.timer
      BY <1>1, <1>3 DEF Sockets
    <2> QED
      BY <1>4, <2>1 DEF Replied
  <1>9. ResendFirst(w) = Set(y, t)
    BY DEF ResendFirst, x, y
  <1> HIDE DEF t
  <1>10. Typed(Set(y, t)) /\ Set(y, t).s = t
    BY <1>5, <1>7, SetType
  <1> QED
    BY <1>7, <1>8, <1>9, <1>10

(* tcp_do_retransmit resends, gives up or has nothing to do; it counts to  *)
(* RETRANSMIT_NUM_MAX and no further.                                      *)
LEMMA DoRetransmitSane ==
  ASSUME cfg \in Configs, NEW w, Sane(w), w.s.state # SK_CLOSED, NEW e \in Ends
  PROVE  Sane(DoRetransmit(w, e))
  <1> DEFINE s == w.s
             n == s.retrans + 1
             x == Set(w, [s EXCEPT !.retrans = n])
  <1>1. s \in Sockets /\ Typed(w) /\ s.retrans < RETRANSMIT_NUM_MAX
    BY DEF Typed, Sane, Linked
  <1>2. s.retrans \in 0 .. RETRANSMIT_NUM_MAX /\ n \in 0 .. RETRANSMIT_NUM_MAX /\ 0 \in 0 .. RETRANSMIT_NUM_MAX
    BY <1>1, Numbers DEF Sockets
  <1>3. [s EXCEPT !.retrans = n] \in Sockets /\ [s EXCEPT !.retrans = 0] \in Sockets
    BY <1>1, <1>2 DEF Sockets
  <1>4. Typed(x) /\ x.s = [s EXCEPT !.retrans = n] /\ x.s.state = s.state /\ x.s.retrans = n
    <2>1. [s EXCEPT !.retrans = n].state = s.state /\ [s EXCEPT !.retrans = n].retrans = n
      BY <1>1 DEF Sockets
    <2> QED
      BY <1>1, <1>3, <2>1, SetType
  <1> HIDE DEF x
  <1>5. CASE s.snd_nxt = s.snd_una
    <2>1. DoRetransmit(w, e) = Set(w, [s EXCEPT !.retrans = 0])
      BY <1>5 DEF DoRetransmit
    <2>2. [s EXCEPT !.retrans = 0].state = s.state /\ [s EXCEPT !.retrans = 0].retrans = 0
      BY <1>1 DEF Sockets
    <2>3. Linked([s EXCEPT !.retrans = 0])
      BY <2>2, Numbers DEF Linked
    <2> QED
      BY <1>1, <1>3, <2>1, <2>3, SetSane
  <1>6. CASE s.snd_nxt # s.snd_una /\ n >= RETRANSMIT_NUM_MAX
    <2>1. DoRetransmit(w, e) = Close(x, "error")
      BY <1>2, <1>6, Numbers DEF DoRetransmit, GiveUp, x
    <2> QED
      BY <1>4, <2>1, CloseSane
  <1>7. CASE s.snd_nxt # s.snd_una /\ n < RETRANSMIT_NUM_MAX
    <2>1. Sane(x)
      BY <1>4, <1>7 DEF Sane, Linked
    <2>2. CASE Windowed(e) /\ "PUSH" \in s.flags
      <3> DEFINE y == ResendFirst(x)
      <3>1. Typed(y) /\ y.s.state = s.state /\ y.s.retrans = n
        BY <1>4, ResendFirstFacts
      <3>2. DoRetransmit(w, e) = Set(y, StartRetransmit(y.s))
        BY <1>2, <1>7, <2>2, Numbers DEF DoRetransmit, x
      <3> HIDE DEF y
      <3>3. y.s \in Sockets
        BY <3>1 DEF Typed
      <3>4. StartRetransmit(y.s) \in Sockets /\ Linked(StartRetransmit(y.s))
        BY <1>7, <3>1, <3>3, StartRetransmitFacts DEF Linked
      <3> QED
        BY <3>1, <3>2, <3>4, SetSane
    <2>3. CASE ~(Windowed(e) /\ "PUSH" \in s.flags)
      <3>1. DoRetransmit(w, e) = Reply(x, e, s.flags)
        BY <1>2, <1>7, <2>3, Numbers DEF DoRetransmit, x
      <3>2. s.flags \in Flags
        BY <1>1 DEF Sockets
      <3> QED
        BY <2>1, <3>1, <3>2, ReplySane
    <2> QED
      BY <2>2, <2>3
  <1> QED
    BY <1>2, <1>5, <1>6, <1>7, Numbers

(* What tcp_check_sequence leaves.  Without a send window it accepts only  *)
(* a segment that acknowledges everything, or a simultaneous FIN, and      *)
(* refuses one without more than a retransmission.                         *)
CheckedSeq(w, e, c) ==
    /\ c.ok \in BOOLEAN /\ Sane(c.w)
    /\ c.ok => c.w.s.state # SK_CLOSED /\ c.w.bufs = w.bufs
    /\ c.ok /\ ~Windowed(e) =>
          \/ c.w.s.state = w.s.state /\ c.w.s.snd_nxt = c.w.s.snd_una
          \/ c.w.s.state = SK_CLOSING /\ c.w.s.snd_nxt # c.w.s.snd_una
    /\ ~c.ok /\ ~Windowed(e) =>
          \/ c.w = w
          \/ w.s.state = SK_CLOSED /\ c.w.s = [w.s EXCEPT !.retrans = 0]
          \/ w.s.state # SK_CLOSED /\ c.w = DoRetransmit(w, e)

(* The send_window branch counts repeated ACKs up to the third.            *)
LEMMA PartlyAckedFacts ==
  ASSUME cfg \in Configs, NEW w, Sane(w), w.s.state # SK_CLOSED, NEW p \in Packets
  PROVE  LET c == PartlyAcked(w, p) IN
         /\ c.ok \in BOOLEAN /\ Sane(c.w)
         /\ c.ok => c.w.s.state # SK_CLOSED /\ c.w.bufs = w.bufs
  <1> DEFINE s == w.s
             c == PartlyAcked(w, p)
             again == p.ack = s.snd_una
             more == [s EXCEPT !.retrans = 0, !.snd_una = p.ack, !.snd_window = Grown(s, "s")]
             one == [s EXCEPT !.retrans = @ + 1]
             dup == Set(w, one)
  <1>1. Typed(w) /\ s \in Sockets /\ s.retrans < RETRANSMIT_NUM_MAX
    BY DEF Sane, Typed, Linked
  <1>2. s.retrans \in 0 .. RETRANSMIT_NUM_MAX /\ s.retrans + 1 \in 0 .. RETRANSMIT_NUM_MAX
    BY <1>1, Numbers DEF Sockets
  <1>3. one \in Sockets /\ one.state = s.state /\ one.retrans = s.retrans + 1
    BY <1>1, <1>2 DEF Sockets
  <1> HIDE DEF one
  <1>4. Typed(dup) /\ dup.s = one /\ dup.bufs = w.bufs
    BY <1>1, <1>3, SetType
  <1>5. CASE SeqLt(s.snd_una, p.ack)
    <2>1. Grown(s, "s") \in 0 .. SEND_WINDOW_MAX /\ p.ack \in Seq /\ 0 \in 0 .. RETRANSMIT_NUM_MAX
      <3>1. s.snd_window \in 0 .. SEND_WINDOW_MAX
        BY <1>1 DEF Sockets
      <3> QED
        BY <3>1, Numbers DEF Grown, Packets
    <2> DEFINE gr == Grown(s, "s")
    <2> HIDE DEF gr
    <2>2. more \in Sockets /\ more.state = s.state /\ more.retrans = 0
      BY <1>1, <2>1 DEF Sockets
    <2>3. c = [ok |-> TRUE, w |-> Set(w, more)]
      <3>1. ~again
        BY <1>5 DEF SeqLt
      <3> QED
        BY <1>5, <3>1 DEF PartlyAcked
    <2> HIDE DEF more
    <2>4. Linked(more)
      BY <2>2, Numbers DEF Linked
    <2>5. Sane(Set(w, more)) /\ Set(w, more).s = more /\ Set(w, more).bufs = w.bufs
      BY <1>1, <2>2, <2>4, SetSane
    <2> QED
      BY <2>2, <2>3, <2>5
  <1>6. CASE ~SeqLt(s.snd_una, p.ack) /\ again /\ s.retrans + 1 < 3
    <2>1. c = [ok |-> FALSE, w |-> dup]
      BY <1>2, <1>6 DEF PartlyAcked, one
    <2>2. Sane(dup)
      BY <1>2, <1>3, <1>4, <1>6, Numbers DEF Sane, Linked
    <2> QED
      BY <2>1, <2>2
  <1>7. CASE ~SeqLt(s.snd_una, p.ack) /\ again /\ s.retrans + 1 >= 3
    <2> DEFINE x == ResendFirst(dup)
               t == [x.s EXCEPT !.retrans = 0]
    <2>1. c = [ok |-> FALSE, w |-> Set(x, t)]
      BY <1>2, <1>7 DEF PartlyAcked, one
    <2>2. Typed(x) /\ x.s.state = s.state
      BY <1>3, <1>4, ResendFirstFacts
    <2> HIDE DEF x
    <2>3. x.s \in Sockets /\ 0 \in 0 .. RETRANSMIT_NUM_MAX
      BY <2>2, Numbers DEF Typed
    <2>4. t \in Sockets /\ t.state = s.state /\ t.retrans = 0
      BY <2>2, <2>3 DEF Sockets
    <2> HIDE DEF t
    <2>5. Linked(t)
      BY <2>4, Numbers DEF Linked
    <2>6. Sane(Set(x, t))
      BY <2>2, <2>4, <2>5, SetSane
    <2> QED
      BY <2>1, <2>6
  <1>8. CASE ~SeqLt(s.snd_una, p.ack) /\ ~again
    <2>1. c = [ok |-> FALSE, w |-> w]
      BY <1>8 DEF PartlyAcked
    <2> QED
      BY <2>1
  <1> QED
    BY <1>2, <1>5, <1>6, <1>7, <1>8

(* tcp_check_sequence as a whole.                                          *)
LEMMA CheckSequenceFacts ==
  ASSUME cfg \in Configs, NEW w, Sane(w), NEW e \in Ends, NEW p \in Packets
  PROVE  CheckedSeq(w, e, CheckSequence(w, e, p))
  <1> DEFINE s == w.s
             c == CheckSequence(w, e, p)
             len == p.len + (IF "FIN" \in p.flags THEN 1 ELSE 0)
             rcv == Plus(p.seq, len)
             gr == Grown(s, e)
             acked == s.snd_una # p.ack
             tm == IF acked /\ ~Windowed(e) THEN "none" ELSE s.timer
             taken == [s EXCEPT !.retrans = 0, !.snd_una = p.ack, !.rcv_nxt = rcv,
                                !.snd_window = gr, !.timer = tm]
             simult == s.state = SK_FIN_WAIT_1 /\ "FIN" \in p.flags
                       /\ len = 1 /\ ~acked /\ p.seq = s.rcv_nxt
             lost == s.state # SK_CLOSED /\ SeqLe(p.ack, s.snd_nxt)
  <1>1. Typed(w) /\ s \in Sockets
    BY DEF Sane, Typed
  <1>2. p.ack \in Seq /\ p.seq \in Seq /\ p.seq \in Nat /\ len \in Nat
    BY DEF Packets, Seq
  <1>3. rcv \in Seq /\ Plus(p.seq, 1) \in Seq
    <2> HIDE DEF len
    <2> QED BY <1>2, PlusType
  <1>4. gr \in 0 .. SEND_WINDOW_MAX
    <2>1. s.snd_window \in 0 .. SEND_WINDOW_MAX
      BY <1>1 DEF Sockets
    <2> QED
      BY <2>1, Numbers DEF Grown
  <1>5. tm \in {"none", "retransmit", "keepalive", "timeout"} /\ 0 \in 0 .. RETRANSMIT_NUM_MAX
    BY <1>1, Numbers DEF Sockets
  <1>6. CASE InOrder(s, p) /\ s.state # SK_CLOSED
    <2>1. c = [ok |-> TRUE, w |-> Set(w, taken)]
      BY <1>6 DEF CheckSequence
    <2> HIDE DEF gr, tm, rcv
    <2>2. /\ taken \in Sockets /\ taken.state = s.state /\ taken.retrans = 0
          /\ taken.snd_nxt = s.snd_nxt /\ taken.snd_una = p.ack
      BY <1>1, <1>2, <1>3, <1>4, <1>5 DEF Sockets
    <2> HIDE DEF taken
    <2>3. Linked(taken)
      BY <1>6, <2>2, Numbers DEF Linked
    <2>4. Sane(Set(w, taken)) /\ Set(w, taken).s = taken /\ Set(w, taken).bufs = w.bufs
      BY <1>1, <2>2, <2>3, SetSane
    <2>5. taken.snd_nxt = taken.snd_una
      BY <1>6, <2>2 DEF InOrder
    <2> QED
      BY <1>6, <2>1, <2>2, <2>4, <2>5 DEF CheckedSeq
  <1>7. CASE InOrder(s, p) /\ s.state = SK_CLOSED
    <2> DEFINE t == [s EXCEPT !.retrans = 0]
    <2>1. c = [ok |-> FALSE, w |-> Set(w, t)]
      BY <1>7 DEF CheckSequence
    <2>2. t \in Sockets /\ t.state = s.state /\ t.timer = s.timer
      BY <1>1, <1>5 DEF Sockets
    <2>3. Linked(t)
      BY <1>7, <2>2 DEF Linked, Sane
    <2>4. Sane(Set(w, t)) /\ Set(w, t).s = t
      <3> HIDE DEF t
      <3> QED BY <1>1, <2>2, <2>3, SetSane
    <2> QED
      BY <1>7, <2>1, <2>4 DEF CheckedSeq
  <1>8. CASE ~InOrder(s, p) /\ simult
    <2> DEFINE t == [s EXCEPT !.rcv_nxt = Plus(p.seq, 1), !.state = SK_CLOSING]
    <2>1. c = [ok |-> TRUE, w |-> Set(w, t)]
      BY <1>8 DEF CheckSequence
    <2>2. /\ t \in Sockets /\ t.state = SK_CLOSING /\ t.retrans = s.retrans
          /\ t.snd_nxt = s.snd_nxt /\ t.snd_una = s.snd_una
      BY <1>1, <1>3 DEF Sockets, States
    <2>3. Linked(t)
      BY <1>8, <2>2 DEF Linked, Sane, SK_FIN_WAIT_1, SK_CLOSED, SK_CLOSING
    <2> HIDE DEF t
    <2>4. Sane(Set(w, t)) /\ Set(w, t).s = t /\ Set(w, t).bufs = w.bufs
      BY <1>1, <2>2, <2>3, SetSane
    <2>5. t.snd_nxt # t.snd_una
      BY <1>8, <2>2 DEF InOrder
    <2>6. SK_CLOSING # SK_CLOSED
      BY DEF SK_CLOSING, SK_CLOSED
    <2> QED
      BY <2>1, <2>2, <2>4, <2>5, <2>6 DEF CheckedSeq
  <1>9. CASE ~InOrder(s, p) /\ ~simult
    <2>1. c = IF lost /\ Windowed(e) THEN PartlyAcked(w, p)
              ELSE [ok |-> FALSE, w |-> IF lost /\ Paused(s) THEN DoRetransmit(w, e) ELSE w]
      BY <1>9 DEF CheckSequence
    <2>2. CASE lost /\ Windowed(e)
      BY <2>1, <2>2, PartlyAckedFacts DEF CheckedSeq
    <2>3. CASE ~(lost /\ Windowed(e)) /\ lost /\ Paused(s)
      <3>1. Sane(DoRetransmit(w, e))
        BY <2>3, DoRetransmitSane
      <3>2. c = [ok |-> FALSE, w |-> DoRetransmit(w, e)] /\ s.state # SK_CLOSED
        BY <2>1, <2>3
      <3>3. c.ok = FALSE /\ c.w = DoRetransmit(w, e)
        BY <3>2
      <3> QED
        BY <3>1, <3>2, <3>3, Zenon DEF CheckedSeq
    <2>4. CASE ~(lost /\ Windowed(e)) /\ ~(lost /\ Paused(s))
      <3>1. c = [ok |-> FALSE, w |-> w]
        BY <2>1, <2>4
      <3>2. c.ok = FALSE /\ c.w = w
        BY <3>1
      <3> QED
        BY <3>2, Zenon DEF CheckedSeq
    <2> QED
      BY <2>2, <2>3, <2>4
  <1> QED
    BY <1>6, <1>7, <1>8, <1>9

-----------------------------------------------------------------------------
(* FIN_WAIT_2 is a state with nothing outstanding.                         *)
Fin2(s) == s.state = SK_FIN_WAIT_2 => s.snd_nxt = s.snd_una

(* What every handler keeps.                                               *)
Fit(w) == Sane(w) /\ (SendWindow = 0 => Fin2(w.s))

(* What tcp_process_fin does with the flags to answer with.                *)
Finned(w, tx, f) ==
    /\ Sane(f.w) /\ f.tx \in Flags /\ f.w.bufs = w.bufs
    /\ f.w.s.snd_nxt = w.s.snd_nxt /\ f.w.s.snd_una = w.s.snd_una
    /\ f.w.s.state = SK_FIN_WAIT_2 =>
          w.s.state \in {SK_FIN_WAIT_1, SK_FIN_WAIT_2} /\ f.tx = tx

(* tcp_process_fin moves a socket on, and closes it at the end.            *)
LEMMA MaybeFinFacts ==
  ASSUME NEW w, Sane(w), NEW rx, NEW tx \in Flags
  PROVE  Finned(w, tx, MaybeFin(w, rx, tx))
  <1>1. Typed(w) /\ w.s \in Sockets
    BY DEF Sane, Typed
  <1>2. ASSUME NEW st \in States \ {SK_CLOSED}, NEW g \in Flags, w.s.state # SK_CLOSED,
               st = SK_FIN_WAIT_2 => w.s.state = SK_FIN_WAIT_1 /\ g = {}
        PROVE  Finned(w, tx, [w |-> Set(w, [w.s EXCEPT !.state = st]), tx |-> tx \cup g])
    <2> DEFINE t == [w.s EXCEPT !.state = st]
               f == [w |-> Set(w, t), tx |-> tx \cup g]
    <2>1. /\ t \in Sockets /\ t.state = st /\ t.retrans = w.s.retrans
          /\ t.snd_nxt = w.s.snd_nxt /\ t.snd_una = w.s.snd_una
      BY <1>1 DEF Sockets
    <2>2. Linked(t)
      BY <1>2, <2>1 DEF Linked, Sane
    <2> HIDE DEF t
    <2>3. Sane(Set(w, t)) /\ Set(w, t).s = t /\ Set(w, t).bufs = w.bufs
      BY <1>1, <2>1, <2>2, SetSane
    <2>4. tx \cup g \in Flags /\ (g = {} => tx \cup g = tx)
      BY FlagSets
    <2>5. f.w = Set(w, t) /\ f.tx = tx \cup g
      OBVIOUS
    <2>6. Finned(w, tx, f)
      <3> HIDE DEF f
      <3> QED BY <1>2, <2>1, <2>3, <2>4, <2>5 DEF Finned
    <2> QED
      BY <2>6 DEF t
  <1>3. ASSUME NEW g \in Flags
        PROVE  Finned(w, tx, [w |-> Close(w, "fin"), tx |-> tx \cup g])
    <2> DEFINE x == Close(w, "fin")
    <2>1. Sane(x) /\ x.s.state = SK_CLOSED
      BY <1>1, CloseSane DEF Sane, Linked
    <2>2. x.bufs = w.bufs /\ x.s.snd_nxt = w.s.snd_nxt /\ x.s.snd_una = w.s.snd_una
      BY <1>1 DEF Close, Set, Typed, Sockets
    <2>3. tx \cup g \in Flags
      BY FlagSets
    <2>4. SK_CLOSED # SK_FIN_WAIT_2
      BY DEF SK_CLOSED, SK_FIN_WAIT_2
    <2> HIDE DEF x
    <2>5. Finned(w, tx, [w |-> x, tx |-> tx \cup g])
      BY <2>1, <2>2, <2>3, <2>4 DEF Finned
    <2> QED
      BY <2>5 DEF x
  <1>4. Finned(w, tx, [w |-> w, tx |-> tx])
    <2>1. w.s.state \in {SK_FIN_WAIT_1, SK_FIN_WAIT_2} \/ w.s.state # SK_FIN_WAIT_2
      OBVIOUS
    <2> QED
      BY <1>1, <2>1 DEF Finned
  <1>5. Finned(w, tx, ProcessFin(w, rx, tx))
    <2> DEFINE fin == "FIN" \in rx
               f == ProcessFin(w, rx, tx)
    <2>1. FIN \cup ACK \in Flags /\ ACK \in Flags /\ {} \in Flags /\ tx \cup {} = tx
      BY FlagSets
    <2>2. {SK_LAST_ACK, SK_FIN_WAIT_1, SK_FIN_WAIT_2} \subseteq States \ {SK_CLOSED}
      BY DEF States, SK_LAST_ACK, SK_FIN_WAIT_1, SK_FIN_WAIT_2, SK_CLOSED
    <2>3. /\ SK_LAST_ACK # SK_FIN_WAIT_2 /\ SK_FIN_WAIT_1 # SK_FIN_WAIT_2
          /\ SK_ESTABLISHED # SK_CLOSED /\ SK_FIN_WAIT_1 # SK_CLOSED /\ SK_CLOSING # SK_CLOSED
      BY DEF SK_LAST_ACK, SK_FIN_WAIT_1, SK_FIN_WAIT_2, SK_ESTABLISHED, SK_CLOSED, SK_CLOSING
    <2>4. CASE w.s.state = SK_ESTABLISHED /\ fin
      <3>1. f = [w |-> Set(w, [w.s EXCEPT !.state = SK_LAST_ACK]), tx |-> tx \cup (FIN \cup ACK)]
        BY <2>4 DEF ProcessFin, SK_LAST_ACK, SK_FIN_WAIT_1, SK_FIN_WAIT_2, SK_ESTABLISHED, SK_CLOSING
      <3> QED
        BY <1>2, <2>1, <2>2, <2>3, <2>4, <3>1
    <2>5. CASE w.s.state = SK_ESTABLISHED /\ ~fin /\ "FIN" \in tx
      <3>1. f = [w |-> Set(w, [w.s EXCEPT !.state = SK_FIN_WAIT_1]), tx |-> tx \cup (FIN \cup ACK)]
        BY <2>5 DEF ProcessFin, SK_LAST_ACK, SK_FIN_WAIT_1, SK_FIN_WAIT_2, SK_ESTABLISHED, SK_CLOSING
      <3> QED
        BY <1>2, <2>1, <2>2, <2>3, <2>5, <3>1
    <2>6. CASE w.s.state \in {SK_FIN_WAIT_1, SK_FIN_WAIT_2} /\ fin
      <3>1. f = [w |-> Close(w, "fin"), tx |-> tx \cup ACK]
        BY <2>6 DEF ProcessFin, SK_LAST_ACK, SK_FIN_WAIT_1, SK_FIN_WAIT_2, SK_ESTABLISHED, SK_CLOSING
      <3> QED
        BY <1>3, <2>1, <3>1
    <2>7. CASE w.s.state = SK_FIN_WAIT_1 /\ ~fin
      <3>1. f = [w |-> Set(w, [w.s EXCEPT !.state = SK_FIN_WAIT_2]), tx |-> tx \cup {}]
        BY <2>7 DEF ProcessFin, SK_LAST_ACK, SK_FIN_WAIT_1, SK_FIN_WAIT_2, SK_ESTABLISHED, SK_CLOSING
      <3> QED
        BY <1>2, <2>1, <2>2, <2>3, <2>7, <3>1
    <2>8. CASE w.s.state = SK_CLOSING
      <3>1. f = [w |-> Set(w, [w.s EXCEPT !.state = SK_LAST_ACK]), tx |-> tx \cup (FIN \cup ACK)]
        BY <2>8 DEF ProcessFin, SK_LAST_ACK, SK_FIN_WAIT_1, SK_FIN_WAIT_2, SK_ESTABLISHED, SK_CLOSING
      <3> QED
        BY <1>2, <2>1, <2>2, <2>3, <2>8, <3>1
    <2>9. CASE w.s.state = SK_LAST_ACK
      <3>1. f = [w |-> Close(w, "fin"), tx |-> tx \cup {}]
        BY <2>1, <2>9 DEF ProcessFin, SK_LAST_ACK, SK_FIN_WAIT_1, SK_FIN_WAIT_2, SK_ESTABLISHED, SK_CLOSING
      <3> QED
        BY <1>3, <2>1, <3>1
    <2>10. CASE /\ ~(w.s.state = SK_ESTABLISHED /\ (fin \/ "FIN" \in tx))
                /\ ~(w.s.state = SK_FIN_WAIT_2 /\ fin)
                /\ w.s.state \notin {SK_FIN_WAIT_1, SK_CLOSING, SK_LAST_ACK}
      <3>1. f = [w |-> w, tx |-> tx]
        BY <2>10 DEF ProcessFin
      <3> QED
        BY <1>4, <3>1
    <2> QED
      BY <2>4, <2>5, <2>6, <2>7, <2>8, <2>9, <2>10
  <1> QED
    BY <1>4, <1>5 DEF MaybeFin

(* tcp_reply sends nothing that moves snd_nxt in FIN_WAIT_2.               *)
LEMMA ReplyFit ==
  ASSUME cfg \in Configs, NEW w, Sane(w), w.s.state # SK_FIN_WAIT_2,
         NEW e \in Ends, NEW f \in Flags
  PROVE  Fit(Reply(w, e, f))
  BY ReplySane DEF Fit, Fin2

(* tcp_do_retransmit has nothing to do in FIN_WAIT_2.                      *)
LEMMA DoRetransmitFin2 ==
  ASSUME cfg \in Configs, NEW w, Sane(w), w.s.state # SK_CLOSED, NEW e \in Ends, ~Windowed(e)
  PROVE  /\ Fin2(w.s) => Fin2(DoRetransmit(w, e).s)
         /\ DoRetransmit(w, e).s.keepalive = w.s.keepalive
  <1>1. Typed(w) /\ w.s \in Sockets
    BY DEF Sane, Typed
  <1>2. CASE w.s.snd_nxt = w.s.snd_una
    <2>1. DoRetransmit(w, e).s = [w.s EXCEPT !.retrans = 0]
      BY <1>1, <1>2 DEF DoRetransmit, Set, Typed
    <2> QED
      BY <1>1, <1>2, <2>1 DEF Fin2, Sockets
  <1>3. CASE w.s.snd_nxt # w.s.snd_una
    <2> DEFINE n == w.s.retrans + 1
               t == [w.s EXCEPT !.retrans = n]
               x == Set(w, t)
    <2>1. Fin2(w.s) => w.s.state # SK_FIN_WAIT_2
      BY <1>3 DEF Fin2
    <2>2. w.s.retrans < RETRANSMIT_NUM_MAX /\ w.s.retrans \in 0 .. RETRANSMIT_NUM_MAX
      BY <1>1 DEF Sane, Linked, Sockets
    <2>3. n \in 0 .. RETRANSMIT_NUM_MAX
      BY <2>2, Numbers
    <2> HIDE DEF n
    <2>4. t \in Sockets /\ t.state = w.s.state /\ t.keepalive = w.s.keepalive
      BY <1>1, <2>3 DEF Sockets
    <2>5. Typed(x) /\ x.s.state = w.s.state /\ x.s.keepalive = w.s.keepalive
      <3> HIDE DEF t
      <3> QED BY <1>1, <2>4, SetType
    <2> HIDE DEF x
    <2>6. CASE n >= RETRANSMIT_NUM_MAX
      <3>1. DoRetransmit(w, e) = Close(x, "error")
        BY <1>3, <2>3, <2>6, Numbers DEF DoRetransmit, GiveUp, x, n
      <3>2. Close(x, "error").s.state = SK_CLOSED /\ Close(x, "error").s.keepalive = x.s.keepalive
        BY <2>5, CloseSane, CloseKeeps
      <3> QED
        BY <2>5, <3>1, <3>2 DEF Fin2, SK_CLOSED, SK_FIN_WAIT_2
    <2>7. CASE n < RETRANSMIT_NUM_MAX
      <3>1. DoRetransmit(w, e) = Reply(x, e, w.s.flags)
        BY <1>3, <2>3, <2>7, Numbers DEF DoRetransmit, x, n
      <3>2. w.s.flags \in Flags
        BY <1>1 DEF Sockets
      <3>3. /\ Reply(x, e, w.s.flags).s.state = w.s.state
            /\ Reply(x, e, w.s.flags).s.keepalive = w.s.keepalive
        BY <2>5, <3>2, ReplyFacts DEF Replied
      <3> QED
        BY <2>1, <3>1, <3>3 DEF Fin2
    <2> QED
      BY <2>3, <2>6, <2>7, Numbers
  <1> QED
    BY <1>2, <1>3

(* ... so that it leaves a server socket as fit as it was.                 *)
LEMMA DoRetransmitFit ==
  ASSUME cfg \in Configs, NEW w, Fit(w), w.s.state # SK_CLOSED, NEW e \in Ends
  PROVE  Fit(DoRetransmit(w, e))
  <1>1. Sane(DoRetransmit(w, e)) /\ Sane(w)
    BY DoRetransmitSane DEF Fit
  <1>2. SendWindow = 0 => ~Windowed(e)
    BY CfgFacts DEF Windowed
  <1> QED
    BY <1>1, <1>2, DoRetransmitFin2 DEF Fit

(* The burst of tcp_reply_more: within the mbufs there are.                *)
LEMMA BurstFacts ==
  ASSUME cfg \in Configs, NEW w, Typed(w)
  PROVE  LET r == Burst(w) IN
         /\ Typed(r)
         /\ r.s.state = w.s.state /\ r.s.retrans = w.s.retrans
  <1> DEFINE s == w.s
             At(k) == Plus(s.snd_nxt, k * RspLen)
             tried == {k \in 0 .. s.snd_window - 1 :
                         /\ SeqLt(At(k), Plus(s.snd_una, SendWindow * RspLen))
                         /\ SeqLt(At(k), s.snd_max)}
             sent == {k \in tried : k < w.bufs}
             n == Cardinality(sent)
             fl == IF tried # {} THEN MORE ELSE s.flags
             qt == IF sent # {} THEN 0 ELSE s.quiet
             segs == {Segment([s EXCEPT !.snd_una = At(k)], "s", MORE) : k \in sent}
  <1>1. s \in Sockets /\ w.bufs \in Nat /\ w.out \in SUBSET Packets
    BY DEF Typed
  <1>2. s.snd_window \in Nat /\ s.snd_nxt \in Nat /\ s.flags \in Flags /\ s.quiet \in 0 .. QuietMax
    BY <1>1, Numbers DEF Sockets, Seq
  <1>3. sent \in SUBSET (0 .. w.bufs - 1)
    BY <1>1, <1>2
  <1>4. IsFiniteSet(0 .. w.bufs - 1) /\ Cardinality(0 .. w.bufs - 1) = w.bufs
    <2>1. w.bufs - 1 \in Int /\ 0 \in Int
      BY <1>1
    <2>2. /\ IsFiniteSet(0 .. w.bufs - 1)
          /\ Cardinality(0 .. w.bufs - 1) = IF 0 > w.bufs - 1 THEN 0 ELSE (w.bufs - 1) - 0 + 1
      BY <2>1, FS_Interval, Zenon
    <2> QED
      BY <1>1, <2>2
  <1>5. \A k \in sent : k \in Nat
    BY <1>1, <1>3
  <1> HIDE DEF sent
  <1>6. IsFiniteSet(sent) /\ n <= Cardinality(0 .. w.bufs - 1)
    BY <1>3, <1>4, FS_Subset, Zenon
  <1>7. n \in Nat
    BY <1>6, FS_CardinalityType, Zenon
  <1> HIDE DEF n
  <1>8. ASSUME NEW k \in Nat PROVE At(k) \in Seq
    <2>1. k * RspLen \in Nat
      BY Numbers
    <2> QED
      BY <1>2, <2>1, PlusType
  <1>9. ASSUME NEW k \in sent PROVE Segment([s EXCEPT !.snd_una = At(k)], "s", MORE) \in Packets
    <2>1. At(k) \in Seq
      BY <1>5, <1>8
    <2> HIDE DEF At
    <2>2. [s EXCEPT !.snd_una = At(k)] \in Sockets
      BY <1>1, <2>1 DEF Sockets
    <2> QED
      BY <2>2, SegmentType, FlagSets DEF Ends
  <1>10. segs \in SUBSET Packets
    BY <1>9
  <1>11. fl \in Flags /\ qt \in 0 .. QuietMax /\ At(n) \in Seq
    <2>1. fl \in Flags
      BY <1>2, FlagSets
    <2>2. qt \in 0 .. QuietMax
      BY <1>2, Numbers DEF QuietMax
    <2>3. At(n) \in Seq
      BY <1>7, <1>8
    <2> QED
      BY <2>1, <2>2, <2>3
  <1> DEFINE nx == At(n)
             t == [s EXCEPT !.snd_nxt = nx, !.flags = fl, !.quiet = qt]
  <1>12. Burst(w) = [s |-> t, bufs |-> w.bufs - n, out |-> w.out \cup segs]
    BY DEF Burst, sent, n
  <1> HIDE DEF segs, fl, qt, nx
  <1>13. t \in Sockets /\ t.state = s.state /\ t.retrans = s.retrans
    <2>1. nx \in Seq
      BY <1>11 DEF nx
    <2> QED
      BY <1>1, <1>11, <2>1 DEF Sockets
  <1> HIDE DEF t
  <1>14. w.bufs - n \in Nat
    BY <1>1, <1>4, <1>6, <1>7
  <1> QED
    BY <1>1, <1>10, <1>12, <1>13, <1>14 DEF Typed

(* tcp_reply_more on an established connection.                            *)
LEMMA ReplyMoreFacts ==
  ASSUME cfg \in Configs, NEW w, Sane(w), w.s.state = SK_ESTABLISHED
  PROVE  Sane(ReplyMore(w)) /\ ReplyMore(w).s.state # SK_CLOSED
  <1> DEFINE x == Burst(w)
  <1>1. Typed(x) /\ x.s.state = w.s.state /\ x.s.retrans = w.s.retrans
    BY BurstFacts DEF Sane
  <1>2. SK_ESTABLISHED # SK_CLOSED /\ SK_FIN_WAIT_1 # SK_CLOSED
    BY DEF SK_ESTABLISHED, SK_CLOSED, SK_FIN_WAIT_1
  <1>3. ReplyMore(w) =
            CASE x.s.snd_una # x.s.snd_max -> x
              [] x.s.snd_una = x.s.snd_max /\ x.s.keepalive ->
                    Set(x, AddTimer(x.s, "timeout", 0))
              [] x.s.snd_una = x.s.snd_max /\ ~x.s.keepalive ->
                    Reply(Set(x, [x.s EXCEPT !.state = SK_FIN_WAIT_1]), "s", FIN \cup ACK)
    BY DEF ReplyMore
  <1> HIDE DEF x
  <1>4. x.s \in Sockets /\ Sane(x) /\ w.s.retrans < RETRANSMIT_NUM_MAX
    BY <1>1, <1>2 DEF Sane, Linked, Typed
  <1>5. CASE x.s.snd_una # x.s.snd_max
    BY <1>1, <1>2, <1>3, <1>4, <1>5
  <1>6. CASE x.s.snd_una = x.s.snd_max /\ x.s.keepalive
    <2> DEFINE t == AddTimer(x.s, "timeout", 0)
    <2>1. t \in Sockets /\ t.state = x.s.state /\ t.retrans = x.s.retrans
      <3>1. 0 \in 0 .. AgeMax
        BY Numbers
      <3> QED
        BY <1>4, <3>1 DEF Sockets, AddTimer
    <2>2. Linked(t)
      BY <1>1, <1>2, <1>4, <2>1 DEF Linked
    <2>3. ReplyMore(w) = Set(x, t)
      BY <1>3, <1>6
    <2> HIDE DEF t
    <2> QED
      BY <1>1, <1>2, <2>1, <2>2, <2>3, SetSane
  <1>7. CASE x.s.snd_una = x.s.snd_max /\ ~x.s.keepalive
    <2> DEFINE t == [x.s EXCEPT !.state = SK_FIN_WAIT_1]
    <2>1. t \in Sockets /\ t.state = SK_FIN_WAIT_1 /\ t.retrans = x.s.retrans
      BY <1>4 DEF Sockets, States
    <2>2. Linked(t)
      BY <1>1, <1>2, <1>4, <2>1 DEF Linked
    <2>3. ReplyMore(w) = Reply(Set(x, t), "s", FIN \cup ACK)
      BY <1>3, <1>7
    <2> HIDE DEF t
    <2>4. Sane(Set(x, t)) /\ Set(x, t).s = t
      BY <1>1, <2>1, <2>2, SetSane
    <2>5. FIN \cup ACK \in Flags /\ "s" \in Ends
      BY FlagSets DEF Ends
    <2> QED
      BY <1>2, <2>1, <2>3, <2>4, <2>5, ReplySane
  <1>8. x.s.keepalive \in BOOLEAN
    BY <1>4 DEF Sockets
  <1> QED
    BY <1>5, <1>6, <1>7, <1>8

(* The send_window part of tcp_server_process_data.                        *)
LEMMA ServerSendMoreSane ==
  ASSUME cfg \in Configs, NEW w, Sane(w), w.s.state = SK_ESTABLISHED, NEW p \in Packets
  PROVE  Sane(ServerSendMore(w, p))
  <1> DEFINE s == w.s
             mx == Plus(s.snd_nxt, cfg.segs * RspLen)
             asked == [s EXCEPT !.id = p.id, !.got = @ + 1, !.snd_max = mx]
  <1>1. Typed(w) /\ s \in Sockets
    BY DEF Sane, Typed
  <1>2. s.snd_nxt \in Nat /\ s.got + 1 \in Nat /\ p.id \in Nat /\ p.len \in Nat
    BY <1>1 DEF Sockets, Seq, Packets
  <1>3. mx \in Seq
    <2>1. cfg.segs * RspLen \in Nat
      BY CfgFacts, Numbers
    <2> QED
      BY <1>2, <2>1, PlusType
  <1> HIDE DEF mx
  <1>4. asked \in Sockets /\ asked.state = s.state /\ asked.retrans = s.retrans /\ asked.reqnum = s.reqnum
    BY <1>1, <1>2, <1>3 DEF Sockets
  <1>5. SK_ESTABLISHED # SK_CLOSED
    BY DEF SK_ESTABLISHED, SK_CLOSED
  <1> HIDE DEF asked
  <1>6. Linked(asked)
    BY <1>4, <1>5 DEF Linked, Sane
  <1>7. Sane(Set(w, asked)) /\ Set(w, asked).s = asked
    BY <1>1, <1>4, <1>6, SetSane
  <1>8. ASSUME NEW y, Sane(y), y.s.state # SK_CLOSED
        PROVE  Sane(Set(y, StartRetransmit(y.s)))
    <2>1. y.s \in Sockets /\ Typed(y)
      BY <1>8 DEF Sane, Typed
    <2>2. StartRetransmit(y.s) \in Sockets /\ Linked(StartRetransmit(y.s))
      BY <1>8, <2>1, StartRetransmitFacts DEF Sane, Linked
    <2> QED
      BY <2>1, <2>2, SetSane
  <1>9. CASE p.len = 0
    <2>1. ServerSendMore(w, p) = ReplyMore(w)
      BY <1>9 DEF ServerSendMore
    <2> QED
      BY <2>1, ReplyMoreFacts
  <1>10. CASE p.len > 0 /\ s.reqnum # 0
    <2> DEFINE y == ReplyMore(Set(w, asked))
    <2>1. Sane(y) /\ y.s.state # SK_CLOSED
      BY <1>4, <1>7, ReplyMoreFacts
    <2>2. ServerSendMore(w, p) = Set(y, StartRetransmit(y.s))
      BY <1>2, <1>10 DEF ServerSendMore, asked, mx
    <2> HIDE DEF y
    <2> QED
      BY <1>8, <2>1, <2>2
  <1>11. CASE p.len > 0 /\ s.reqnum = 0
    <2> DEFINE x == Reply(Set(w, asked), "s", PUSH \cup ACK)
               t == [x.s EXCEPT !.reqnum = 1]
               y == Set(x, t)
    <2>1. PUSH \cup ACK \in Flags /\ "s" \in Ends
      BY FlagSets DEF Ends
    <2>2. Sane(x) /\ x.s.state = s.state
      BY <1>4, <1>7, <2>1, ReplySane
    <2>3. ServerSendMore(w, p) = Set(y, StartRetransmit(y.s))
      BY <1>2, <1>11 DEF ServerSendMore, asked, mx
    <2> HIDE DEF x
    <2>4. Typed(x) /\ x.s \in Sockets
      BY <2>2 DEF Sane, Typed
    <2>5. t \in Sockets /\ t.state = x.s.state /\ t.retrans = x.s.retrans
      BY <2>4 DEF Sockets
    <2> HIDE DEF t
    <2>6. Linked(t)
      BY <1>5, <2>2, <2>5 DEF Linked, Sane
    <2>7. Sane(y) /\ y.s.state # SK_CLOSED
      BY <1>5, <2>2, <2>4, <2>5, <2>6, SetSane
    <2> HIDE DEF y
    <2> QED
      BY <1>8, <2>3, <2>7
  <1> QED
    BY <1>2, <1>9, <1>10, <1>11

(* An open server socket is in the queue that will resend or close it, and *)
(* in the retransmit queue only with something to resend.                  *)
Armed(s) ==
    s.state # SK_CLOSED =>
        /\ s.timer \in {"retransmit", "timeout"}
        /\ s.timer = "retransmit" => s.snd_nxt # s.snd_una

(* Whatever a server without send window replies, it then has a timer.     *)
LEMMA ReplyArmed ==
  ASSUME cfg \in Configs, NEW w, Sane(w), NEW f \in Flags, SendWindow = 0, w.bufs > 0
  PROVE  Armed(Reply(w, "s", f).s)
  <1> DEFINE r == Reply(w, "s", f)
  <1>1. Replied(w, "s", f, r)
    BY ReplyFacts DEF Sane, Ends
  <1>2. ~Windowed("s")
    BY DEF Windowed
  <1>3. SegLen("s", f) \in Nat /\ SegLen("s", f) < SeqMod /\ (MustBeAcked(f) <=> SegLen("s", f) # 0)
    BY LengthType DEF Ends
  <1>4. w.s.snd_nxt \in Seq
    BY DEF Sane, Typed, Sockets
  <1>5. MustBeAcked(f) => Plus(w.s.snd_nxt, SegLen("s", f)) # w.s.snd_nxt
    BY <1>3, <1>4, PlusMoves
  <1> HIDE DEF r
  <1>6. MustBeAcked(f) => r.s.snd_nxt # r.s.snd_una
    BY <1>1, <1>5 DEF Replied
  <1>7. CASE MustBeAcked(f)
    BY <1>1, <1>2, <1>6, <1>7 DEF Replied, Armed, r
  <1>8. CASE ~MustBeAcked(f)
    BY <1>1, <1>2, <1>8 DEF Replied, Armed, r
  <1> QED
    BY <1>7, <1>8 DEF r

(* A server that retransmits arms a timer again or closes.                 *)
LEMMA DoRetransmitArmed ==
  ASSUME cfg \in Configs, NEW w, Sane(w), w.s.state # SK_CLOSED, SendWindow = 0, w.bufs > 0,
         w.s.snd_nxt = w.s.snd_una => Armed(w.s)
  PROVE  Armed(DoRetransmit(w, "s").s)
  <1>1. Typed(w) /\ w.s \in Sockets /\ ~Windowed("s")
    BY DEF Sane, Typed, Windowed
  <1>2. CASE w.s.snd_nxt = w.s.snd_una
    <2>1. DoRetransmit(w, "s").s = [w.s EXCEPT !.retrans = 0]
      BY <1>1, <1>2 DEF DoRetransmit, Set, Typed
    <2> QED
      BY <1>1, <1>2, <2>1 DEF Armed, Sockets
  <1>3. CASE w.s.snd_nxt # w.s.snd_una
    <2> DEFINE n == w.s.retrans + 1
               x == Set(w, [w.s EXCEPT !.retrans = n])
    <2>1. w.s.retrans < RETRANSMIT_NUM_MAX /\ w.s.retrans \in 0 .. RETRANSMIT_NUM_MAX
      BY <1>1 DEF Sane, Linked, Sockets
    <2>2. n \in 0 .. RETRANSMIT_NUM_MAX
      BY <2>1, Numbers
    <2> HIDE DEF n
    <2>3. /\ [w.s EXCEPT !.retrans = n] \in Sockets
          /\ [w.s EXCEPT !.retrans = n].state = w.s.state
          /\ [w.s EXCEPT !.retrans = n].retrans = n
      BY <1>1, <2>2 DEF Sockets
    <2>4. Typed(x) /\ x.s.state = w.s.state /\ x.s.retrans = n /\ x.bufs = w.bufs
      BY <1>1, <2>3, SetType
    <2> HIDE DEF x
    <2>5. CASE n >= RETRANSMIT_NUM_MAX
      <3>1. DoRetransmit(w, "s") = Close(x, "error")
        BY <1>3, <2>2, <2>5, Numbers DEF DoRetransmit, GiveUp, x, n
      <3>2. Close(x, "error").s.state = SK_CLOSED
        BY <2>4, CloseSane
      <3> QED
        BY <3>1, <3>2 DEF Armed
    <2>6. CASE n < RETRANSMIT_NUM_MAX
      <3>1. DoRetransmit(w, "s") = Reply(x, "s", w.s.flags)
        BY <1>1, <1>3, <2>2, <2>6, Numbers DEF DoRetransmit, x, n
      <3>2. w.s.flags \in Flags
        BY <1>1 DEF Sockets
      <3>3. Sane(x)
        BY <2>4, <2>6 DEF Sane, Linked
      <3> QED
        BY <2>4, <3>1, <3>2, <3>3, ReplyArmed
    <2> QED
      BY <2>2, <2>5, <2>6, Numbers
  <1> QED
    BY <1>2, <1>3

(* With nothing to answer the idle timeout starts.                         *)
LEMMA NothingToAnswerFacts ==
  ASSUME NEW w, Sane(w)
  PROVE  LET r == NothingToAnswer(w) IN
         /\ Sane(r) /\ Armed(r.s)
         /\ r.s.state = w.s.state /\ r.s.snd_nxt = w.s.snd_nxt /\ r.s.snd_una = w.s.snd_una
  <1>1. Typed(w) /\ w.s \in Sockets
    BY DEF Sane, Typed
  <1>2. CASE w.s.state = SK_CLOSED
    BY <1>2 DEF NothingToAnswer, Armed
  <1>3. CASE w.s.state # SK_CLOSED
    <2> DEFINE t == AddTimer(w.s, "timeout", 0)
    <2>1. 0 \in 0 .. AgeMax
      BY Numbers
    <2>2. /\ t \in Sockets /\ t.state = w.s.state /\ t.retrans = w.s.retrans
          /\ t.snd_nxt = w.s.snd_nxt /\ t.snd_una = w.s.snd_una /\ t.timer = "timeout"
      BY <1>1, <2>1 DEF AddTimer, Sockets
    <2>3. Linked(t) /\ Armed(t)
      BY <1>3, <2>2 DEF Linked, Sane, Armed
    <2>4. NothingToAnswer(w) = Set(w, t)
      BY <1>3 DEF NothingToAnswer
    <2> HIDE DEF t
    <2>5. Sane(Set(w, t)) /\ Set(w, t).s = t
      BY <1>1, <2>2, <2>3, SetSane
    <2> QED
      BY <2>2, <2>3, <2>4, <2>5
  <1> QED
    BY <1>2, <1>3

(* tcp_server_process_data: types, FIN_WAIT_2, and a timer on every way    *)
(* out.                                                                    *)
LEMMA ServerProcessDataFacts ==
  ASSUME cfg \in Configs, NEW w, Fit(w), NEW p \in Packets
  PROVE  /\ Fit(ServerProcessData(w, p))
         /\ SendWindow = 0 /\ w.bufs > 0 /\ Armed(w.s) => Armed(ServerProcessData(w, p).s)
  <1> DEFINE r == ServerProcessData(w, p)
             c == CheckSequence(w, "s", p)
             st == IF c.w.s.state < SK_ESTABLISHED THEN SK_ESTABLISHED ELSE c.w.s.state
             x == Set(c.w, [c.w.s EXCEPT !.state = st])
  <1>1. CheckedSeq(w, "s", c)
    BY CheckSequenceFacts DEF Fit, Ends
  <1>2. Sane(w) /\ "s" \in Ends /\ p.flags \in Flags
    BY DEF Fit, Ends, Packets
  <1>3. SendWindow = 0 => ~Windowed("s")
    BY CfgFacts DEF Windowed
  <1>4. CASE ~c.ok
    <2>1. r = c.w
      BY <1>4 DEF ServerProcessData
    <2> HIDE DEF c
    <2>2. Sane(c.w)
      BY <1>1 DEF CheckedSeq
    <2>3. CASE SendWindow = 0
      <3>1. \/ c.w = w
            \/ w.s.state = SK_CLOSED /\ c.w.s = [w.s EXCEPT !.retrans = 0]
            \/ w.s.state # SK_CLOSED /\ c.w = DoRetransmit(w, "s")
        BY <1>1, <1>3, <1>4, <2>3 DEF CheckedSeq
      <3>2. CASE c.w = w
        BY <2>1, <3>2
      <3>3. CASE w.s.state = SK_CLOSED /\ c.w.s = [w.s EXCEPT !.retrans = 0]
        <4>1. c.w.s.state = SK_CLOSED
          BY <1>2, <3>3 DEF Sane, Typed, Sockets
        <4> QED
          BY <2>1, <2>2, <4>1 DEF Fit, Fin2, Armed, SK_CLOSED, SK_FIN_WAIT_2
      <3>4. CASE w.s.state # SK_CLOSED /\ c.w = DoRetransmit(w, "s")
        BY <1>2, <2>1, <2>3, <3>4, DoRetransmitFit, DoRetransmitArmed
      <3> QED
        BY <3>1, <3>2, <3>3, <3>4
    <2>4. CASE SendWindow # 0
      BY <2>1, <2>2, <2>4 DEF Fit
    <2> QED
      BY <2>3, <2>4
  <1>5. CASE c.ok
    <2>1. Sane(c.w) /\ c.w.s.state # SK_CLOSED /\ c.w.bufs = w.bufs
      BY <1>1, <1>5 DEF CheckedSeq
    <2>2. SendWindow = 0 => \/ c.w.s.snd_nxt = c.w.s.snd_una
                            \/ c.w.s.state = SK_CLOSING
      BY <1>1, <1>3, <1>5 DEF CheckedSeq
    <2> DEFINE q == Set(x, [x.s EXCEPT !.id = p.id, !.got = @ + 1])
               fin == IF x.s.keepalive THEN {} ELSE FIN
               f == IF x.s.state = SK_ESTABLISHED /\ p.len > 0
                    THEN MaybeFin(q, p.flags, PUSH \cup ACK \cup fin) ELSE MaybeFin(x, p.flags, {})
    <2>3. r = IF x.s.state = SK_ESTABLISHED /\ Windowed("s") /\ "FIN" \notin p.flags
              THEN ServerSendMore(x, p)
              ELSE IF f.tx # {} THEN Reply(f.w, "s", f.tx) ELSE NothingToAnswer(f.w)
      BY <1>5 DEF ServerProcessData, ServerTakeRequest
    <2> HIDE DEF c
    <2>4. c.w.s \in Sockets /\ Typed(c.w) /\ c.w.s.retrans < RETRANSMIT_NUM_MAX
      BY <2>1 DEF Sane, Typed, Linked
    <2>5. st \in States \ {SK_CLOSED} /\ (st \in {SK_FIN_WAIT_1, SK_FIN_WAIT_2} => c.w.s.state = st)
      BY <2>1, <2>4 DEF Sockets, States, SK_CLOSED, SK_SYN_SENT, SK_SYN_RECEIVED, SK_ESTABLISHED,
         SK_FIN_WAIT_1, SK_FIN_WAIT_2
    <2> HIDE DEF st
    <2>6. /\ [c.w.s EXCEPT !.state = st] \in Sockets
          /\ [c.w.s EXCEPT !.state = st].state = st
          /\ [c.w.s EXCEPT !.state = st].retrans = c.w.s.retrans
          /\ [c.w.s EXCEPT !.state = st].snd_nxt = c.w.s.snd_nxt
          /\ [c.w.s EXCEPT !.state = st].snd_una = c.w.s.snd_una
      BY <2>4, <2>5 DEF Sockets
    <2>7. /\ Sane(x) /\ x.s.state = st /\ x.bufs = w.bufs
          /\ x.s.snd_nxt = c.w.s.snd_nxt /\ x.s.snd_una = c.w.s.snd_una
      <3>1. Linked([c.w.s EXCEPT !.state = st])
        BY <2>4, <2>5, <2>6 DEF Linked
      <3> QED
        BY <2>1, <2>4, <2>6, <3>1, SetSane
    <2> HIDE DEF x
    <2>8. CASE x.s.state = SK_ESTABLISHED /\ Windowed("s") /\ "FIN" \notin p.flags
      <3>1. Sane(r) /\ SendWindow # 0
        BY <1>3, <2>3, <2>7, <2>8, ServerSendMoreSane
      <3> QED
        BY <3>1 DEF Fit
    <2>9. CASE ~(x.s.state = SK_ESTABLISHED /\ Windowed("s") /\ "FIN" \notin p.flags)
      <3> DEFINE tx == IF x.s.state = SK_ESTABLISHED /\ p.len > 0 THEN PUSH \cup ACK \cup fin ELSE {}
                 y == IF x.s.state = SK_ESTABLISHED /\ p.len > 0 THEN q ELSE x
      <3>1. tx \in Flags
        BY FlagSets
      <3>2. /\ Sane(y) /\ y.s.state = x.s.state /\ y.bufs = x.bufs
            /\ y.s.snd_nxt = x.s.snd_nxt /\ y.s.snd_una = x.s.snd_una
        <4> DEFINE t == [x.s EXCEPT !.id = p.id, !.got = @ + 1]
        <4>1. x.s \in Sockets /\ Typed(x)
          BY <2>7 DEF Sane, Typed
        <4>2. /\ t \in Sockets /\ t.state = x.s.state /\ t.retrans = x.s.retrans
              /\ t.timer = x.s.timer /\ t.snd_nxt = x.s.snd_nxt /\ t.snd_una = x.s.snd_una
          <5>1. p.id \in Nat /\ x.s.got + 1 \in Nat
            BY <4>1 DEF Sockets, Packets
          <5> QED
            BY <4>1, <5>1 DEF Sockets
        <4>3. Linked(t)
          BY <2>7, <4>2 DEF Sane, Linked
        <4> HIDE DEF t
        <4>4. Sane(Set(x, t)) /\ Set(x, t).s = t /\ Set(x, t).bufs = x.bufs
          BY <4>1, <4>2, <4>3, SetSane
        <4> QED
          BY <2>7, <4>2, <4>4 DEF t
      <3>3. f = MaybeFin(y, p.flags, tx)
        OBVIOUS
      <3> HIDE DEF f
      <3>4. SendWindow = 0 /\ x.s.state \in {SK_FIN_WAIT_1, SK_FIN_WAIT_2} => x.s.snd_nxt = x.s.snd_una /\ tx = {}
        BY <2>2, <2>5, <2>7 DEF SK_FIN_WAIT_1, SK_FIN_WAIT_2, SK_CLOSING, SK_ESTABLISHED
      <3> HIDE DEF y, tx
      <3>5. Finned(y, tx, f)
        BY <1>2, <3>1, <3>2, <3>3, MaybeFinFacts
      <3>6. Sane(f.w) /\ f.tx \in Flags /\ f.w.bufs = w.bufs
        BY <2>7, <3>2, <3>5 DEF Finned
      <3>7. SendWindow = 0 => /\ Fin2(f.w.s)
                              /\ f.tx # {} => f.w.s.state # SK_FIN_WAIT_2
        BY <3>2, <3>4, <3>5 DEF Finned, Fin2
      <3>8. CASE f.tx # {}
        <4>1. r = Reply(f.w, "s", f.tx)
          BY <2>3, <2>9, <3>8
        <4>2. Sane(r) /\ r.s.state = f.w.s.state
          BY <1>2, <3>6, <4>1, ReplySane
        <4>3. Fit(r)
          BY <3>7, <3>8, <4>2 DEF Fit, Fin2
        <4>4. SendWindow = 0 /\ w.bufs > 0 => Armed(r.s)
          BY <3>6, <4>1, ReplyArmed
        <4> QED
          BY <4>3, <4>4
      <3>9. CASE f.tx = {}
        <4>1. r = NothingToAnswer(f.w)
          BY <2>3, <2>9, <3>9
        <4>2. Sane(r) /\ Armed(r.s) /\ (SendWindow = 0 => Fin2(r.s))
          BY <3>6, <3>7, <4>1, NothingToAnswerFacts DEF Fin2
        <4> QED
          BY <4>2 DEF Fit
      <3> QED
        BY <3>8, <3>9
    <2> QED
      BY <2>8, <2>9
  <1> QED
    BY <1>4, <1>5

-----------------------------------------------------------------------------
(* A client that goes on at once and not by timer ends its connection from *)
(* within tcp_client_process_data, and is then in FIN_WAIT_2 with its FIN  *)
(* outstanding.  Every other configuration is calm.                        *)
Calm == Http \/ Interval > 0 \/ ~Keepalive["c"]

(* The client's socket as its handlers leave it; keepalive is never set    *)
(* again once the last request is out.                                     *)
ClientFit(w) ==
    /\ Sane(w)
    /\ w.s.keepalive => Keepalive["c"]
    /\ Calm => Fin2(w.s)

(* tcp_process_fin leaves keepalive and the retransmissions alone.         *)
LEMMA MaybeFinKeeps ==
  ASSUME NEW w, Typed(w), NEW rx, NEW tx
  PROVE  /\ MaybeFin(w, rx, tx).w.s.keepalive = w.s.keepalive
         /\ MaybeFin(w, rx, tx).w.s.retrans = w.s.retrans
  <1>1. w.s \in Sockets
    BY DEF Typed
  <1>2. ASSUME NEW st
        PROVE  /\ Set(w, [w.s EXCEPT !.state = st]).s.keepalive = w.s.keepalive
               /\ Set(w, [w.s EXCEPT !.state = st]).s.retrans = w.s.retrans
    BY <1>1 DEF Set, Typed, Sockets
  <1>3. /\ Close(w, "fin").s.keepalive = w.s.keepalive
        /\ Close(w, "fin").s.retrans = w.s.retrans
    BY CloseKeeps
  <1> DEFINE f == MaybeFin(w, rx, tx)
  <1>4. \/ f.w = w \/ f.w = Close(w, "fin")
        \/ f.w = Set(w, [w.s EXCEPT !.state = SK_LAST_ACK])
        \/ f.w = Set(w, [w.s EXCEPT !.state = SK_FIN_WAIT_1])
        \/ f.w = Set(w, [w.s EXCEPT !.state = SK_FIN_WAIT_2])
    BY DEF MaybeFin, ProcessFin, SK_LAST_ACK, SK_FIN_WAIT_1, SK_FIN_WAIT_2, SK_ESTABLISHED, SK_CLOSING
  <1> HIDE DEF f
  <1>5. f.w.s.keepalive = w.s.keepalive /\ f.w.s.retrans = w.s.retrans
    BY <1>2, <1>3, <1>4
  <1> QED
    BY <1>5 DEF f

(* tcp_reply outside FIN_WAIT_2.                                           *)
LEMMA ClientReply ==
  ASSUME cfg \in Configs, NEW w, Sane(w), w.s.keepalive => Keepalive["c"],
         Calm => w.s.state # SK_FIN_WAIT_2, NEW f \in Flags
  PROVE  /\ ClientFit(Reply(w, "c", f)) /\ Reply(w, "c", f).s.state = w.s.state
         /\ Reply(w, "c", f).s.keepalive = w.s.keepalive
         /\ Reply(w, "c", f).s.reqnum = w.s.reqnum
  <1>1. "c" \in Ends
    BY DEF Ends
  <1> QED
    BY <1>1, ReplySane DEF ClientFit, Fin2

(* socket_close on the client.                                             *)
LEMMA ClientClose ==
  ASSUME NEW w, Sane(w), w.s.keepalive => Keepalive["c"],
         NEW why \in {"fin", "fast", "error", "rst", "flood"}
  PROVE  ClientFit(Close(w, why))
  <1>1. Typed(w) /\ (w.s.state = SK_CLOSED => w.s.timer = "none")
    BY DEF Sane, Linked
  <1>2. Sane(Close(w, why)) /\ Close(w, why).s.state = SK_CLOSED
    BY <1>1, CloseSane
  <1>3. Close(w, why).s.keepalive = w.s.keepalive
    BY <1>1, CloseKeeps
  <1> QED
    BY <1>2, <1>3 DEF ClientFit, Fin2, SK_CLOSED, SK_FIN_WAIT_2

(* A socket value that changes neither the state nor what is outstanding.  *)
LEMMA ClientSet ==
  ASSUME NEW w, ClientFit(w), NEW t \in Sockets,
         t.state = w.s.state, t.retrans = w.s.retrans, t.timer = w.s.timer \/ t.state # SK_CLOSED,
         (t.snd_nxt = t.snd_una) \/ (t.snd_nxt = w.s.snd_nxt /\ t.snd_una = w.s.snd_una),
         t.keepalive => w.s.keepalive
  PROVE  ClientFit(Set(w, t)) /\ Set(w, t).s = t
  <1>1. Typed(w) /\ Linked(t)
    BY DEF ClientFit, Sane, Linked
  <1>2. Sane(Set(w, t)) /\ Set(w, t).s = t
    BY <1>1, SetSane
  <1>3. Calm => Fin2(t)
    BY DEF ClientFit, Fin2
  <1> QED
    BY <1>2, <1>3 DEF ClientFit

(* tcp_client_process_syn_ack.                                             *)
LEMMA ClientProcessSynAckFit ==
  ASSUME cfg \in Configs, NEW w, ClientFit(w), NEW p \in Packets
  PROVE  ClientFit(ClientProcessSynAck(w, p))
  <1> DEFINE rcv == Plus(p.seq, 1)
             t == [w.s EXCEPT !.rcv_nxt = rcv, !.snd_una = p.ack, !.state = SK_ESTABLISHED]
  <1>1. Typed(w) /\ w.s \in Sockets /\ ACK \cup PUSH \in Flags /\ ACK \in Flags /\ Sane(w)
    BY FlagSets DEF Sane, Typed, ClientFit
  <1>2. rcv \in Seq /\ p.ack \in Seq
    <2>1. p.ack \in Seq /\ p.seq \in Nat
      BY DEF Packets, Seq
    <2> QED
      BY <2>1, PlusType
  <1>3. CASE w.s.state = SK_SYN_SENT /\ p.ack = w.s.snd_nxt
    <2>1. ClientProcessSynAck(w, p) = Reply(Set(w, t), "c", ACK \cup PUSH)
      BY <1>3 DEF ClientProcessSynAck, SK_SYN_SENT, SK_ESTABLISHED
    <2> HIDE DEF rcv
    <2>2. /\ t \in Sockets /\ t.state = SK_ESTABLISHED /\ t.retrans = w.s.retrans
          /\ t.keepalive = w.s.keepalive
      BY <1>1, <1>2 DEF Sockets, States
    <2>3. Linked(t)
      BY <1>3, <2>2 DEF Sane, Linked, SK_SYN_SENT, SK_CLOSED, SK_ESTABLISHED, ClientFit
    <2> HIDE DEF t
    <2>4. Sane(Set(w, t)) /\ Set(w, t).s = t
      BY <1>1, <2>2, <2>3, SetSane
    <2>5. SK_ESTABLISHED # SK_FIN_WAIT_2
      BY DEF SK_ESTABLISHED, SK_FIN_WAIT_2
    <2>6. ClientFit(Reply(Set(w, t), "c", ACK \cup PUSH))
      BY <1>1, <2>2, <2>4, <2>5, ClientReply DEF ClientFit
    <2> QED
      BY <2>1, <2>6
  <1>4. CASE w.s.state = SK_ESTABLISHED
    <2>1. ClientProcessSynAck(w, p) \in {w, Reply(w, "c", ACK)}
      BY <1>4 DEF ClientProcessSynAck, SK_SYN_SENT, SK_ESTABLISHED
    <2>2. w.s.state # SK_FIN_WAIT_2
      BY <1>4 DEF SK_ESTABLISHED, SK_FIN_WAIT_2
    <2>3. ClientFit(Reply(w, "c", ACK))
      BY <1>1, <2>2, ClientReply DEF ClientFit
    <2> QED
      BY <2>1, <2>3
  <1>5. CASE ~(w.s.state = SK_SYN_SENT /\ p.ack = w.s.snd_nxt) /\ w.s.state # SK_ESTABLISHED
    BY <1>5 DEF ClientProcessSynAck
  <1> QED
    BY <1>3, <1>4, <1>5

(* tcp_send_keepalive_request goes on or ends an established connection.   *)
LEMMA SendKeepaliveRequestFacts ==
  ASSUME cfg \in Configs, NEW w, ClientFit(w), w.s.state = SK_ESTABLISHED
  PROVE  /\ ClientFit(SendKeepaliveRequest(w))
         /\ SendKeepaliveRequest(w).s.state \in {SK_ESTABLISHED, SK_FIN_WAIT_1}
  <1>1. Typed(w) /\ w.s \in Sockets /\ ACK \cup PUSH \in Flags /\ ACK \cup FIN \in Flags /\ Sane(w)
    BY FlagSets DEF Sane, Typed, ClientFit
  <1>2. /\ SK_ESTABLISHED # SK_FIN_WAIT_2 /\ SK_FIN_WAIT_1 # SK_FIN_WAIT_2
        /\ SK_ESTABLISHED # SK_CLOSED /\ SK_FIN_WAIT_1 # SK_CLOSED
        /\ SK_FIN_WAIT_1 \in States
    BY DEF SK_ESTABLISHED, SK_FIN_WAIT_1, SK_FIN_WAIT_2, SK_CLOSED, States
  <1>3. ASSUME NEW y, ClientFit(y), y.s.state \in {SK_ESTABLISHED, SK_FIN_WAIT_1}
        PROVE  /\ ClientFit(Set(y, [y.s EXCEPT !.keepalive = FALSE]))
               /\ Set(y, [y.s EXCEPT !.keepalive = FALSE]).s.state = y.s.state
    <2> DEFINE u == [y.s EXCEPT !.keepalive = FALSE]
    <2>1. y.s \in Sockets
      BY <1>3 DEF ClientFit, Sane, Typed
    <2>2. /\ u \in Sockets /\ u.state = y.s.state /\ u.retrans = y.s.retrans /\ u.timer = y.s.timer
          /\ u.snd_nxt = y.s.snd_nxt /\ u.snd_una = y.s.snd_una /\ u.keepalive = FALSE
      BY <2>1 DEF Sockets
    <2> HIDE DEF u
    <2>3. ClientFit(Set(y, u)) /\ Set(y, u).s = u
      BY <1>3, <2>2, ClientSet
    <2> QED
      BY <2>2, <2>3 DEF u
  <1>4. CASE InDuration
    <2> DEFINE t == [w.s EXCEPT !.reqnum = @ + 1]
               y == Reply(Set(w, t), "c", ACK \cup PUSH)
    <2>1. SendKeepaliveRequest(w) = IF KeepaliveNum > 0 /\ y.s.reqnum >= KeepaliveNum
                                    THEN Set(y, [y.s EXCEPT !.keepalive = FALSE]) ELSE y
      BY <1>4 DEF SendKeepaliveRequest
    <2>2. w.s.reqnum + 1 \in Nat
      BY <1>1 DEF Sockets
    <2>3. /\ t \in Sockets /\ t.state = w.s.state /\ t.retrans = w.s.retrans
          /\ t.keepalive = w.s.keepalive
      BY <1>1, <2>2 DEF Sockets
    <2>4. Linked(t)
      BY <1>1, <1>2, <2>3 DEF Linked, Sane
    <2> HIDE DEF t
    <2>5. Sane(Set(w, t)) /\ Set(w, t).s = t
      BY <1>1, <2>3, <2>4, SetSane
    <2>6. ClientFit(y) /\ y.s.state = SK_ESTABLISHED
      BY <1>1, <1>2, <2>3, <2>5, ClientReply DEF ClientFit
    <2> HIDE DEF y
    <2> QED
      BY <1>3, <2>1, <2>6
  <1>5. CASE ~InDuration
    <2> DEFINE t == [w.s EXCEPT !.state = SK_FIN_WAIT_1]
               y == Reply(Set(w, t), "c", ACK \cup FIN)
    <2>1. SendKeepaliveRequest(w) = Set(y, [y.s EXCEPT !.keepalive = FALSE])
      BY <1>5 DEF SendKeepaliveRequest
    <2>2. /\ t \in Sockets /\ t.state = SK_FIN_WAIT_1 /\ t.retrans = w.s.retrans
          /\ t.keepalive = w.s.keepalive
      BY <1>1, <1>2 DEF Sockets
    <2>3. Linked(t)
      BY <1>1, <1>2, <2>2 DEF Linked, Sane
    <2> HIDE DEF t
    <2>4. Sane(Set(w, t)) /\ Set(w, t).s = t
      BY <1>1, <2>2, <2>3, SetSane
    <2>5. ClientFit(y) /\ y.s.state = SK_FIN_WAIT_1
      BY <1>1, <1>2, <2>2, <2>4, ClientReply DEF ClientFit
    <2> HIDE DEF y
    <2> QED
      BY <1>3, <2>1, <2>5
  <1> QED
    BY <1>4, <1>5

(* The next request waits for its timer, or goes out at once.              *)
LEMMA NextRequestFacts ==
  ASSUME cfg \in Configs, NEW w, ClientFit(w), w.s.state = SK_ESTABLISHED
  PROVE  /\ ClientFit(NextRequest(w))
         /\ NextRequest(w).s.state \in {SK_ESTABLISHED, SK_FIN_WAIT_1}
         /\ Interval > 0 => NextRequest(w).s.state = SK_ESTABLISHED
  <1>1. CASE Interval > 0
    <2> DEFINE t == StartKeepalive(w.s, w.s.age)
    <2>1. w.s \in Sockets /\ w.s.age \in 0 .. AgeMax
      BY DEF ClientFit, Sane, Typed, Sockets
    <2>2. /\ t \in Sockets /\ t.state = w.s.state /\ t.retrans = w.s.retrans /\ t.snd_nxt = w.s.snd_nxt
          /\ t.snd_una = w.s.snd_una /\ t.keepalive = w.s.keepalive
      BY <2>1, StartKeepaliveFacts
    <2>3. t.state # SK_CLOSED
      BY <2>2 DEF SK_ESTABLISHED, SK_CLOSED
    <2> HIDE DEF t
    <2>4. ClientFit(Set(w, t)) /\ Set(w, t).s = t
      BY <2>2, <2>3, ClientSet
    <2>5. NextRequest(w) = Set(w, t)
      BY <1>1 DEF NextRequest, t
    <2> QED
      BY <2>2, <2>4, <2>5
  <1>2. CASE ~(Interval > 0)
    BY <1>2, SendKeepaliveRequestFacts DEF NextRequest
  <1> QED
    BY <1>1, <1>2

(* What taking a response leaves: the connection is still established,     *)
(* unless the client has just ended it.                                    *)
TookResponse(d) ==
    /\ ClientFit(d.w) /\ d.tx \in Flags
    /\ d.w.s.state \in {SK_ESTABLISHED, SK_FIN_WAIT_1}
    /\ Calm => d.w.s.state = SK_ESTABLISHED

(* http_client_process_data.                                               *)
LEMMA HttpTakeResponseFacts ==
  ASSUME cfg \in Configs, NEW w, ClientFit(w), w.s.state = SK_ESTABLISHED, NEW rx
  PROVE  TookResponse(HttpTakeResponse(w, rx))
  <1> DEFINE s == w.s
             d == HttpTakeResponse(w, rx)
             end == s.parts + 1 = cfg.segs
             fin == "FIN" \in rx
  <1>1. s \in Sockets /\ s.age \in 0 .. AgeMax /\ s.parts + 1 \in Nat /\ s.http_ack \in BOOLEAN
        /\ s.keepalive \in BOOLEAN
    BY DEF ClientFit, Sane, Typed, Sockets
  <1>2. s.state # SK_CLOSED
    BY DEF SK_ESTABLISHED, SK_CLOSED
  <1>3. ASSUME NEW t \in Sockets, t.state = s.state, t.retrans = s.retrans, t.snd_nxt = s.snd_nxt,
               t.snd_una = s.snd_una, t.keepalive = s.keepalive, NEW g \in Flags
        PROVE  TookResponse([w |-> Set(w, t), tx |-> g])
    <2>1. ClientFit(Set(w, t)) /\ Set(w, t).s = t
      BY <1>2, <1>3, ClientSet
    <2> QED
      BY <1>3, <2>1 DEF TookResponse
  <1>4. CASE ~end
    <2> DEFINE ha == s.http_ack \/ ~fin
               t == [s EXCEPT !.parts = @ + 1, !.http_ack = ha]
               g == IF fin THEN ACK ELSE {}
    <2>1. d = [w |-> Set(w, t), tx |-> g]
      BY <1>4 DEF HttpTakeResponse
    <2>2. ha \in BOOLEAN /\ g \in Flags
      BY <1>1, FlagSets
    <2> HIDE DEF ha, g
    <2>3. /\ t \in Sockets /\ t.state = s.state /\ t.retrans = s.retrans /\ t.snd_nxt = s.snd_nxt
          /\ t.snd_una = s.snd_una /\ t.keepalive = s.keepalive
      BY <1>1, <2>2 DEF Sockets
    <2> HIDE DEF t, d
    <2>4. TookResponse(d)
      BY <1>3, <2>1, <2>2, <2>3
    <2> QED
      BY <2>4 DEF d
  <1>5. CASE end /\ s.keepalive /\ ~fin
    <2> DEFINE u == StartKeepalive(s, AccurateAge(s.age))
               ha == s.parts >= 2 \/ AckAtOnce
               t == [u EXCEPT !.http_ack = ha, !.parts = 0]
    <2>1. d = [w |-> Set(w, t), tx |-> {}]
      BY <1>5 DEF HttpTakeResponse
    <2>2. AccurateAge(s.age) \in 0 .. AgeMax
      BY <1>1, AccurateAgeType
    <2>3. /\ u \in Sockets /\ u.state = s.state /\ u.retrans = s.retrans /\ u.snd_nxt = s.snd_nxt
          /\ u.snd_una = s.snd_una /\ u.keepalive = s.keepalive
      BY <1>1, <2>2, StartKeepaliveFacts
    <2>4. ha \in BOOLEAN /\ {} \in Flags
      BY FlagSets DEF AckAtOnce
    <2> HIDE DEF u, ha
    <2>5. /\ t \in Sockets /\ t.state = s.state /\ t.retrans = s.retrans /\ t.snd_nxt = s.snd_nxt
          /\ t.snd_una = s.snd_una /\ t.keepalive = s.keepalive
      BY <2>3, <2>4 DEF Sockets
    <2> HIDE DEF t, d
    <2>6. TookResponse(d)
      BY <1>3, <2>1, <2>4, <2>5
    <2> QED
      BY <2>6 DEF d
  <1>6. CASE end /\ (~s.keepalive \/ fin)
    <2> DEFINE t == [s EXCEPT !.http_ack = FALSE, !.parts = 0]
    <2>1. d = [w |-> Set(w, t), tx |-> ACK \cup FIN]
      BY <1>6 DEF HttpTakeResponse
    <2>2. ACK \cup FIN \in Flags
      BY FlagSets
    <2>3. /\ t \in Sockets /\ t.state = s.state /\ t.retrans = s.retrans /\ t.snd_nxt = s.snd_nxt
          /\ t.snd_una = s.snd_una /\ t.keepalive = s.keepalive
      BY <1>1 DEF Sockets
    <2> HIDE DEF t, d
    <2>4. TookResponse(d)
      BY <1>3, <2>1, <2>2, <2>3
    <2> QED
      BY <2>4 DEF d
  <1> QED
    BY <1>4, <1>5, <1>6

(* Taking a response, with the HTTP parser or without.                     *)
LEMMA ClientTakeResponseFacts ==
  ASSUME cfg \in Configs, NEW w, ClientFit(w), w.s.state = SK_ESTABLISHED, NEW rx
  PROVE  TookResponse(ClientTakeResponse(w, rx))
  <1>1. Http \in BOOLEAN /\ w.s.keepalive \in BOOLEAN
    BY CfgFacts DEF ClientFit, Sane, Typed, Sockets
  <1>2. CASE Http
    <2>1. ClientTakeResponse(w, rx) = HttpTakeResponse(w, rx)
      BY <1>2 DEF ClientTakeResponse
    <2> QED
      BY <2>1, HttpTakeResponseFacts
  <1>3. CASE ~Http /\ ~w.s.keepalive
    <2>1. ClientTakeResponse(w, rx) = [w |-> w, tx |-> ACK \cup FIN]
      BY <1>3 DEF ClientTakeResponse
    <2>2. ACK \cup FIN \in Flags
      BY FlagSets
    <2> QED
      BY <2>1, <2>2 DEF TookResponse
  <1>4. CASE ~Http /\ w.s.keepalive
    <2> DEFINE x == NextRequest(w)
    <2>1. ClientTakeResponse(w, rx) = [w |-> x, tx |-> ACK]
      BY <1>4 DEF ClientTakeResponse
    <2>2. /\ ClientFit(x) /\ x.s.state \in {SK_ESTABLISHED, SK_FIN_WAIT_1}
          /\ Interval > 0 => x.s.state = SK_ESTABLISHED
      BY NextRequestFacts
    <2>3. Calm => Interval > 0
      BY <1>4 DEF Calm, ClientFit
    <2>4. ACK \in Flags
      BY FlagSets
    <2> HIDE DEF x
    <2> QED
      BY <2>1, <2>2, <2>3, <2>4 DEF TookResponse
  <1> QED
    BY <1>1, <1>2, <1>3, <1>4

(* The end of tcp_client_process_data: after tcp_process_fin an ACK may    *)
(* follow, and in FIN_WAIT_2 nothing.                                      *)
LEMMA ClientAnswerFit ==
  ASSUME cfg \in Configs, NEW w, ClientFit(w), NEW rx, NEW tx \in Flags,
         Calm /\ w.s.state \in {SK_FIN_WAIT_1, SK_FIN_WAIT_2} =>
            w.s.snd_nxt = w.s.snd_una /\ tx = {}
  PROVE  ClientFit(ClientAnswer(w, rx, tx))
  <1> DEFINE f == MaybeFin(w, rx, tx)
  <1>1. Sane(w) /\ Typed(w)
    BY DEF ClientFit, Sane
  <1>2. Finned(w, tx, f)
    BY <1>1, MaybeFinFacts
  <1>3. f.w.s.keepalive = w.s.keepalive
    BY <1>1, MaybeFinKeeps
  <1>4. ClientAnswer(w, rx, tx) = f.w \/ (f.tx # {} /\ ClientAnswer(w, rx, tx) = Reply(f.w, "c", f.tx))
    BY DEF ClientAnswer
  <1> HIDE DEF f
  <1>5. /\ Sane(f.w) /\ f.tx \in Flags /\ (f.w.s.keepalive => Keepalive["c"])
        /\ Calm => Fin2(f.w.s) /\ (f.tx # {} => f.w.s.state # SK_FIN_WAIT_2)
    BY <1>2, <1>3 DEF Finned, Fin2, ClientFit
  <1>6. CASE ClientAnswer(w, rx, tx) = f.w
    BY <1>5, <1>6 DEF ClientFit
  <1>7. CASE f.tx # {} /\ ClientAnswer(w, rx, tx) = Reply(f.w, "c", f.tx)
    <2>1. ClientFit(Reply(f.w, "c", f.tx))
      BY <1>5, <1>7, ClientReply
    <2> QED
      BY <1>7, <2>1
  <1> QED
    BY <1>4, <1>6, <1>7

(* tcp_check_sequence on the client leaves keepalive alone.                *)
LEMMA CheckSequenceKeeps ==
  ASSUME cfg \in Configs, NEW w, Sane(w), NEW p \in Packets
  PROVE  CheckSequence(w, "c", p).w.s.keepalive = w.s.keepalive
  <1> DEFINE c == CheckSequence(w, "c", p)
  <1>1. Typed(w) /\ w.s \in Sockets /\ "c" \in Ends /\ ~Windowed("c")
    BY DEF Sane, Typed, Ends, Windowed
  <1>2. \/ \E t : c.w = Set(w, t) /\ t.keepalive = w.s.keepalive
        \/ c.w = w
        \/ w.s.state # SK_CLOSED /\ c.w = DoRetransmit(w, "c")
    <2> DEFINE s == w.s
               len == p.len + (IF "FIN" \in p.flags THEN 1 ELSE 0)
               acked == s.snd_una # p.ack
               t1 == [s EXCEPT !.retrans = 0, !.snd_una = p.ack, !.rcv_nxt = Plus(p.seq, len),
                               !.snd_window = Grown(s, "c"),
                               !.timer = IF acked /\ ~Windowed("c") THEN "none" ELSE @]
               t2 == [s EXCEPT !.retrans = 0]
               t3 == [s EXCEPT !.rcv_nxt = Plus(p.seq, 1), !.state = SK_CLOSING]
    <2>1. t1.keepalive = s.keepalive /\ t2.keepalive = s.keepalive /\ t3.keepalive = s.keepalive
      BY <1>1 DEF Sockets
    <2>2. \/ c.w = Set(w, t1) \/ c.w = Set(w, t2) \/ c.w = Set(w, t3) \/ c.w = w
          \/ s.state # SK_CLOSED /\ c.w = DoRetransmit(w, "c")
      BY <1>1 DEF CheckSequence
    <2> HIDE DEF t1, t2, t3, c
    <2> QED
      BY <2>1, <2>2
  <1> HIDE DEF c
  <1>3. ASSUME NEW t PROVE Set(w, t).s = t
    BY <1>1 DEF Set, Typed
  <1>4. c.w.s.keepalive = w.s.keepalive
    BY <1>1, <1>2, <1>3, DoRetransmitFin2
  <1> QED
    BY <1>4 DEF c

(* tcp_client_process_data.                                                *)
LEMMA ClientProcessDataFit ==
  ASSUME cfg \in Configs, NEW w, ClientFit(w), NEW p \in Packets
  PROVE  ClientFit(ClientProcessData(w, p))
  <1> DEFINE r == ClientProcessData(w, p)
             c == CheckSequence(w, "c", p)
  <1>1. Sane(w) /\ "c" \in Ends /\ ~Windowed("c") /\ p.len \in Nat /\ w.s \in Sockets
    BY DEF ClientFit, Ends, Windowed, Packets, Sane, Typed
  <1>2. CheckedSeq(w, "c", c)
    BY <1>1, CheckSequenceFacts
  <1>3. c.w.s.keepalive = w.s.keepalive
    BY <1>1, CheckSequenceKeeps
  <1>4. CASE ~c.ok
    <2>1. r = c.w
      BY <1>4 DEF ClientProcessData
    <2> HIDE DEF c
    <2>2. Sane(c.w) /\ (c.w.s.keepalive => Keepalive["c"])
      BY <1>2, <1>3 DEF CheckedSeq, ClientFit
    <2>3. \/ c.w = w
          \/ w.s.state = SK_CLOSED /\ c.w.s = [w.s EXCEPT !.retrans = 0]
          \/ w.s.state # SK_CLOSED /\ c.w = DoRetransmit(w, "c")
      BY <1>1, <1>2, <1>4 DEF CheckedSeq
    <2>4. CASE c.w = w
      BY <2>1, <2>4
    <2>5. CASE w.s.state = SK_CLOSED /\ c.w.s = [w.s EXCEPT !.retrans = 0]
      <3>1. c.w.s.state = SK_CLOSED
        BY <1>1, <2>5 DEF Sockets
      <3> QED
        BY <2>1, <2>2, <3>1 DEF ClientFit, Fin2, SK_CLOSED, SK_FIN_WAIT_2
    <2>6. CASE w.s.state # SK_CLOSED /\ c.w = DoRetransmit(w, "c")
      <3>1. Fin2(w.s) => Fin2(c.w.s)
        BY <1>1, <2>6, DoRetransmitFin2
      <3> QED
        BY <2>1, <2>2, <3>1 DEF ClientFit
    <2> QED
      BY <2>3, <2>4, <2>5, <2>6
  <1>5. CASE c.ok
    <2>1. /\ Sane(c.w) /\ c.w.s.state # SK_CLOSED /\ (c.w.s.keepalive => Keepalive["c"])
          /\ \/ c.w.s.state = w.s.state /\ c.w.s.snd_nxt = c.w.s.snd_una
             \/ c.w.s.state = SK_CLOSING /\ c.w.s.snd_nxt # c.w.s.snd_una
      BY <1>1, <1>2, <1>3, <1>5 DEF CheckedSeq, ClientFit
    <2>2. ClientFit(c.w)
      BY <2>1 DEF ClientFit, Fin2, SK_CLOSING, SK_FIN_WAIT_2
    <2>3. CASE c.w.s.state = SK_ESTABLISHED /\ p.len > 0
      <3> DEFINE t == [c.w.s EXCEPT !.got = @ + 1, !.rid = p.id]
                 d == ClientTakeResponse(Set(c.w, t), p.flags)
      <3>1. r = IF "FIN" \in d.tx /\ FastClose
                THEN Close(Reply(d.w, "c", RST \cup ACK), "fast")
                ELSE ClientAnswer(d.w, p.flags, d.tx)
        BY <1>5, <2>3 DEF ClientProcessData
      <3> HIDE DEF c
      <3>2. c.w.s \in Sockets /\ c.w.s.got + 1 \in Nat /\ p.id \in Nat
        BY <2>1 DEF Sane, Typed, Sockets, Packets
      <3>3. /\ t \in Sockets /\ t.state = c.w.s.state /\ t.retrans = c.w.s.retrans
            /\ t.snd_nxt = c.w.s.snd_nxt /\ t.snd_una = c.w.s.snd_una
            /\ t.keepalive = c.w.s.keepalive /\ t.timer = c.w.s.timer
        BY <3>2 DEF Sockets
      <3> HIDE DEF t
      <3>4. ClientFit(Set(c.w, t)) /\ Set(c.w, t).s = t
        BY <2>2, <3>3, ClientSet
      <3>5. TookResponse(d)
        BY <2>3, <3>3, <3>4, ClientTakeResponseFacts
      <3> HIDE DEF d, r
      <3>6. /\ ClientFit(d.w) /\ d.tx \in Flags
            /\ d.w.s.state \in {SK_ESTABLISHED, SK_FIN_WAIT_1}
            /\ Calm => d.w.s.state = SK_ESTABLISHED
        BY <3>5 DEF TookResponse
      <3>7. ClientFit(Close(Reply(d.w, "c", RST \cup ACK), "fast"))
        <4>1. RST \cup ACK \in Flags /\ d.w.s.state # SK_FIN_WAIT_2
          BY <3>6, FlagSets DEF SK_ESTABLISHED, SK_FIN_WAIT_1, SK_FIN_WAIT_2
        <4>2. ClientFit(Reply(d.w, "c", RST \cup ACK))
          BY <3>6, <4>1, ClientReply DEF ClientFit
        <4> QED
          BY <4>2, ClientClose DEF ClientFit
      <3>8. ClientFit(ClientAnswer(d.w, p.flags, d.tx))
        <4>1. Calm => d.w.s.state \notin {SK_FIN_WAIT_1, SK_FIN_WAIT_2}
          BY <3>6 DEF SK_ESTABLISHED, SK_FIN_WAIT_1, SK_FIN_WAIT_2
        <4> QED
          BY <3>6, <4>1, ClientAnswerFit
      <3>9. ClientFit(r)
        BY <3>1, <3>7, <3>8
      <3> QED
        BY <3>9 DEF r
    <2>4. CASE ~(c.w.s.state = SK_ESTABLISHED /\ p.len > 0)
      <3>1. r = ClientAnswer(c.w, p.flags, {})
        BY <1>5, <2>4 DEF ClientProcessData
      <3> HIDE DEF c, r
      <3>2. {} \in Flags /\ (c.w.s.state \in {SK_FIN_WAIT_1, SK_FIN_WAIT_2} => c.w.s.snd_nxt = c.w.s.snd_una)
        BY <2>1, FlagSets DEF SK_FIN_WAIT_1, SK_FIN_WAIT_2, SK_CLOSING
      <3>3. ClientFit(r)
        BY <2>2, <3>1, <3>2, ClientAnswerFit
      <3> QED
        BY <3>3 DEF r
    <2> QED
      BY <2>3, <2>4
  <1> QED
    BY <1>2, <1>4, <1>5 DEF CheckedSeq

(* socket_server_open: a closed socket starts a connection afresh.         *)
Opened(w, p) ==
    LET iss == Plus(w.s.snd_nxt, 1)
    IN  Set(w, [w.s EXCEPT !.state = SK_SYN_RECEIVED, !.timer = "none",
                           !.retrans = 0, !.reqnum = 0, !.snd_window = 1,
                           !.snd_nxt = iss, !.snd_una = iss,
                           !.rcv_nxt = Plus(p.seq, 1)])

(* ... and is then sane, with nothing outstanding or resent.               *)
LEMMA OpenedFacts ==
  ASSUME cfg \in Configs, NEW w, Sane(w), NEW p \in Packets
  PROVE  LET x == Opened(w, p) IN
         /\ Sane(x) /\ x.bufs = w.bufs /\ x.s.state = SK_SYN_RECEIVED /\ x.s.retrans = 0
         /\ ServerOpen(w, p) = Reply(x, "s", SYN \cup ACK)
  <1> DEFINE iss == Plus(w.s.snd_nxt, 1)
             rcv == Plus(p.seq, 1)
             u == [w.s EXCEPT !.state = SK_SYN_RECEIVED, !.timer = "none",
                              !.retrans = 0, !.reqnum = 0, !.snd_window = 1]
             t == [u EXCEPT !.snd_nxt = iss, !.snd_una = iss, !.rcv_nxt = rcv]
  <1>1. Typed(w) /\ w.s \in Sockets
    BY DEF Sane, Typed
  <1>2. Opened(w, p) = Set(w, t) /\ ServerOpen(w, p) = Reply(Opened(w, p), "s", SYN \cup ACK)
    BY DEF Opened, ServerOpen
  <1>3. iss \in Seq /\ rcv \in Seq
    <2>1. w.s.snd_nxt \in Nat /\ p.seq \in Nat
      BY <1>1 DEF Sockets, Packets, Seq
    <2> QED
      BY <2>1, PlusType
  <1> HIDE DEF iss, rcv
  <1>4. /\ 0 \in 0 .. RETRANSMIT_NUM_MAX /\ 1 \in 0 .. SEND_WINDOW_MAX
        /\ SK_SYN_RECEIVED \in States /\ 0 \in Nat
    BY Numbers DEF States
  <1>5. t \in Sockets /\ t.state = SK_SYN_RECEIVED /\ t.retrans = 0
    <2>1. u \in Sockets /\ u.state = SK_SYN_RECEIVED /\ u.retrans = 0
      BY <1>1, <1>4 DEF Sockets
    <2> HIDE DEF u
    <2> QED
      BY <1>3, <2>1 DEF Sockets
  <1>6. Linked(t)
    BY <1>5, Numbers DEF Linked, SK_SYN_RECEIVED, SK_CLOSED
  <1> HIDE DEF t
  <1>7. Sane(Set(w, t)) /\ Set(w, t).s = t /\ Set(w, t).bufs = w.bufs
    BY <1>1, <1>5, <1>6, SetSane
  <1> QED
    BY <1>2, <1>5, <1>7

(* tcp_server_process_syn: a SYN opens the socket and is answered, is      *)
(* answered again, or is ignored.                                          *)
LEMMA ServerProcessSynFacts ==
  ASSUME cfg \in Configs, NEW w, Fit(w), NEW p \in Packets
  PROVE  /\ Fit(ServerProcessSyn(w, p))
         /\ SendWindow = 0 /\ w.bufs > 0 /\ Armed(w.s) => Armed(ServerProcessSyn(w, p).s)
  <1>1. Typed(w) /\ w.s \in Sockets /\ Sane(w) /\ "s" \in Ends /\ SYN \cup ACK \in Flags
    BY FlagSets DEF Fit, Sane, Typed, Ends
  <1>2. CASE w.s.state = SK_CLOSED
    <2> DEFINE x == Opened(w, p)
    <2>1. ServerProcessSyn(w, p) = ServerOpen(w, p)
      BY <1>2 DEF ServerProcessSyn, SK_SYN_RECEIVED, SK_CLOSED
    <2>2. /\ Sane(x) /\ x.bufs = w.bufs /\ x.s.state = SK_SYN_RECEIVED
          /\ ServerOpen(w, p) = Reply(x, "s", SYN \cup ACK)
      BY <1>1, OpenedFacts
    <2> HIDE DEF x
    <2>3. SK_SYN_RECEIVED # SK_FIN_WAIT_2
      BY DEF SK_SYN_RECEIVED, SK_FIN_WAIT_2
    <2>4. Fit(Reply(x, "s", SYN \cup ACK))
      BY <1>1, <2>2, <2>3, ReplyFit
    <2>5. SendWindow = 0 /\ w.bufs > 0 => Armed(Reply(x, "s", SYN \cup ACK).s)
      BY <1>1, <2>2, ReplyArmed
    <2> QED
      BY <2>1, <2>2, <2>4, <2>5
  <1>3. CASE w.s.state = SK_SYN_RECEIVED
    <2>1. ServerProcessSyn(w, p) \in {w, Reply(w, "s", SYN \cup ACK)}
      BY <1>3 DEF ServerProcessSyn, SK_SYN_RECEIVED, SK_CLOSED
    <2>2. w.s.state # SK_FIN_WAIT_2
      BY <1>3 DEF SK_SYN_RECEIVED, SK_FIN_WAIT_2
    <2>3. /\ Fit(Reply(w, "s", SYN \cup ACK))
          /\ SendWindow = 0 /\ w.bufs > 0 => Armed(Reply(w, "s", SYN \cup ACK).s)
      BY <1>1, <2>2, ReplyFit, ReplyArmed
    <2> QED
      BY <2>1, <2>3
  <1>4. CASE w.s.state \notin {SK_CLOSED, SK_SYN_RECEIVED}
    BY <1>4 DEF ServerProcessSyn
  <1> QED
    BY <1>2, <1>3, <1>4

(* tcp_process_rst closes.                                                 *)
LEMMA ProcessRstFacts ==
  ASSUME NEW w, Sane(w)
  PROVE  /\ Fit(ProcessRst(w)) /\ Armed(ProcessRst(w).s)
         /\ (w.s.keepalive => Keepalive["c"]) => ClientFit(ProcessRst(w))
  <1>1. Typed(w) /\ (w.s.state = SK_CLOSED => w.s.timer = "none")
    BY DEF Sane, Linked
  <1>2. Sane(Close(w, "rst")) /\ Close(w, "rst").s.state = SK_CLOSED
    BY <1>1, CloseSane
  <1> QED
    BY <1>2, ClientClose DEF ProcessRst, Fit, Fin2, Armed, SK_CLOSED, SK_FIN_WAIT_2

(* tcp_server_process: whatever segment arrives.                           *)
LEMMA ServerProcessFacts ==
  ASSUME cfg \in Configs, NEW w, Fit(w), NEW p \in Packets
  PROVE  /\ Fit(Process(w, "s", p))
         /\ SendWindow = 0 /\ w.bufs > 0 /\ Armed(w.s) => Armed(Process(w, "s", p).s)
  <1>1. Process(w, "s", p) \in {ServerProcessData(w, p), ServerProcessSyn(w, p), ProcessRst(w), w}
    BY DEF Process, SYN, RST, ACK
  <1> QED
    BY <1>1, ServerProcessDataFacts, ServerProcessSynFacts, ProcessRstFacts DEF Fit

(* tcp_client_process likewise.                                            *)
LEMMA ClientProcessFit ==
  ASSUME cfg \in Configs, NEW w, ClientFit(w), NEW p \in Packets
  PROVE  ClientFit(Process(w, "c", p))
  <1>1. Process(w, "c", p) \in {ClientProcessData(w, p), ClientProcessSynAck(w, p), ProcessRst(w), w}
    BY DEF Process, SYN, RST, ACK
  <1>2. ClientFit(ProcessRst(w))
    BY ProcessRstFacts DEF ClientFit
  <1> QED
    BY <1>1, <1>2, ClientProcessDataFit, ClientProcessSynAckFit

(* A flooding client sends a SYN and treats it as acknowledged.            *)
LEMMA FloodSynFit ==
  ASSUME cfg \in Configs, NEW w, Sane(w), w.s.keepalive => Keepalive["c"], w.s.state # SK_CLOSED
  PROVE  ClientFit(FloodSyn(w))
  <1> DEFINE y == Reply(w, "c", SYN)
             nx == y.s.snd_nxt
             u == [y.s EXCEPT !.snd_una = nx]
             t == StartKeepalive(u, AccurateAge(y.s.age))
  <1>1. SYN \in Flags /\ "c" \in Ends
    BY FlagSets DEF Ends
  <1>2. Sane(y) /\ y.s.state = w.s.state /\ y.s.keepalive = w.s.keepalive
    BY <1>1, ReplySane
  <1>3. FloodSyn(w) = Set(y, t)
    BY DEF FloodSyn
  <1> HIDE DEF y
  <1>4. Typed(y) /\ y.s \in Sockets /\ nx \in Seq /\ y.s.age \in 0 .. AgeMax
    BY <1>2 DEF Sane, Typed, Sockets
  <1>5. y.s.retrans < RETRANSMIT_NUM_MAX
    BY <1>2 DEF Sane, Linked
  <1>6. /\ u \in Sockets /\ u.state = w.s.state /\ u.retrans = y.s.retrans
        /\ u.keepalive = w.s.keepalive /\ u.snd_nxt = u.snd_una
    BY <1>2, <1>4 DEF Sockets
  <1>7. AccurateAge(y.s.age) \in 0 .. AgeMax
    BY <1>4, AccurateAgeType
  <1> HIDE DEF u
  <1>8. /\ t \in Sockets /\ t.state = u.state /\ t.retrans = u.retrans /\ t.snd_nxt = u.snd_nxt
        /\ t.snd_una = u.snd_una /\ t.keepalive = u.keepalive
    BY <1>6, <1>7, StartKeepaliveFacts
  <1> HIDE DEF t
  <1>9. Linked(t) /\ Fin2(t)
    BY <1>5, <1>6, <1>8 DEF Linked, Fin2
  <1>10. Sane(Set(y, t)) /\ Set(y, t).s = t
    BY <1>4, <1>8, <1>9, SetSane
  <1> QED
    BY <1>3, <1>6, <1>8, <1>9, <1>10 DEF ClientFit

(* tcp_do_keepalive on an open socket.                                     *)
LEMMA DoKeepaliveFit ==
  ASSUME cfg \in Configs, NEW w, ClientFit(w), w.s.state # SK_CLOSED
  PROVE  ClientFit(DoKeepalive(w))
  <1> DEFINE idle == w.s.snd_nxt = w.s.snd_una /\ w.s.state = SK_ESTABLISHED /\ w.s.keepalive
             t == [w.s EXCEPT !.state = SK_FIN_WAIT_1]
  <1>1. Sane(w) /\ Typed(w) /\ w.s \in Sockets /\ (w.s.keepalive => Keepalive["c"])
    BY DEF ClientFit, Sane, Typed
  <1>2. CASE idle
    <2>1. DoKeepalive(w) = SendKeepaliveRequest(w)
      BY <1>2 DEF DoKeepalive
    <2> QED
      BY <1>2, <2>1, SendKeepaliveRequestFacts
  <1>3. CASE ~idle /\ Flood
    <2>1. DoKeepalive(w) = FloodMore(w)
      BY <1>3 DEF DoKeepalive
    <2>2. FloodMore(w) \in {FloodSyn(w), Close(w, "flood")}
      BY DEF FloodMore
    <2>3. ClientFit(FloodSyn(w)) /\ ClientFit(Close(w, "flood"))
      BY <1>1, FloodSynFit, ClientClose
    <2> QED
      BY <2>1, <2>2, <2>3
  <1>4. CASE ~idle /\ ~Flood /\ ~w.s.keepalive /\ w.s.state = SK_ESTABLISHED
    <2>1. DoKeepalive(w) = Reply(Set(w, t), "c", ACK \cup FIN)
      BY <1>4 DEF DoKeepalive
    <2>2. SK_FIN_WAIT_1 \in States /\ SK_FIN_WAIT_1 # SK_CLOSED /\ SK_FIN_WAIT_1 # SK_FIN_WAIT_2
      BY DEF States, SK_FIN_WAIT_1, SK_CLOSED, SK_FIN_WAIT_2
    <2>3. /\ t \in Sockets /\ t.state = SK_FIN_WAIT_1 /\ t.retrans = w.s.retrans
          /\ t.keepalive = w.s.keepalive
      BY <1>1, <2>2 DEF Sockets
    <2>4. Linked(t) /\ ACK \cup FIN \in Flags
      BY <1>1, <2>2, <2>3, FlagSets DEF Linked, Sane
    <2> HIDE DEF t
    <2>5. Sane(Set(w, t)) /\ Set(w, t).s = t
      BY <1>1, <2>3, <2>4, SetSane
    <2>6. ClientFit(Reply(Set(w, t), "c", ACK \cup FIN))
      BY <1>1, <2>2, <2>3, <2>4, <2>5, ClientReply
    <2> QED
      BY <2>1, <2>6
  <1>5. CASE ~idle /\ ~Flood /\ ~(~w.s.keepalive /\ w.s.state = SK_ESTABLISHED)
    BY <1>5 DEF DoKeepalive
  <1> QED
    BY <1>2, <1>3, <1>4, <1>5

(* tcp_client_launch on a closed socket.                                   *)
LEMMA ClientLaunchFit ==
  ASSUME cfg \in Configs, NEW w, ClientFit(w)
  PROVE  ClientFit(ClientLaunch(w))
  <1> DEFINE iss == Plus(w.s.snd_nxt, 1)
             ka == Keepalive["c"]
             t == [w.s EXCEPT !.age = 0, !.retrans = 0, !.reqnum = 0, !.keepalive = ka,
                              !.snd_nxt = iss, !.snd_una = iss, !.rcv_nxt = 0,
                              !.state = SK_SYN_SENT, !.http_ack = FALSE, !.parts = 0]
             x == Set(w, t)
  <1>1. Typed(w) /\ w.s \in Sockets /\ SYN \in Flags
    BY FlagSets DEF ClientFit, Sane, Typed
  <1>2. /\ 0 \in 0 .. AgeMax /\ 0 \in 0 .. RETRANSMIT_NUM_MAX /\ 0 \in Seq /\ 0 \in Nat
        /\ SK_SYN_SENT \in States
    BY Numbers DEF Seq, States
  <1>3. iss \in Seq
    <2>1. w.s.snd_nxt \in Nat
      BY <1>1 DEF Sockets, Seq
    <2> QED
      BY <2>1, PlusType
  <1>4. ka \in BOOLEAN /\ Flood \in BOOLEAN
    BY CfgFacts DEF Ends
  <1>5. /\ ClientLaunch(w) = IF ~Flood THEN Reply(x, "c", SYN)
                            ELSE IF Keepalive["c"] THEN FloodSyn(x)
                            ELSE Close(Reply(x, "c", SYN), "flood")
    BY <1>4 DEF ClientLaunch
  <1> HIDE DEF iss, ka
  <1>6. t \in Sockets /\ t.state = SK_SYN_SENT /\ t.retrans = 0 /\ t.keepalive = ka
    BY <1>1, <1>2, <1>3, <1>4 DEF Sockets
  <1> HIDE DEF t
  <1>7. SK_SYN_SENT # SK_CLOSED /\ SK_SYN_SENT # SK_FIN_WAIT_2
    BY DEF SK_SYN_SENT, SK_CLOSED, SK_FIN_WAIT_2
  <1>8. Linked(t)
    BY <1>6, <1>7, Numbers DEF Linked
  <1>9. Sane(x) /\ x.s = t
    BY <1>1, <1>6, <1>8, SetSane
  <1> HIDE DEF x
  <1>10. x.s.keepalive => Keepalive["c"]
    BY <1>6, <1>9 DEF ka
  <1>11. ClientFit(Reply(x, "c", SYN)) /\ ClientFit(FloodSyn(x))
    BY <1>1, <1>6, <1>7, <1>9, <1>10, ClientReply, FloodSynFit
  <1>12. ClientFit(Close(Reply(x, "c", SYN), "flood"))
    BY <1>11, ClientClose DEF ClientFit
  <1> QED
    BY <1>5, <1>11, <1>12

(* socket_timer_run unlinks an open socket before it calls the handler.    *)
LEMMA UnlinkFacts ==
  ASSUME NEW w, Sane(w), w.s.state # SK_CLOSED
  PROVE  LET x == Unlink(w) IN
         /\ Sane(x) /\ x.bufs = w.bufs /\ x.s.state = w.s.state /\ x.s.keepalive = w.s.keepalive
         /\ x.s.snd_nxt = w.s.snd_nxt /\ x.s.snd_una = w.s.snd_una
  <1> DEFINE t == [w.s EXCEPT !.timer = "none"]
  <1>1. Typed(w) /\ w.s \in Sockets
    BY DEF Sane, Typed
  <1>2. /\ t \in Sockets /\ t.state = w.s.state /\ t.retrans = w.s.retrans
        /\ t.keepalive = w.s.keepalive
        /\ t.snd_nxt = w.s.snd_nxt /\ t.snd_una = w.s.snd_una
    BY <1>1 DEF Sockets
  <1>3. Unlink(w) = Set(w, t)
    BY DEF Unlink
  <1> HIDE DEF t
  <1>4. Linked(t)
    BY <1>2 DEF Linked, Sane
  <1>5. Sane(Set(w, t)) /\ Set(w, t).s = t /\ Set(w, t).bufs = w.bufs
    BY <1>1, <1>2, <1>4, SetSane
  <1> QED
    BY <1>2, <1>3, <1>5

(* The retransmit timer of the server.                                     *)
LEMMA ServerRetransmitFacts ==
  ASSUME cfg \in Configs, NEW w, Fit(w), w.s.timer = "retransmit"
  PROVE  /\ Fit(DoRetransmit(Unlink(w), "s"))
         /\ SendWindow = 0 /\ w.bufs > 0 /\ Armed(w.s) => Armed(DoRetransmit(Unlink(w), "s").s)
  <1> DEFINE x == Unlink(w)
  <1>1. Sane(w) /\ w.s.state # SK_CLOSED /\ "s" \in Ends
    BY DEF Fit, Sane, Linked, Ends
  <1>2. /\ Sane(x) /\ x.bufs = w.bufs /\ x.s.state = w.s.state
        /\ x.s.snd_nxt = w.s.snd_nxt /\ x.s.snd_una = w.s.snd_una
    BY <1>1, UnlinkFacts
  <1> HIDE DEF x
  <1>3. Fit(x)
    BY <1>2 DEF Fit, Fin2
  <1>4. Fit(DoRetransmit(x, "s"))
    BY <1>1, <1>2, <1>3, DoRetransmitFit
  <1>5. ASSUME SendWindow = 0, w.bufs > 0, Armed(w.s)
        PROVE  Armed(DoRetransmit(x, "s").s)
    <2>1. x.s.snd_nxt # x.s.snd_una
      BY <1>1, <1>2, <1>5 DEF Armed
    <2> QED
      BY <1>1, <1>2, <1>5, <2>1, DoRetransmitArmed
  <1> QED
    BY <1>4, <1>5 DEF x

(* The client's timers.                                                    *)
LEMMA ClientTimerFit ==
  ASSUME cfg \in Configs, NEW w, ClientFit(w), w.s.timer # "none"
  PROVE  ClientFit(DoRetransmit(Unlink(w), "c")) /\ ClientFit(DoKeepalive(Unlink(w)))
  <1> DEFINE x == Unlink(w)
  <1>1. Sane(w) /\ w.s.state # SK_CLOSED /\ "c" \in Ends /\ ~Windowed("c")
    BY DEF ClientFit, Sane, Linked, Ends, Windowed
  <1>2. /\ Sane(x) /\ x.s.state = w.s.state /\ x.s.keepalive = w.s.keepalive
        /\ x.s.snd_nxt = w.s.snd_nxt /\ x.s.snd_una = w.s.snd_una
    BY <1>1, UnlinkFacts
  <1> HIDE DEF x
  <1>3. ClientFit(x) /\ x.s.state # SK_CLOSED
    BY <1>1, <1>2 DEF ClientFit, Fin2
  <1>4. Sane(DoRetransmit(x, "c"))
    BY <1>1, <1>2, <1>3, DoRetransmitSane
  <1>5. /\ Fin2(x.s) => Fin2(DoRetransmit(x, "c").s)
        /\ DoRetransmit(x, "c").s.keepalive = x.s.keepalive
    BY <1>1, <1>2, <1>3, DoRetransmitFin2
  <1>6. ClientFit(DoRetransmit(x, "c"))
    BY <1>3, <1>4, <1>5 DEF ClientFit
  <1>7. ClientFit(DoKeepalive(x))
    BY <1>3, DoKeepaliveFit
  <1> QED
    BY <1>6, <1>7 DEF x

(* The server's idle timeout closes.                                       *)
LEMMA TimeoutFacts ==
  ASSUME NEW w, Sane(w), w.s.timer = "timeout"
  PROVE  Fit(GiveUp(Unlink(w))) /\ Armed(GiveUp(Unlink(w)).s)
  <1> DEFINE x == Unlink(w)
  <1>1. w.s.state # SK_CLOSED
    BY DEF Sane, Linked
  <1>2. Sane(x) /\ x.s.state = w.s.state
    BY <1>1, UnlinkFacts
  <1> HIDE DEF x
  <1>3. Sane(Close(x, "error")) /\ Close(x, "error").s.state = SK_CLOSED
    BY <1>1, <1>2, CloseSane DEF Sane
  <1>4. Fit(GiveUp(x)) /\ Armed(GiveUp(x).s)
    BY <1>3 DEF GiveUp, Fit, Fin2, Armed, SK_CLOSED, SK_FIN_WAIT_2
  <1> QED
    BY <1>4 DEF x

(* tcp_ack_delay_flush.                                                    *)
FlushAck(w) ==
    LET x == Set(w, [w.s EXCEPT !.http_ack = FALSE])
    IN  IF x.s.state = SK_ESTABLISHED THEN Reply(x, "c", ACK) ELSE x

(* A delayed ACK is sent only on an established connection.                *)
LEMMA FlushAckFit ==
  ASSUME cfg \in Configs, NEW w, ClientFit(w)
  PROVE  ClientFit(FlushAck(w))
  <1> DEFINE t == [w.s EXCEPT !.http_ack = FALSE]
             x == Set(w, t)
  <1>1. w.s \in Sockets /\ ACK \in Flags
    BY FlagSets DEF ClientFit, Sane, Typed
  <1>2. /\ t \in Sockets /\ t.state = w.s.state /\ t.retrans = w.s.retrans /\ t.timer = w.s.timer
        /\ t.keepalive = w.s.keepalive /\ t.snd_nxt = w.s.snd_nxt /\ t.snd_una = w.s.snd_una
    BY <1>1 DEF Sockets
  <1>3. FlushAck(w) = IF x.s.state = SK_ESTABLISHED THEN Reply(x, "c", ACK) ELSE x
    BY DEF FlushAck
  <1> HIDE DEF t
  <1>4. ClientFit(x) /\ x.s = t
    BY <1>2, ClientSet
  <1> HIDE DEF x
  <1>5. x.s.state = SK_ESTABLISHED => ClientFit(Reply(x, "c", ACK))
    BY <1>1, <1>4, ClientReply DEF ClientFit, SK_ESTABLISHED, SK_FIN_WAIT_2
  <1> QED
    BY <1>3, <1>4, <1>5

-----------------------------------------------------------------------------
(***************************************************************************)
(* The inductive invariant.  The handlers keep Fit on the server's socket  *)
(* and ClientFit on the client's, whatever packet they are given; Armed    *)
(* needs an mbuf for every reply.                                          *)
(***************************************************************************)
Reliable == SendWindow = 0 /\ "nobuf" \notin cfg.faults

ServerInv ==
    /\ Linked(sk["s"])
    /\ SendWindow = 0 => Fin2(sk["s"])
    /\ Reliable => Armed(sk["s"])

ClientInv ==
    /\ Linked(sk["c"])
    /\ sk["c"].keepalive => Keepalive["c"]
    /\ Calm => Fin2(sk["c"])

Inv == TypeOK /\ ServerInv /\ ClientInv

(* The work record a handler starts from.                                  *)
Begin(e, b) == [s |-> sk[e], out |-> {}, bufs |-> b]

(* A handler of the server starts from a fit socket, and Enough is never   *)
(* nothing.                                                                *)
LEMMA BeginFacts ==
  ASSUME Inv, NEW b \in Nat
  PROVE  /\ Fit(Begin("s", b)) /\ ClientFit(Begin("c", b))
         /\ \A e \in Ends : Begin(e, b).s = sk[e] /\ Begin(e, b).bufs = b
         /\ Enough \in Nat /\ Enough > 0
  <1>1. sk["s"] \in Sockets /\ sk["c"] \in Sockets
    BY DEF Inv, TypeOK, Ends
  <1>2. Typed(Begin("s", b)) /\ Typed(Begin("c", b))
    BY <1>1 DEF Typed, Begin
  <1>3. Begin("s", b).s = sk["s"] /\ Begin("c", b).s = sk["c"]
    BY DEF Begin
  <1>4. Enough \in Nat /\ Enough > 0
    BY Numbers DEF Enough
  <1>5. \A e \in Ends : Begin(e, b).s = sk[e] /\ Begin(e, b).bufs = b
    BY DEF Begin
  <1> QED
    BY <1>2, <1>3, <1>4, <1>5 DEF Inv, ServerInv, ClientInv, Fit, ClientFit, Sane

(* The configuration does not change, so neither do the options.           *)
LEMMA SameCfg ==
  ASSUME UNCHANGED cfg
  PROVE  /\ SendWindow' = SendWindow /\ Keepalive' = Keepalive /\ (Calm' <=> Calm)
         /\ (Reliable' <=> Reliable)
  BY DEF SendWindow, Keepalive, Calm, Reliable, Http, Interval

(* What a step of either worker leaves besides its socket.                 *)
Rest(w, gone) ==
    /\ UNCHANGED cfg
    /\ net' = (net \ gone) \cup w.out
    /\ faults' \in {faults, faults + 1}
    /\ phase' = phase
    /\ opens' \in {opens, opens + 1}

(* A step of the server's worker that leaves its socket fit.               *)
LEMMA ServerMoves ==
  ASSUME Inv, NEW w, Fit(w), NEW gone, Rest(w, gone), sk' = [sk EXCEPT !["s"] = w.s],
         Reliable => Armed(w.s)
  PROVE  Inv'
  <1>1. w.s \in Sockets /\ w.out \in SUBSET Packets /\ Linked(w.s) /\ (SendWindow = 0 => Fin2(w.s))
    BY DEF Fit, Sane, Typed
  <1>2. sk' \in [Ends -> Sockets] /\ sk'["s"] = w.s /\ sk'["c"] = sk["c"]
    BY <1>1 DEF Inv, TypeOK, Ends
  <1>3. /\ SendWindow' = SendWindow /\ Keepalive' = Keepalive /\ (Calm' <=> Calm)
        /\ (Reliable' <=> Reliable) /\ cfg' = cfg
    BY SameCfg DEF Rest
  <1>4. ServerInv' /\ ClientInv'
    BY <1>1, <1>2, <1>3 DEF ServerInv, ClientInv, Inv, Linked, Fin2, Armed
  <1>5. TypeOK'
    <2>1. \A p \in net' : p \in Packets
      BY <1>1 DEF Inv, TypeOK, Rest
    <2>2. phase' \in {"run", "over", "stop"} /\ {opens', faults'} \subseteq Nat /\ cfg' \in Configs
      BY DEF Inv, TypeOK, Rest
    <2>3. \A e \in Ends : sk'[e].state = SK_CLOSED => sk'[e].timer = "none"
      BY <1>1, <1>2 DEF Inv, TypeOK, Linked, Ends
    <2> QED
      BY <1>2, <2>1, <2>2, <2>3 DEF TypeOK
  <1> QED
    BY <1>4, <1>5 DEF Inv

(* ... and of the client's.                                                *)
LEMMA ClientMoves ==
  ASSUME Inv, NEW w, ClientFit(w), NEW gone, Rest(w, gone), sk' = [sk EXCEPT !["c"] = w.s]
  PROVE  Inv'
  <1>1. /\ w.s \in Sockets /\ w.out \in SUBSET Packets /\ Linked(w.s)
        /\ w.s.keepalive => Keepalive["c"]
        /\ Calm => Fin2(w.s)
    BY DEF ClientFit, Sane, Typed
  <1>2. sk' \in [Ends -> Sockets] /\ sk'["c"] = w.s /\ sk'["s"] = sk["s"]
    BY <1>1 DEF Inv, TypeOK, Ends
  <1>3. /\ SendWindow' = SendWindow /\ Keepalive' = Keepalive /\ (Calm' <=> Calm)
        /\ (Reliable' <=> Reliable) /\ cfg' = cfg
    BY SameCfg DEF Rest
  <1>4. ServerInv' /\ ClientInv'
    BY <1>1, <1>2, <1>3 DEF ServerInv, ClientInv, Inv, Linked, Fin2, Armed
  <1>5. TypeOK'
    <2>1. \A p \in net' : p \in Packets
      BY <1>1 DEF Inv, TypeOK, Rest
    <2>2. phase' \in {"run", "over", "stop"} /\ {opens', faults'} \subseteq Nat /\ cfg' \in Configs
      BY DEF Inv, TypeOK, Rest
    <2>3. \A e \in Ends : sk'[e].state = SK_CLOSED => sk'[e].timer = "none"
      BY <1>1, <1>2 DEF Inv, TypeOK, Linked, Ends
    <2> QED
      BY <1>2, <2>1, <2>2, <2>3 DEF TypeOK
  <1> QED
    BY <1>4, <1>5 DEF Inv

(* What Step says of the run of a handler that left w.                     *)
Ran(e, b, gone, w) ==
    /\ sk' = [sk EXCEPT ![e] = w.s]
    /\ net' = (net \ gone) \cup w.out
    /\ faults' \in {faults, faults + 1}
    /\ "nobuf" \notin cfg.faults => b = Enough

(* A segment that arrives, once or again, runs Process on it.              *)
LEMMA ReceiveRuns ==
  ASSUME Inv, NEW e \in Ends, Receive(e) \/ ReceiveCopy(e)
  PROVE  \E p \in net, b \in 0 .. Enough, gone \in SUBSET net :
            /\ p.from = Other(e)
            /\ Ran(e, b, gone, Process(Begin(e, b), e, p)) /\ UNCHANGED <<cfg, phase, opens>>
  <1>0. Enough \in Nat /\ Enough > 0
    BY BeginFacts
  <1>1. CASE Receive(e)
    <2>1. PICK p \in net : /\ p.from = Other(e) /\ Step(e, {p}, LAMBDA w : Process(w, e, p))
                           /\ UNCHANGED <<cfg, phase, opens>>
      BY <1>1 DEF Receive
    <2>2. PICK b \in 0 .. Enough : Ran(e, b, {p}, Process(Begin(e, b), e, p))
      <3>1. PICK b \in IF CanFail("nobuf") THEN 0 .. Enough ELSE {Enough} :
              /\ sk' = [sk EXCEPT ![e] = Process(Begin(e, b), e, p).s]
              /\ net' = (net \ {p}) \cup Process(Begin(e, b), e, p).out
              /\ faults' = IF b < Enough THEN faults + 1 ELSE faults
        BY <1>0, <2>1, Zenon DEF Step, Begin
      <3>2. b \in 0 .. Enough /\ ("nobuf" \notin cfg.faults => b = Enough)
        BY <1>0, <3>1 DEF CanFail
      <3>3. faults' \in {faults, faults + 1}
        BY <3>1
      <3> QED
        BY <3>1, <3>2, <3>3, Zenon DEF Ran
    <2> QED
      BY <2>1, <2>2
  <1>2. CASE ReceiveCopy(e)
    <2>1. PICK p \in net :
            /\ p.from = Other(e)
            /\ sk' = [sk EXCEPT ![e] = Process(Begin(e, Enough), e, p).s]
            /\ net' = net \cup Process(Begin(e, Enough), e, p).out
            /\ faults' = faults + 1 /\ UNCHANGED <<cfg, phase, opens>>
      BY <1>2 DEF ReceiveCopy, Begin
    <2>2. Ran(e, Enough, {}, Process(Begin(e, Enough), e, p))
      BY <2>1 DEF Ran
    <2> QED
      BY <1>0, <2>1, <2>2
  <1> QED
    BY <1>1, <1>2

(* Segments that arrive, once or again.                                    *)
LEMMA ReceiveKeeps ==
  ASSUME Inv, NEW e \in Ends, Receive(e) \/ ReceiveCopy(e)
  PROVE  Inv'
  <1>1. Enough \in Nat /\ Enough > 0 /\ cfg \in Configs
    BY BeginFacts DEF Inv, TypeOK
  <1>2. PICK p \in net, b \in 0 .. Enough, gone \in SUBSET net :
           Ran(e, b, gone, Process(Begin(e, b), e, p)) /\ UNCHANGED <<cfg, phase, opens>>
    BY ReceiveRuns
  <1> DEFINE w == Process(Begin(e, b), e, p)
  <1>3. b \in Nat /\ p \in Packets /\ Rest(w, gone) /\ sk' = [sk EXCEPT ![e] = w.s]
    BY <1>1, <1>2 DEF Inv, TypeOK, Ran, Rest
  <1>4. CASE e = "s"
    <2>1. Fit(Begin("s", b)) /\ Begin("s", b).s = sk["s"] /\ Begin("s", b).bufs = b
      BY <1>3, BeginFacts DEF Ends
    <2>2. /\ Fit(w)
          /\ SendWindow = 0 /\ b > 0 /\ Armed(sk["s"]) => Armed(w.s)
      BY <1>1, <1>3, <1>4, <2>1, ServerProcessFacts
    <2>3. Reliable => Armed(w.s)
      BY <1>1, <1>2, <2>2 DEF Reliable, Ran, Inv, ServerInv
    <2> HIDE DEF w
    <2> QED
      BY <1>3, <1>4, <2>2, <2>3, ServerMoves
  <1>5. CASE e = "c"
    <2>1. ClientFit(Begin("c", b))
      BY <1>3, BeginFacts
    <2>2. ClientFit(w)
      BY <1>1, <1>3, <1>5, <2>1, ClientProcessFit
    <2> HIDE DEF w
    <2> QED
      BY <1>3, <1>5, <2>2, ClientMoves
  <1> QED
    BY <1>4, <1>5 DEF Ends

(* An expired retransmit timer runs tcp_do_retransmit.                     *)
LEMMA RetransmitRuns ==
  ASSUME Inv, NEW e \in Ends, RetransmitTimer(e)
  PROVE  \E b \in 0 .. Enough : Ran(e, b, {}, DoRetransmit(Unlink(Begin(e, b)), e))
  <1>0. Enough \in Nat /\ Enough > 0
    BY BeginFacts
  <1>1. PICK b \in IF CanFail("nobuf") THEN 0 .. Enough ELSE {Enough} :
          /\ sk' = [sk EXCEPT ![e] = DoRetransmit(Unlink(Begin(e, b)), e).s]
          /\ net' = (net \ {}) \cup DoRetransmit(Unlink(Begin(e, b)), e).out
          /\ faults' = IF b < Enough THEN faults + 1 ELSE faults
    BY <1>0, Zenon DEF RetransmitTimer, Step, Begin
  <1>2. b \in 0 .. Enough /\ ("nobuf" \notin cfg.faults => b = Enough)
    BY <1>0, <1>1 DEF CanFail
  <1>3. faults' \in {faults, faults + 1}
    BY <1>1
  <1> QED
    BY <1>1, <1>2, <1>3, Zenon DEF Ran

(* The retransmit timers.                                                  *)
LEMMA RetransmitTimerKeeps ==
  ASSUME Inv, NEW e \in Ends, RetransmitTimer(e)
  PROVE  Inv'
  <1>1. Enough \in Nat /\ Enough > 0 /\ cfg \in Configs
    BY BeginFacts DEF Inv, TypeOK
  <1>2. PICK b \in 0 .. Enough : Ran(e, b, {}, DoRetransmit(Unlink(Begin(e, b)), e))
    BY RetransmitRuns
  <1> DEFINE w == DoRetransmit(Unlink(Begin(e, b)), e)
  <1>3. b \in Nat /\ Rest(w, {}) /\ sk' = [sk EXCEPT ![e] = w.s] /\ sk[e].timer = "retransmit"
    BY <1>1, <1>2 DEF Ran, Rest, RetransmitTimer, Expired
  <1>4. CASE e = "s"
    <2>1. Fit(Begin("s", b)) /\ Begin("s", b).s = sk["s"] /\ Begin("s", b).bufs = b
      BY <1>3, BeginFacts DEF Ends
    <2>2. /\ Fit(w)
          /\ SendWindow = 0 /\ b > 0 /\ Armed(sk["s"]) => Armed(w.s)
      BY <1>1, <1>3, <1>4, <2>1, ServerRetransmitFacts
    <2>3. Reliable => Armed(w.s)
      BY <1>1, <1>2, <2>2 DEF Reliable, Ran, Inv, ServerInv
    <2> HIDE DEF w
    <2> QED
      BY <1>3, <1>4, <2>2, <2>3, ServerMoves
  <1>5. CASE e = "c"
    <2>1. ClientFit(Begin("c", b)) /\ Begin("c", b).s = sk["c"]
      BY <1>3, BeginFacts DEF Ends
    <2>2. Begin("c", b).s.timer # "none"
      BY <1>3, <1>5, <2>1
    <2>3. ClientFit(w)
      BY <1>1, <1>5, <2>1, <2>2, ClientTimerFit
    <2> HIDE DEF w
    <2> QED
      BY <1>3, <1>5, <2>3, ClientMoves
  <1> QED
    BY <1>4, <1>5 DEF Ends

(* An expired idle timeout gives the socket up.                            *)
LEMMA TimeoutRuns ==
  ASSUME Inv, TimeoutTimer
  PROVE  \E b \in 0 .. Enough : Ran("s", b, {}, GiveUp(Unlink(Begin("s", b))))
  <1>0. Enough \in Nat /\ Enough > 0
    BY BeginFacts
  <1>1. PICK b \in IF CanFail("nobuf") THEN 0 .. Enough ELSE {Enough} :
          /\ sk' = [sk EXCEPT !["s"] = GiveUp(Unlink(Begin("s", b))).s]
          /\ net' = (net \ {}) \cup GiveUp(Unlink(Begin("s", b))).out
          /\ faults' = IF b < Enough THEN faults + 1 ELSE faults
    BY <1>0, Zenon DEF TimeoutTimer, Step, Begin
  <1>2. b \in 0 .. Enough /\ ("nobuf" \notin cfg.faults => b = Enough)
    BY <1>0, <1>1 DEF CanFail
  <1>3. faults' \in {faults, faults + 1}
    BY <1>1
  <1> QED
    BY <1>1, <1>2, <1>3, Zenon DEF Ran

(* The server's idle timeout.                                              *)
LEMMA TimeoutTimerKeeps ==
  ASSUME Inv, TimeoutTimer
  PROVE  Inv'
  <1>1. Enough \in Nat /\ Enough > 0
    BY BeginFacts
  <1>2. PICK b \in 0 .. Enough : Ran("s", b, {}, GiveUp(Unlink(Begin("s", b))))
    BY TimeoutRuns
  <1> DEFINE w == GiveUp(Unlink(Begin("s", b)))
  <1>3. b \in Nat /\ Rest(w, {}) /\ sk' = [sk EXCEPT !["s"] = w.s] /\ sk["s"].timer = "timeout"
    BY <1>1, <1>2 DEF Ran, Rest, TimeoutTimer, Expired
  <1>4. Fit(Begin("s", b)) /\ Begin("s", b).s = sk["s"]
    BY <1>3, BeginFacts DEF Ends
  <1>5. Fit(w) /\ Armed(w.s)
    BY <1>3, <1>4, TimeoutFacts DEF Fit
  <1> HIDE DEF w
  <1> QED
    BY <1>3, <1>5, ServerMoves

(* A launch runs tcp_client_launch ...                                     *)
LEMMA LaunchRuns ==
  ASSUME Inv, Launch
  PROVE  \E b \in 0 .. Enough : Ran("c", b, {}, ClientLaunch(Begin("c", b)))
  <1>0. Enough \in Nat /\ Enough > 0
    BY BeginFacts
  <1>1. PICK b \in IF CanFail("nobuf") THEN 0 .. Enough ELSE {Enough} :
          /\ sk' = [sk EXCEPT !["c"] = ClientLaunch(Begin("c", b)).s]
          /\ net' = (net \ {}) \cup ClientLaunch(Begin("c", b)).out
          /\ faults' = IF b < Enough THEN faults + 1 ELSE faults
    BY <1>0, Zenon DEF Launch, Step, Begin
  <1>2. b \in 0 .. Enough /\ ("nobuf" \notin cfg.faults => b = Enough)
    BY <1>0, <1>1 DEF CanFail
  <1>3. faults' \in {faults, faults + 1}
    BY <1>1
  <1> QED
    BY <1>1, <1>2, <1>3, Zenon DEF Ran

(* ... an expired keepalive timer tcp_do_keepalive ...                     *)
LEMMA KeepaliveRuns ==
  ASSUME Inv, KeepaliveTimer
  PROVE  \E b \in 0 .. Enough : Ran("c", b, {}, DoKeepalive(Unlink(Begin("c", b))))
  <1>0. Enough \in Nat /\ Enough > 0
    BY BeginFacts
  <1>1. PICK b \in IF CanFail("nobuf") THEN 0 .. Enough ELSE {Enough} :
          /\ sk' = [sk EXCEPT !["c"] = DoKeepalive(Unlink(Begin("c", b))).s]
          /\ net' = (net \ {}) \cup DoKeepalive(Unlink(Begin("c", b))).out
          /\ faults' = IF b < Enough THEN faults + 1 ELSE faults
    BY <1>0, Zenon DEF KeepaliveTimer, Step, Begin
  <1>2. b \in 0 .. Enough /\ ("nobuf" \notin cfg.faults => b = Enough)
    BY <1>0, <1>1 DEF CanFail
  <1>3. faults' \in {faults, faults + 1}
    BY <1>1
  <1> QED
    BY <1>1, <1>2, <1>3, Zenon DEF Ran

(* ... and the flush of the delayed ACKs its handler.                      *)
LEMMA FlushRuns ==
  ASSUME Inv, AckDelayFlush
  PROVE  \E b \in 0 .. Enough : Ran("c", b, {}, FlushAck(Begin("c", b)))
  <1>0. Enough \in Nat /\ Enough > 0
    BY BeginFacts
  <1>1. PICK b \in IF CanFail("nobuf") THEN 0 .. Enough ELSE {Enough} :
          /\ sk' = [sk EXCEPT !["c"] = FlushAck(Begin("c", b)).s]
          /\ net' = (net \ {}) \cup FlushAck(Begin("c", b)).out
          /\ faults' = IF b < Enough THEN faults + 1 ELSE faults
    BY <1>0, Zenon DEF AckDelayFlush, Step, Begin, FlushAck
  <1>2. b \in 0 .. Enough /\ ("nobuf" \notin cfg.faults => b = Enough)
    BY <1>0, <1>1 DEF CanFail
  <1>3. faults' \in {faults, faults + 1}
    BY <1>1
  <1> QED
    BY <1>1, <1>2, <1>3, Zenon DEF Ran

(* What only the client's worker does: launch, keepalive, delayed ACKs.    *)
LEMMA ClientActionsKeep ==
  ASSUME Inv, Launch \/ KeepaliveTimer \/ AckDelayFlush
  PROVE  Inv'
  <1>1. Enough \in Nat /\ cfg \in Configs
    BY BeginFacts DEF Inv, TypeOK
  <1>2. ASSUME NEW w, NEW b, ClientFit(w), Ran("c", b, {}, w), UNCHANGED <<cfg, phase>>,
               opens' \in {opens, opens + 1}
        PROVE  Inv'
    <2>1. Rest(w, {}) /\ sk' = [sk EXCEPT !["c"] = w.s]
      BY <1>2 DEF Ran, Rest
    <2> QED
      BY <1>2, <2>1, ClientMoves
  <1>3. CASE Launch
    <2>1. PICK b \in 0 .. Enough : Ran("c", b, {}, ClientLaunch(Begin("c", b)))
      BY <1>3, LaunchRuns
    <2>2. b \in Nat /\ UNCHANGED <<cfg, phase>> /\ opens' \in {opens, opens + 1}
      BY <1>1, <1>3 DEF Launch
    <2>3. ClientFit(ClientLaunch(Begin("c", b)))
      BY <1>1, <2>2, BeginFacts, ClientLaunchFit
    <2> QED
      BY <1>2, <2>1, <2>2, <2>3
  <1>4. CASE KeepaliveTimer
    <2>1. PICK b \in 0 .. Enough : Ran("c", b, {}, DoKeepalive(Unlink(Begin("c", b))))
      BY <1>4, KeepaliveRuns
    <2>2. b \in Nat /\ UNCHANGED <<cfg, phase>> /\ opens' \in {opens, opens + 1}
      BY <1>1, <1>4 DEF KeepaliveTimer
    <2>3. Begin("c", b).s.timer # "none" /\ ClientFit(Begin("c", b))
      BY <1>4, <2>2, BeginFacts DEF KeepaliveTimer, Expired, Ends
    <2>4. ClientFit(DoKeepalive(Unlink(Begin("c", b))))
      BY <1>1, <2>3, ClientTimerFit
    <2> QED
      BY <1>2, <2>1, <2>2, <2>4
  <1>5. CASE AckDelayFlush
    <2>1. PICK b \in 0 .. Enough : Ran("c", b, {}, FlushAck(Begin("c", b)))
      BY <1>5, FlushRuns
    <2>2. b \in Nat /\ UNCHANGED <<cfg, phase>> /\ opens' \in {opens, opens + 1}
      BY <1>1, <1>5 DEF AckDelayFlush
    <2>3. ClientFit(FlushAck(Begin("c", b)))
      BY <1>1, <2>2, BeginFacts, FlushAckFit
    <2> QED
      BY <1>2, <2>1, <2>2, <2>3
  <1> QED
    BY <1>3, <1>4, <1>5

(* Time: sockets grow older and nothing else changes in them.              *)
LEMMA TickKeeps ==
  ASSUME Inv, Tick
  PROVE  Inv'
  <1> DEFINE old(e) == [sk[e] EXCEPT !.age = Older(@, AgeMax), !.quiet = Older(@, QuietMax)]
  <1>1. /\ sk' = [e \in Ends |-> old(e)] /\ UNCHANGED <<cfg, net, phase, opens>>
        /\ faults' \in {faults, faults + 1}
    BY DEF Tick
  <1>2. ASSUME NEW e \in Ends
        PROVE  /\ old(e) \in Sockets /\ old(e).state = sk[e].state /\ old(e).timer = sk[e].timer
               /\ old(e).retrans = sk[e].retrans /\ old(e).keepalive = sk[e].keepalive
               /\ old(e).snd_nxt = sk[e].snd_nxt /\ old(e).snd_una = sk[e].snd_una
    <2>1. sk[e] \in Sockets
      BY DEF Inv, TypeOK
    <2>2. sk[e].age \in 0 .. AgeMax /\ sk[e].quiet \in 0 .. QuietMax
      BY <2>1 DEF Sockets
    <2>3. Older(sk[e].age, AgeMax) \in 0 .. AgeMax /\ Older(sk[e].quiet, QuietMax) \in 0 .. QuietMax
      BY <2>2, Numbers DEF Older, QuietMax
    <2> DEFINE a == Older(sk[e].age, AgeMax)
               q == Older(sk[e].quiet, QuietMax)
    <2> HIDE DEF a, q
    <2>4. LET t == [sk[e] EXCEPT !.age = a, !.quiet = q] IN
          /\ t \in Sockets /\ t.state = sk[e].state /\ t.timer = sk[e].timer
          /\ t.retrans = sk[e].retrans /\ t.keepalive = sk[e].keepalive
          /\ t.snd_nxt = sk[e].snd_nxt /\ t.snd_una = sk[e].snd_una
      BY <2>1, <2>3 DEF Sockets, a, q
    <2> QED
      BY <2>4 DEF a, q
  <1> HIDE DEF old
  <1>3. "s" \in Ends /\ "c" \in Ends
    BY DEF Ends
  <1>4. sk' \in [Ends -> Sockets] /\ (\A e \in Ends : sk'[e] = old(e))
    BY <1>1, <1>2
  <1>5. /\ SendWindow' = SendWindow /\ Keepalive' = Keepalive /\ (Calm' <=> Calm)
        /\ (Reliable' <=> Reliable) /\ cfg' = cfg
    BY <1>1, SameCfg
  <1>6. ServerInv'
    <2>1. /\ sk'["s"].state = sk["s"].state /\ sk'["s"].timer = sk["s"].timer
          /\ sk'["s"].retrans = sk["s"].retrans
          /\ sk'["s"].snd_nxt = sk["s"].snd_nxt /\ sk'["s"].snd_una = sk["s"].snd_una
      BY <1>2, <1>3, <1>4
    <2> QED
      BY <1>5, <2>1 DEF ServerInv, Inv, Linked, Fin2, Armed
  <1>7. ClientInv'
    <2>1. /\ sk'["c"].state = sk["c"].state /\ sk'["c"].timer = sk["c"].timer
          /\ sk'["c"].retrans = sk["c"].retrans /\ sk'["c"].keepalive = sk["c"].keepalive
          /\ sk'["c"].snd_nxt = sk["c"].snd_nxt /\ sk'["c"].snd_una = sk["c"].snd_una
      BY <1>2, <1>3, <1>4
    <2> QED
      BY <1>5, <2>1 DEF ClientInv, Inv, Linked, Fin2
  <1>8. TypeOK'
    <2>1. \A e \in Ends : sk'[e].state = SK_CLOSED => sk'[e].timer = "none"
      BY <1>2, <1>4 DEF Inv, TypeOK
    <2>2. /\ \A p \in net' : p \in Packets
          /\ phase' \in {"run", "over", "stop"} /\ {opens', faults'} \subseteq Nat /\ cfg' \in Configs
      BY <1>1 DEF Inv, TypeOK
    <2> QED
      BY <1>4, <2>1, <2>2 DEF TypeOK
  <1> QED
    BY <1>6, <1>7, <1>8 DEF Inv

(* The network and the control thread touch no socket.                     *)
LEMMA OthersKeep ==
  ASSUME Inv, Lose \/ DurationOver \/ Stop \/ UNCHANGED vars
  PROVE  Inv'
  <1>1. /\ UNCHANGED <<cfg, sk, opens>> /\ net' \subseteq net /\ faults' \in {faults, faults + 1}
        /\ phase' \in {phase, "over", "stop"}
    BY DEF Lose, DurationOver, Stop, vars
  <1>2. /\ SendWindow' = SendWindow /\ Keepalive' = Keepalive /\ (Calm' <=> Calm)
        /\ (Reliable' <=> Reliable)
    BY <1>1, SameCfg
  <1>3. ServerInv' /\ ClientInv'
    BY <1>1, <1>2 DEF ServerInv, ClientInv, Inv, Linked, Fin2, Armed
  <1>4. TypeOK'
    BY <1>1 DEF Inv, TypeOK
  <1> QED
    BY <1>3, <1>4 DEF Inv

(* The sockets after socket_table_init: closed and in no queue.            *)
LEMMA InitKeeps ==
  ASSUME Init
  PROVE  Inv
  <1>1. cfg \in Configs
    BY DEF Init
  <1>2. ASSUME NEW e \in Ends
        PROVE  /\ Socket(e) \in Sockets /\ Socket(e).state = SK_CLOSED /\ Socket(e).timer = "none"
               /\ Socket(e).keepalive = Keepalive[e]
    <2>1. /\ Keepalive[e] \in BOOLEAN /\ InitSeq[e] \in Seq /\ 0 \in Seq /\ {} \in Flags
          /\ SK_CLOSED \in States /\ 0 \in 0 .. RETRANSMIT_NUM_MAX /\ AgeMax \in 0 .. AgeMax
          /\ 0 \in 0 .. SEND_WINDOW_MAX /\ 0 \in 0 .. QuietMax /\ 0 \in Nat
      BY <1>1, CfgFacts, Numbers, FlagSets DEF Seq, States, QuietMax
    <2> QED
      BY <2>1 DEF Socket, Sockets
  <1>3. sk \in [Ends -> Sockets] /\ (\A e \in Ends : sk[e] = Socket(e)) /\ "s" \in Ends /\ "c" \in Ends
    BY <1>2 DEF Init, Ends
  <1>4. TypeOK
    BY <1>1, <1>2, <1>3 DEF Init, TypeOK
  <1>5. ServerInv /\ ClientInv
    BY <1>2, <1>3 DEF ServerInv, ClientInv, Linked, Fin2, Armed, SK_CLOSED, SK_FIN_WAIT_2
  <1> QED
    BY <1>4, <1>5 DEF Inv

(* The handlers, the timers, the network and the clock keep the invariant. *)
THEOREM HandlersKeepInv == Spec => []Inv
  <1>1. Init => Inv
    BY InitKeeps
  <1>2. ASSUME Inv, [Next]_vars PROVE Inv'
    <2>1. CASE \E e \in Ends : Receive(e) \/ ReceiveCopy(e) \/ RetransmitTimer(e)
      BY <1>2, <2>1, ReceiveKeeps, RetransmitTimerKeeps
    <2>2. CASE Launch \/ KeepaliveTimer \/ AckDelayFlush
      BY <1>2, <2>2, ClientActionsKeep
    <2>3. CASE TimeoutTimer
      BY <1>2, <2>3, TimeoutTimerKeeps
    <2>4. CASE Tick
      BY <1>2, <2>4, TickKeeps
    <2>5. CASE Lose \/ DurationOver \/ Stop \/ UNCHANGED vars
      BY <1>2, <2>5, OthersKeep
    <2> QED
      BY <1>2, <2>1, <2>2, <2>3, <2>4, <2>5, Zenon DEF Next
  <1> QED
    BY <1>1, <1>2, PTL DEF Spec

(* Types, and the discipline of the intrusive timer node: whatever arrives *)
(* in whatever order, with mbufs or without, no handler leaves a closed    *)
(* socket in a timer queue.                                                *)
THEOREM TcpTypes == Spec => []TypeOK
  <1>1. Inv => TypeOK
    BY DEF Inv
  <1> QED
    BY <1>1, HandlersKeepInv, PTL

(* An end waits in FIN_WAIT_2 only with its own FIN acknowledged           *)
(* (tcp_process_fin, tcp_check_sequence), in every configuration without a *)
(* send window in which tcp_client_process_data does not itself end the    *)
(* connection: plain keepalive with interval 0 does.                       *)
THEOREM FinWait2MeansAcked ==
  ASSUME \A c \in Configs : /\ c.window = 0
                            /\ c.http \/ c.interval > 0 \/ ~c.keepalive["c"]
  PROVE  Spec => []FinWait2Acked
  <1>1. Inv => FinWait2Acked
    <2>1. SUFFICES ASSUME Inv PROVE FinWait2Acked
      OBVIOUS
    <2>2. SendWindow = 0 /\ Calm
      BY <2>1 DEF Inv, TypeOK, SendWindow, Calm, Http, Interval, Keepalive
    <2>3. Fin2(sk["s"]) /\ Fin2(sk["c"])
      BY <2>1, <2>2 DEF Inv, ServerInv, ClientInv
    <2> QED
      BY <2>3 DEF FinWait2Acked, Fin2, Ends
  <1> QED
    BY <1>1, HandlersKeepInv, PTL

(* "server close idle sockets": while there are mbufs, an open server      *)
(* socket without a send window is always in the retransmit or in the      *)
(* timeout queue, whatever the client and the network do.                  *)
THEOREM ServerAlwaysTimed ==
  ASSUME \A c \in Configs : c.window = 0 /\ "nobuf" \notin c.faults
  PROVE  Spec => []ServerTimerArmed
  <1>1. Inv => ServerTimerArmed
    <2>1. SUFFICES ASSUME Inv PROVE ServerTimerArmed
      OBVIOUS
    <2>2. Reliable
      BY <2>1 DEF Inv, TypeOK, SendWindow, Reliable
    <2>3. Armed(sk["s"])
      BY <2>1, <2>2 DEF Inv, ServerInv
    <2> QED
      BY <2>3 DEF ServerTimerArmed, Armed
  <1> QED
    BY <1>1, HandlersKeepInv, PTL

-----------------------------------------------------------------------------
(***************************************************************************)
(* Pacing.  A server with a segment outstanding has been silent for as     *)
(* long as its timer is old, because everything it sends starts a timer at *)
(* the present time.                                                       *)
(***************************************************************************)
Outstanding(s) == s.state # SK_CLOSED /\ s.snd_nxt # s.snd_una

Aged(s) == Outstanding(s) => s.age <= s.quiet \/ s.quiet > TSC_PER_SEC

Fresh(s) == Outstanding(s) => s.age = 0

(* A step that resends only after a pause, and keeps the ages in order.    *)
Paced(w, r) ==
    /\ Aged(w.s) => Aged(r.s)
    /\ r.s.retrans > w.s.retrans => Outstanding(w.s) /\ Paused(w.s)

(* A timer that has just started is in order.                              *)
LEMMA FreshAged ==
  ASSUME NEW w, Typed(w), Fresh(w.s)
  PROVE  Aged(w.s)
  <1>1. w.s.quiet \in 0 .. QuietMax
    BY DEF Typed, Sockets
  <1>2. w.s.quiet >= 0
    BY <1>1, Numbers DEF QuietMax
  <1>3. w.s.age = 0 => w.s.age <= w.s.quiet
    BY <1>2
  <1> QED
    BY <1>3 DEF Aged, Fresh

(* Whatever a server replies starts a timer.                               *)
LEMMA ReplyFresh ==
  ASSUME cfg \in Configs, NEW w, Sane(w), NEW f \in Flags, SendWindow = 0
  PROVE  /\ Fresh(Reply(w, "s", f).s) /\ Reply(w, "s", f).s.retrans = w.s.retrans
         /\ Sane(Reply(w, "s", f))
  <1> DEFINE r == Reply(w, "s", f)
             x == Set(w, [w.s EXCEPT !.flags = f])
             y == NewPacket(x, "s", f)
  <1>1. Typed(w) /\ w.s \in Sockets /\ "s" \in Ends /\ ~Windowed("s")
    BY DEF Sane, Typed, Ends, Windowed
  <1>2. Replied(w, "s", f, r)
    BY <1>1, ReplyFacts
  <1>3. [w.s EXCEPT !.flags = f] \in Sockets
    BY <1>1 DEF Sockets
  <1>4. Typed(x) /\ x.s = [w.s EXCEPT !.flags = f] /\ x.bufs = w.bufs
    BY <1>1, <1>3, SetType
  <1>5. x.s.snd_nxt = w.s.snd_nxt /\ x.s.snd_una = w.s.snd_una
    BY <1>1, <1>4 DEF Sockets
  <1> HIDE DEF x
  <1>6. Transmitted(x, "s", f, y)
    BY <1>1, <1>4, NewPacketFacts
  <1>7. r = Set(y, Arm(y.s, "s", f))
    BY DEF Reply, x
  <1> HIDE DEF y, r
  <1>8. Typed(y) /\ y.s \in Sockets
    BY <1>6 DEF Transmitted, Typed
  <1>9. r.s = Arm(y.s, "s", f)
    BY <1>7, <1>8 DEF Set, Typed
  <1>10. CASE ~Outstanding(y.s)
    <2>1. r.s.state = y.s.state /\ r.s.snd_nxt = y.s.snd_nxt /\ r.s.snd_una = y.s.snd_una
      BY <1>1, <1>8, <1>9, <1>10 DEF Arm, AddTimer, Sockets
    <2> QED
      BY <1>2, <1>10, <2>1 DEF r, Fresh, Outstanding, Replied, Sane, Linked
  <1>11. CASE Outstanding(y.s)
    <2>1. r.s = AddTimer(y.s, IF MustBeAcked(f) THEN "retransmit" ELSE "timeout", 0)
      BY <1>1, <1>9, <1>11 DEF Arm, Outstanding
    <2>2. r.s.age = 0
      BY <1>8, <2>1 DEF AddTimer, Sockets
    <2> QED
      BY <1>2, <2>2 DEF r, Fresh, Replied, Sane, Linked
  <1> QED
    BY <1>10, <1>11

(* tcp_do_retransmit starts a timer, closes, or had nothing to resend.     *)
LEMMA DoRetransmitPaced ==
  ASSUME cfg \in Configs, NEW w, Sane(w), w.s.state # SK_CLOSED, SendWindow = 0, Paused(w.s)
  PROVE  Paced(w, DoRetransmit(w, "s"))
  <1>1. Typed(w) /\ w.s \in Sockets /\ ~Windowed("s") /\ "s" \in Ends
    BY DEF Sane, Typed, Windowed, Ends
  <1>2. CASE w.s.snd_nxt = w.s.snd_una
    <2>1. DoRetransmit(w, "s").s = [w.s EXCEPT !.retrans = 0]
      BY <1>1, <1>2 DEF DoRetransmit, Set, Typed
    <2>2. LET t == DoRetransmit(w, "s").s IN
          /\ t.retrans = 0 /\ t.snd_nxt = t.snd_una /\ w.s.retrans \in 0 .. RETRANSMIT_NUM_MAX
      BY <1>1, <1>2, <2>1 DEF Sockets
    <2> QED
      BY <2>2, Numbers DEF Paced, Aged, Outstanding
  <1>3. CASE w.s.snd_nxt # w.s.snd_una
    <2> DEFINE n == w.s.retrans + 1
               t == [w.s EXCEPT !.retrans = n]
               x == Set(w, t)
    <2>1. w.s.retrans < RETRANSMIT_NUM_MAX /\ w.s.retrans \in 0 .. RETRANSMIT_NUM_MAX
      BY <1>1 DEF Sane, Linked, Sockets
    <2>2. n \in 0 .. RETRANSMIT_NUM_MAX
      BY <2>1, Numbers
    <2> HIDE DEF n
    <2>3. t \in Sockets /\ t.state = w.s.state /\ t.retrans = n
      BY <1>1, <2>2 DEF Sockets
    <2>4. Typed(x) /\ x.s = t /\ x.bufs = w.bufs
      <3> HIDE DEF t
      <3> QED BY <1>1, <2>3, SetType
    <2> HIDE DEF x, t
    <2>5. CASE n >= RETRANSMIT_NUM_MAX
      <3>1. DoRetransmit(w, "s") = Close(x, "error")
        BY <1>3, <2>2, <2>5, Numbers DEF DoRetransmit, GiveUp, x, n, t
      <3>2. Close(x, "error").s.state = SK_CLOSED
        BY <2>3, <2>4, CloseSane
      <3> QED
        BY <1>3, <3>1, <3>2 DEF Paced, Aged, Outstanding
    <2>6. CASE n < RETRANSMIT_NUM_MAX
      <3>1. DoRetransmit(w, "s") = Reply(x, "s", w.s.flags)
        BY <1>1, <1>3, <2>2, <2>6, Numbers DEF DoRetransmit, x, n, t
      <3>2. w.s.flags \in Flags /\ Sane(x)
        BY <1>1, <2>3, <2>4, <2>6 DEF Sockets, Sane, Linked
      <3>3. Fresh(Reply(x, "s", w.s.flags).s) /\ Typed(Reply(x, "s", w.s.flags))
        BY <3>2, ReplyFresh DEF Sane
      <3>4. Aged(Reply(x, "s", w.s.flags).s)
        BY <3>3, FreshAged
      <3> QED
        BY <1>3, <3>1, <3>4 DEF Paced, Outstanding
    <2> QED
      BY <2>2, <2>5, <2>6, Numbers
  <1> QED
    BY <1>2, <1>3

(* tcp_check_sequence resends only after a pause of a second.              *)
LEMMA CheckSequencePaced ==
  ASSUME cfg \in Configs, NEW w, Sane(w), NEW p \in Packets, SendWindow = 0
  PROVE  LET c == CheckSequence(w, "s", p) IN
         /\ c.ok => c.w.s.retrans \in {0, w.s.retrans}
         /\ ~c.ok => \/ c.w = w
                     \/ w.s.state = SK_CLOSED /\ c.w.s = [w.s EXCEPT !.retrans = 0]
                     \/ w.s.state # SK_CLOSED /\ Paused(w.s) /\ c.w = DoRetransmit(w, "s")
  <1> DEFINE s == w.s
             c == CheckSequence(w, "s", p)
             len == p.len + (IF "FIN" \in p.flags THEN 1 ELSE 0)
             acked == s.snd_una # p.ack
             t1 == [s EXCEPT !.retrans = 0, !.snd_una = p.ack, !.rcv_nxt = Plus(p.seq, len),
                             !.snd_window = Grown(s, "s"),
                             !.timer = IF acked /\ ~Windowed("s") THEN "none" ELSE @]
             t2 == [s EXCEPT !.retrans = 0]
             t3 == [s EXCEPT !.rcv_nxt = Plus(p.seq, 1), !.state = SK_CLOSING]
  <1>1. Typed(w) /\ s \in Sockets /\ ~Windowed("s")
    BY DEF Sane, Typed, Windowed
  <1>2. t1.retrans = 0 /\ t3.retrans = s.retrans
    BY <1>1 DEF Sockets
  <1>3. \/ c = [ok |-> TRUE, w |-> Set(w, t1)]
        \/ c = [ok |-> TRUE, w |-> Set(w, t3)]
        \/ s.state = SK_CLOSED /\ c = [ok |-> FALSE, w |-> Set(w, t2)]
        \/ c = [ok |-> FALSE, w |-> w]
        \/ s.state # SK_CLOSED /\ Paused(s) /\ c = [ok |-> FALSE, w |-> DoRetransmit(w, "s")]
    BY <1>1 DEF CheckSequence
  <1> HIDE DEF c, t1, t3
  <1>4. ASSUME NEW t PROVE Set(w, t).s = t
    BY <1>1 DEF Set, Typed
  <1>5. /\ c.ok => c.w.s.retrans \in {0, w.s.retrans}
        /\ ~c.ok => \/ c.w = w
                    \/ w.s.state = SK_CLOSED /\ c.w.s = t2
                    \/ w.s.state # SK_CLOSED /\ Paused(w.s) /\ c.w = DoRetransmit(w, "s")
    <2> HIDE DEF t2
    <2> QED BY <1>2, <1>3, <1>4
  <1> QED
    BY <1>5 DEF c

(* The idle timeout starts at the present time.                            *)
LEMMA NothingToAnswerFresh ==
  ASSUME NEW w, Sane(w)
  PROVE  Fresh(NothingToAnswer(w).s) /\ NothingToAnswer(w).s.retrans = w.s.retrans
  <1>1. Typed(w) /\ w.s \in Sockets
    BY DEF Sane, Typed
  <1>2. CASE w.s.state = SK_CLOSED
    BY <1>2 DEF NothingToAnswer, Fresh, Outstanding
  <1>3. CASE w.s.state # SK_CLOSED
    <2> DEFINE t == AddTimer(w.s, "timeout", 0)
    <2>1. t.age = 0 /\ t.retrans = w.s.retrans
      BY <1>1 DEF AddTimer, Sockets
    <2>2. NothingToAnswer(w) = Set(w, t)
      BY <1>3 DEF NothingToAnswer
    <2> HIDE DEF t
    <2>3. Set(w, t).s = t
      BY <1>1 DEF Set, Typed
    <2> QED
      BY <2>1, <2>2, <2>3 DEF Fresh
  <1> QED
    BY <1>2, <1>3

(* The work that tcp_server_process_data answers, after a segment passed.  *)
Answered(w, f, r) ==
    /\ Sane(f.w) /\ f.tx \in Flags
    /\ f.w.s.retrans \in {0, w.s.retrans}
    /\ r = IF f.tx # {} THEN Reply(f.w, "s", f.tx) ELSE NothingToAnswer(f.w)

(* tcp_server_process_data without a send window ends in one answer.       *)
LEMMA ServerAnswers ==
  ASSUME cfg \in Configs, NEW w, Sane(w), NEW p \in Packets, SendWindow = 0,
         CheckSequence(w, "s", p).ok
  PROVE  \E f : Answered(w, f, ServerProcessData(w, p))
  <1> DEFINE r == ServerProcessData(w, p)
             c == CheckSequence(w, "s", p)
             st == IF c.w.s.state < SK_ESTABLISHED THEN SK_ESTABLISHED ELSE c.w.s.state
             x == Set(c.w, [c.w.s EXCEPT !.state = st])
             q == Set(x, [x.s EXCEPT !.id = p.id, !.got = @ + 1])
             fin == IF x.s.keepalive THEN {} ELSE FIN
             f == IF x.s.state = SK_ESTABLISHED /\ p.len > 0
                  THEN MaybeFin(q, p.flags, PUSH \cup ACK \cup fin) ELSE MaybeFin(x, p.flags, {})
  <1>1. CheckedSeq(w, "s", c) /\ c.w.s.retrans \in {0, w.s.retrans}
    BY CheckSequenceFacts, CheckSequencePaced DEF Ends
  <1>2. "s" \in Ends /\ p.flags \in Flags /\ ~Windowed("s")
    BY DEF Ends, Packets, Windowed
  <1>3. r = IF f.tx # {} THEN Reply(f.w, "s", f.tx) ELSE NothingToAnswer(f.w)
    BY <1>2 DEF ServerProcessData, ServerTakeRequest
  <1>4. Sane(c.w) /\ c.w.s.state # SK_CLOSED /\ c.w.bufs = w.bufs
    BY <1>1 DEF CheckedSeq
  <1> HIDE DEF c
  <1>5. c.w.s \in Sockets /\ Typed(c.w) /\ c.w.s.retrans < RETRANSMIT_NUM_MAX
    BY <1>4 DEF Sane, Typed, Linked
  <1>6. st \in States \ {SK_CLOSED}
    BY <1>4, <1>5 DEF Sockets, States, SK_CLOSED, SK_SYN_SENT, SK_SYN_RECEIVED, SK_ESTABLISHED
  <1> HIDE DEF st
  <1>7. /\ [c.w.s EXCEPT !.state = st] \in Sockets
        /\ [c.w.s EXCEPT !.state = st].state = st
        /\ [c.w.s EXCEPT !.state = st].retrans = c.w.s.retrans
    BY <1>5, <1>6 DEF Sockets
  <1>8. Sane(x) /\ x.bufs = w.bufs /\ x.s.retrans = c.w.s.retrans
    <2>1. Linked([c.w.s EXCEPT !.state = st])
      BY <1>5, <1>6, <1>7 DEF Linked
    <2> QED
      BY <1>4, <1>5, <1>7, <2>1, SetSane
  <1> HIDE DEF x
  <1> DEFINE tx == IF x.s.state = SK_ESTABLISHED /\ p.len > 0 THEN PUSH \cup ACK \cup fin ELSE {}
             y == IF x.s.state = SK_ESTABLISHED /\ p.len > 0 THEN q ELSE x
  <1>9. tx \in Flags
    BY FlagSets
  <1>10. Sane(y) /\ y.bufs = w.bufs /\ y.s.retrans = c.w.s.retrans
    <2> DEFINE t == [x.s EXCEPT !.id = p.id, !.got = @ + 1]
    <2>1. x.s \in Sockets /\ Typed(x)
      BY <1>8 DEF Sane, Typed
    <2>2. /\ t \in Sockets /\ t.state = x.s.state /\ t.retrans = x.s.retrans
          /\ t.timer = x.s.timer
      <3>1. p.id \in Nat /\ x.s.got + 1 \in Nat
        BY <2>1 DEF Sockets, Packets
      <3> QED
        BY <2>1, <3>1 DEF Sockets
    <2>3. Linked(t)
      BY <1>8, <2>2 DEF Sane, Linked
    <2> HIDE DEF t
    <2>4. Sane(Set(x, t)) /\ Set(x, t).s = t /\ Set(x, t).bufs = x.bufs
      BY <2>1, <2>2, <2>3, SetSane
    <2> QED
      BY <1>8, <2>2, <2>4 DEF t
  <1>11. f = MaybeFin(y, p.flags, tx)
    OBVIOUS
  <1> HIDE DEF f, y, tx
  <1>12. Finned(y, tx, f)
    BY <1>2, <1>9, <1>10, <1>11, MaybeFinFacts
  <1>13. Sane(f.w) /\ f.tx \in Flags /\ f.w.bufs = w.bufs
    BY <1>10, <1>12 DEF Finned
  <1>14. f.w.s.retrans = y.s.retrans
    BY <1>10, <1>11, MaybeFinKeeps DEF Sane
  <1>15. f.w.s.retrans \in {0, w.s.retrans}
    BY <1>1, <1>10, <1>14
  <1>16. Answered(w, f, r)
    BY <1>3, <1>13, <1>15 DEF Answered
  <1> HIDE DEF r
  <1>17. \E g : Answered(w, g, r)
    BY <1>16
  <1> QED
    BY <1>17 DEF r

(* tcp_server_process_data.                                                *)
LEMMA ServerProcessDataPaced ==
  ASSUME cfg \in Configs, NEW w, Sane(w), NEW p \in Packets, SendWindow = 0
  PROVE  Paced(w, ServerProcessData(w, p))
  <1> DEFINE r == ServerProcessData(w, p)
             c == CheckSequence(w, "s", p)
  <1>1. w.s \in Sockets /\ w.s.retrans \in Nat
    <2>1. w.s.retrans \in 0 .. RETRANSMIT_NUM_MAX
      BY DEF Sane, Typed, Sockets
    <2> QED
      BY <2>1, Numbers DEF Sane, Typed
  <1>2. CASE c.ok
    <2>1. PICK f : Answered(w, f, r)
      BY <1>2, ServerAnswers
    <2> HIDE DEF r
    <2>2. Sane(f.w) /\ f.tx \in Flags /\ f.w.s.retrans \in {0, w.s.retrans}
      BY <2>1 DEF Answered
    <2>3. Fresh(r.s) /\ r.s.retrans = f.w.s.retrans /\ Typed(r)
      <3>1. CASE f.tx # {}
        BY <2>1, <2>2, <3>1, ReplyFresh DEF Answered, Sane
      <3>2. CASE f.tx = {}
        BY <2>1, <2>2, <3>2, NothingToAnswerFresh, NothingToAnswerFacts DEF Answered, Sane
      <3> QED
        BY <3>1, <3>2
    <2>4. Aged(r.s) /\ ~(r.s.retrans > w.s.retrans)
      BY <1>1, <2>2, <2>3, FreshAged
    <2>5. Paced(w, r)
      BY <2>4 DEF Paced
    <2> QED
      BY <2>5 DEF r
  <1>3. CASE ~c.ok
    <2>1. r = c.w
      BY <1>3 DEF ServerProcessData
    <2>2. \/ c.w = w
          \/ w.s.state = SK_CLOSED /\ c.w.s = [w.s EXCEPT !.retrans = 0]
          \/ w.s.state # SK_CLOSED /\ Paused(w.s) /\ c.w = DoRetransmit(w, "s")
      BY <1>3, CheckSequencePaced
    <2> HIDE DEF c, r
    <2>3. Paced(w, r)
      <3>1. CASE c.w = w
        BY <1>1, <2>1, <3>1 DEF Paced
      <3>2. CASE w.s.state = SK_CLOSED /\ c.w.s = [w.s EXCEPT !.retrans = 0]
        <4>1. r.s.retrans = 0 /\ r.s.state = SK_CLOSED
          BY <1>1, <2>1, <3>2 DEF Sockets
        <4> QED
          BY <1>1, <4>1 DEF Paced, Aged, Outstanding
      <3>3. CASE w.s.state # SK_CLOSED /\ Paused(w.s) /\ c.w = DoRetransmit(w, "s")
        BY <2>1, <3>3, DoRetransmitPaced
      <3> QED
        BY <2>2, <3>1, <3>2, <3>3
    <2> QED
      BY <2>3 DEF r
  <1> QED
    BY <1>2, <1>3

(* tcp_server_process: whatever segment arrives.                           *)
LEMMA ServerProcessPaced ==
  ASSUME cfg \in Configs, NEW w, Sane(w), NEW p \in Packets, SendWindow = 0
  PROVE  Paced(w, Process(w, "s", p))
  <1>1. Process(w, "s", p) \in {ServerProcessData(w, p), ServerProcessSyn(w, p), ProcessRst(w), w}
    BY DEF Process, SYN, RST, ACK
  <1>2. Typed(w) /\ w.s \in Sockets /\ SYN \cup ACK \in Flags
    BY FlagSets DEF Sane, Typed
  <1>3. w.s.retrans \in Nat
    <2>1. w.s.retrans \in 0 .. RETRANSMIT_NUM_MAX
      BY <1>2 DEF Sockets
    <2> QED
      BY <2>1, Numbers
  <1>4. ASSUME NEW x, Sane(x), x.s.retrans \in {0, w.s.retrans}
        PROVE  Paced(w, Reply(x, "s", SYN \cup ACK))
    <2> DEFINE y == Reply(x, "s", SYN \cup ACK)
    <2>1. Fresh(y.s) /\ y.s.retrans = x.s.retrans /\ Typed(y)
      BY <1>2, <1>4, ReplyFresh DEF Sane
    <2> HIDE DEF y
    <2>2. Aged(y.s) /\ ~(y.s.retrans > w.s.retrans)
      BY <1>3, <1>4, <2>1, FreshAged
    <2>3. Paced(w, y)
      BY <2>2 DEF Paced
    <2> QED
      BY <2>3 DEF y
  <1>5. Paced(w, w)
    BY <1>3 DEF Paced
  <1>6. Paced(w, ServerProcessSyn(w, p))
    <2>1. CASE w.s.state = SK_CLOSED
      <3> DEFINE x == Opened(w, p)
      <3>1. ServerProcessSyn(w, p) = ServerOpen(w, p)
        BY <2>1 DEF ServerProcessSyn, SK_SYN_RECEIVED, SK_CLOSED
      <3>2. /\ Sane(x) /\ x.bufs = w.bufs /\ x.s.retrans = 0
            /\ ServerOpen(w, p) = Reply(x, "s", SYN \cup ACK)
        BY OpenedFacts
      <3> HIDE DEF x
      <3>3. x.s.retrans \in {0, w.s.retrans}
        BY <3>2
      <3>4. Paced(w, Reply(x, "s", SYN \cup ACK))
        BY <1>4, <3>2, <3>3
      <3> QED
        BY <3>1, <3>2, <3>4
    <2>2. CASE w.s.state # SK_CLOSED
      <3>1. ServerProcessSyn(w, p) \in {w, Reply(w, "s", SYN \cup ACK)}
        BY <2>2 DEF ServerProcessSyn
      <3> QED
        BY <1>4, <1>5, <3>1
    <2> QED
      BY <2>1, <2>2
  <1>7. Paced(w, ProcessRst(w))
    <2>1. (w.s.state = SK_CLOSED => w.s.timer = "none")
      BY DEF Sane, Linked
    <2>2. Close(w, "rst").s.state = SK_CLOSED /\ Close(w, "rst").s.retrans = w.s.retrans
      BY <1>2, <2>1, CloseSane, CloseKeeps
    <2> QED
      BY <1>3, <2>2 DEF ProcessRst, Paced, Aged, Outstanding
  <1> QED
    BY <1>1, <1>5, <1>6, <1>7, ServerProcessDataPaced

(* The server's retransmit timer takes longer than a second to expire.     *)
LEMMA ServerRetransmitPaced ==
  ASSUME cfg \in Configs, NEW w, Sane(w), SendWindow = 0,
         w.s.timer = "retransmit", Paused(w.s)
  PROVE  Paced(w, DoRetransmit(Unlink(w), "s"))
  <1> DEFINE x == Unlink(w)
  <1>1. w.s.state # SK_CLOSED /\ w.s \in Sockets /\ Typed(w)
    BY DEF Sane, Linked, Typed
  <1>2. /\ Sane(x) /\ x.s.state = w.s.state
        /\ x.s.snd_nxt = w.s.snd_nxt /\ x.s.snd_una = w.s.snd_una
    BY <1>1, UnlinkFacts
  <1>3. x.s.age = w.s.age /\ x.s.quiet = w.s.quiet /\ x.s.retrans = w.s.retrans
    BY <1>1 DEF Unlink, Set, Typed, Sockets
  <1> HIDE DEF x
  <1>4. Paced(x, DoRetransmit(x, "s"))
    <2>1. Paused(x.s) /\ x.s.state # SK_CLOSED
      BY <1>1, <1>2, <1>3 DEF Paused
    <2> QED
      BY <1>2, <2>1, DoRetransmitPaced
  <1>5. Paced(w, DoRetransmit(x, "s"))
    BY <1>2, <1>3, <1>4 DEF Paced, Aged, Outstanding
  <1> QED
    BY <1>5 DEF x

(* The idle timeout resends nothing.                                       *)
LEMMA TimeoutPaced ==
  ASSUME NEW w, Sane(w), w.s.timer = "timeout"
  PROVE  Paced(w, GiveUp(Unlink(w)))
  <1> DEFINE x == Unlink(w)
  <1>1. w.s.state # SK_CLOSED /\ w.s \in Sockets /\ Typed(w)
    BY DEF Sane, Linked, Typed
  <1>2. Sane(x) /\ x.s.state = w.s.state
    BY <1>1, UnlinkFacts
  <1>3. x.s.retrans = w.s.retrans
    BY <1>1 DEF Unlink, Set, Typed, Sockets
  <1>4. w.s.retrans \in 0 .. RETRANSMIT_NUM_MAX
    BY <1>1 DEF Sockets
  <1> HIDE DEF x
  <1>5. Close(x, "error").s.state = SK_CLOSED /\ Close(x, "error").s.retrans = x.s.retrans
    BY <1>1, <1>2, CloseSane, CloseKeeps DEF Sane
  <1>6. Paced(w, GiveUp(x))
    BY <1>3, <1>4, <1>5, Numbers DEF Paced, Aged, Outstanding, GiveUp
  <1> QED
    BY <1>6 DEF x

(* A paced step of the server's worker.                                    *)
LEMMA PacedStep ==
  ASSUME Inv, Aged(sk["s"]), NEW w, w.s = sk["s"], NEW r, Paced(w, r),
         sk' = [sk EXCEPT !["s"] = r.s]
  PROVE  Aged(sk'["s"]) /\ Rested("s")
  <1>1. sk["s"] \in Sockets /\ sk'["s"] = r.s
    BY DEF Inv, TypeOK, Ends
  <1>2. sk["s"].age \in 0 .. AgeMax /\ sk["s"].quiet \in 0 .. QuietMax
    BY <1>1 DEF Sockets
  <1>3. sk["s"].age \in Int /\ sk["s"].quiet \in Int /\ TSC_PER_SEC \in Int
    BY <1>2, Numbers DEF QuietMax
  <1>4. Aged(r.s)
    BY DEF Paced
  <1>5. ASSUME r.s.retrans > sk["s"].retrans
        PROVE  sk["s"].quiet > TSC_PER_SEC
    <2>1. Outstanding(sk["s"]) /\ sk["s"].age > TSC_PER_SEC
      BY <1>5 DEF Paced, Paused
    <2>2. sk["s"].age <= sk["s"].quiet \/ sk["s"].quiet > TSC_PER_SEC
      BY <2>1 DEF Aged
    <2> QED
      BY <1>3, <2>1, <2>2
  <1> QED
    BY <1>1, <1>4, <1>5 DEF Rested

(* Every step of the system is paced on the server's side.                 *)
LEMMA StepPaced ==
  ASSUME Inv, SendWindow = 0, Aged(sk["s"]), [Next]_vars
  PROVE  Aged(sk'["s"]) /\ Rested("s")
  <1>1. cfg \in Configs /\ sk["s"] \in Sockets /\ "s" \in Ends /\ "c" \in Ends
    BY DEF Inv, TypeOK, Ends
  <1>2. Enough \in Nat /\ Enough > 0 /\ TSC_PER_SEC \in Int
    BY BeginFacts, Numbers
  <1>3. sk["s"].retrans \in Int /\ sk["s"].age \in 0 .. AgeMax /\ sk["s"].quiet \in 0 .. QuietMax
    <2>1. /\ sk["s"].retrans \in 0 .. RETRANSMIT_NUM_MAX /\ sk["s"].age \in 0 .. AgeMax
          /\ sk["s"].quiet \in 0 .. QuietMax
      BY <1>1 DEF Sockets
    <2> QED
      BY <2>1, Numbers
  <1>4. ASSUME sk'["s"] = sk["s"] PROVE Aged(sk'["s"]) /\ Rested("s")
    BY <1>3, <1>4 DEF Rested
  <1>5. ASSUME NEW b, NEW gone, NEW v, Ran("c", b, gone, v) PROVE sk'["s"] = sk["s"]
    BY <1>5 DEF Ran, Inv, TypeOK, Ends
  <1>6. ASSUME NEW b \in 0 .. Enough, NEW gone, NEW v, Ran("s", b, gone, v)
        PROVE  /\ Sane(Begin("s", b)) /\ Begin("s", b).s = sk["s"]
               /\ sk' = [sk EXCEPT !["s"] = v.s]
    <2>1. b \in Nat /\ sk' = [sk EXCEPT !["s"] = v.s]
      BY <1>2, <1>6 DEF Ran
    <2> QED
      BY <1>1, <2>1, BeginFacts DEF Fit
  <1>7. CASE \E e \in Ends : Receive(e) \/ ReceiveCopy(e)
    <2>1. PICK e \in Ends : Receive(e) \/ ReceiveCopy(e)
      BY <1>7
    <2>2. PICK p \in net, b \in 0 .. Enough, gone \in SUBSET net :
             Ran(e, b, gone, Process(Begin(e, b), e, p))
      BY <2>1, ReceiveRuns
    <2>3. CASE e = "c"
      BY <1>4, <1>5, <2>2, <2>3
    <2>4. CASE e = "s"
      <3> DEFINE w == Begin("s", b)
                 r == Process(w, "s", p)
      <3>1. Sane(w) /\ w.s = sk["s"] /\ sk' = [sk EXCEPT !["s"] = r.s]
        BY <1>6, <2>2, <2>4
      <3>2. p \in Packets
        BY DEF Inv, TypeOK
      <3> HIDE DEF w
      <3>3. Paced(w, r)
        BY <1>1, <3>1, <3>2, ServerProcessPaced
      <3> HIDE DEF r
      <3> QED
        BY <3>1, <3>3, PacedStep
    <2> QED
      BY <2>3, <2>4 DEF Ends
  <1>8. CASE \E e \in Ends : RetransmitTimer(e)
    <2>1. PICK e \in Ends : RetransmitTimer(e)
      BY <1>8
    <2>2. PICK b \in 0 .. Enough : Ran(e, b, {}, DoRetransmit(Unlink(Begin(e, b)), e))
      BY <2>1, RetransmitRuns
    <2>3. CASE e = "c"
      BY <1>4, <1>5, <2>2, <2>3
    <2>4. CASE e = "s"
      <3> DEFINE w == Begin("s", b)
                 r == DoRetransmit(Unlink(w), "s")
      <3>1. Sane(w) /\ w.s = sk["s"] /\ sk' = [sk EXCEPT !["s"] = r.s]
        BY <1>6, <2>2, <2>4
      <3>2. sk["s"].timer = "retransmit" /\ sk["s"].age >= RTO + RTO \div 10
        BY <2>1, <2>4 DEF RetransmitTimer, Expired, Timeout
      <3>3. sk["s"].age > TSC_PER_SEC
        <4>1. RTO \in Nat /\ RTO >= 2 * TSC_PER_SEC
          BY <1>1, CfgFacts, TcpAssumption DEF RTO
        <4>2. RTO \div 10 \in Nat
          BY <4>1
        <4>3. sk["s"].age \in Nat /\ TSC_PER_SEC \in Nat \ {0}
          BY <1>3, Numbers
        <4> QED
          BY <3>2, <4>1, <4>2, <4>3
      <3> HIDE DEF w
      <3>4. Paced(w, r)
        BY <1>1, <3>1, <3>2, <3>3, ServerRetransmitPaced DEF Paused
      <3> HIDE DEF r
      <3> QED
        BY <3>1, <3>4, PacedStep
    <2> QED
      BY <2>3, <2>4 DEF Ends
  <1>9. CASE TimeoutTimer
    <2>1. PICK b \in 0 .. Enough : Ran("s", b, {}, GiveUp(Unlink(Begin("s", b))))
      BY <1>9, TimeoutRuns
    <2> DEFINE w == Begin("s", b)
               r == GiveUp(Unlink(w))
    <2>2. Sane(w) /\ w.s = sk["s"] /\ sk' = [sk EXCEPT !["s"] = r.s]
      BY <1>6, <2>1
    <2>3. sk["s"].timer = "timeout"
      BY <1>9 DEF TimeoutTimer, Expired
    <2> HIDE DEF w
    <2>4. Paced(w, r)
      BY <2>2, <2>3, TimeoutPaced
    <2> HIDE DEF r
    <2> QED
      BY <2>2, <2>4, PacedStep
  <1>10. CASE Launch \/ KeepaliveTimer \/ AckDelayFlush
    <2>1. \E v : sk' = [sk EXCEPT !["c"] = v]
      BY <1>10, Zenon DEF Launch, KeepaliveTimer, AckDelayFlush, Step
    <2>2. sk'["s"] = sk["s"]
      BY <2>1 DEF Inv, TypeOK, Ends
    <2> QED
      BY <1>4, <2>2
  <1>11. CASE Tick
    <2> DEFINE old(e) == [sk[e] EXCEPT !.age = Older(@, AgeMax), !.quiet = Older(@, QuietMax)]
               t == old("s")
    <2>1. sk'["s"] = t
      <3>1. sk' = [e \in Ends |-> old(e)]
        BY <1>11, Zenon DEF Tick
      <3> HIDE DEF old
      <3> QED
        BY <1>1, <3>1
    <2>2. /\ t.age = Older(sk["s"].age, AgeMax) /\ t.quiet = Older(sk["s"].quiet, QuietMax)
          /\ t.state = sk["s"].state /\ t.retrans = sk["s"].retrans
          /\ t.snd_nxt = sk["s"].snd_nxt /\ t.snd_una = sk["s"].snd_una
      BY <1>1 DEF Sockets
    <2> HIDE DEF t
    <2>3. /\ sk["s"].age <= sk["s"].quiet =>
                \/ Older(sk["s"].age, AgeMax) <= Older(sk["s"].quiet, QuietMax)
                \/ Older(sk["s"].quiet, QuietMax) > TSC_PER_SEC
          /\ sk["s"].quiet > TSC_PER_SEC => Older(sk["s"].quiet, QuietMax) > TSC_PER_SEC
      BY <1>3, Numbers DEF Older, QuietMax
    <2>4. Aged(t)
      BY <2>2, <2>3 DEF Aged, Outstanding
    <2> QED
      BY <1>3, <2>1, <2>2, <2>4 DEF Rested
  <1>12. CASE Lose \/ DurationOver \/ Stop \/ UNCHANGED vars
    BY <1>4, <1>12 DEF Lose, DurationOver, Stop, vars
  <1> QED
    BY <1>7, <1>8, <1>9, <1>10, <1>11, <1>12, Zenon DEF Next

(* A server without a send window resends nothing before the peer has had  *)
(* a second to answer, from its timer or from tcp_check_sequence, and      *)
(* whether or not there are mbufs: the server's half of                    *)
(* RetransmitPacedShort.  It rests on RTO_MIN.                             *)
THEOREM ServerResendsPaced == Spec => [][~Windowed("s") => Rested("s")]_vars
  <1> DEFINE J == SendWindow = 0 => Aged(sk["s"])
  <1>1. Init => J
    <2>1. SUFFICES ASSUME Init PROVE Aged(sk["s"])
      OBVIOUS
    <2>2. sk["s"].state = SK_CLOSED
      BY <2>1 DEF Init, Ends, Socket
    <2> QED
      BY <2>2 DEF Aged, Outstanding
  <1>2. ASSUME Inv, J, [Next]_vars PROVE J' /\ (~Windowed("s") => Rested("s"))
    <2>1. cfg' = cfg
      <3>1. CASE Next
        BY <3>1, Zenon DEF Next, Receive, ReceiveCopy, RetransmitTimer, Launch, KeepaliveTimer,
           TimeoutTimer, AckDelayFlush, Lose, Tick, DurationOver, Stop
      <3>2. CASE UNCHANGED vars
        BY <3>2 DEF vars
      <3> QED
        BY <1>2, <3>1, <3>2
    <2>2. SendWindow' = SendWindow /\ (~Windowed("s") => SendWindow = 0)
      <3>1. SendWindow \in Nat
        BY <1>2, CfgFacts DEF Inv, TypeOK
      <3> QED
        BY <2>1, <3>1 DEF SendWindow, Windowed
    <2>3. SendWindow = 0 => Aged(sk'["s"]) /\ Rested("s")
      BY <1>2, StepPaced
    <2> QED
      BY <2>2, <2>3 DEF Aged, Outstanding
  <1> QED
    BY <1>1, <1>2, HandlersKeepInv, PTL DEF Spec
=============================================================================
