---------------------------- MODULE TcpDelivery ----------------------------
(***************************************************************************)
(* Delivery is exactly once.  tcp_check_sequence keeps one number a side:  *)
(* it takes a segment that starts at rcv_nxt and acknowledges snd_nxt, and *)
(* an end sends new data only when nothing is outstanding.  This module    *)
(* proves that the two numbers are enough, whatever the network loses,     *)
(* copies or delays, across any number of connections of a four-tuple, and *)
(* whether or not there are mbufs: the server serves a request once, and a *)
(* response the client takes answers the request it sent last.             *)
(*                                                                         *)
(* Two hypotheses: no send_window (stop and wait), and sequence numbers    *)
(* that do not pass SeqMod during the test (Unwrapped): the numbers of     *)
(* consecutive connections go up, and the proof orders all data by them.   *)
(***************************************************************************)
EXTENDS TcpProofs

(* There is room for what one handler sends.                               *)
Room == ReqLen + RspLen + 3

Unwrapped == \A e \in Ends : sk[e].snd_nxt + Room < SeqMod

(* The sequence number behind a segment.                                   *)
End(p) == p.seq + SegLen(p.from, p.flags)

(* The data segments of an end in the network ...                          *)
SentData(e, n) == {p \in n : p.from = e /\ "PUSH" \in p.flags}

(* ... and the one that tcp_do_retransmit would send.                      *)
Pending(s, e) ==
    IF "PUSH" \in s.flags /\ s.snd_una # s.snd_nxt THEN {Segment(s, e, s.flags)} ELSE {}

Data(s, e, n) == SentData(e, n) \cup Pending(s, e)

(* The numbers of an end with socket s, whose peer has socket o, bound     *)
(* what is in the network n.                                               *)
Bounded(s, o, e, n) ==
    /\ s.snd_una <= s.snd_nxt
    /\ s.snd_una # s.snd_nxt => s.snd_una + SegLen(e, s.flags) <= s.snd_nxt
    /\ "URG" \notin s.flags
    /\ o.rcv_nxt <= s.snd_nxt
    /\ \A p \in n : p.from = e =>
          p.len = DataLen(e, p.flags) /\ End(p) <= s.snd_nxt /\ "URG" \notin p.flags
    /\ \A p \in n : p.from = Other(e) => p.ack <= s.snd_nxt

(* Requests dc and responses ds, in flight or to be sent again, are told   *)
(* apart by their numbers.  A request the server would take is one it has  *)
(* not served ...                                                          *)
NotServedYet(s, dc) ==
    \A p \in dc : p.ack = s.snd_nxt /\ p.seq >= s.rcv_nxt => p.id > s.id

RequestsNumbered(c, s, dc) ==
    /\ s.id <= c.id /\ c.rid <= c.id
    /\ \A p \in dc : p.id <= c.id
    /\ \A p, q \in dc : p.seq < q.seq => p.id < q.id

(* ... the request that ends at the client's snd_nxt is its last one, and  *)
(* acknowledges less once it is answered ...                               *)
LastRequest(c, dc) ==
    \A p \in dc : End(p) = c.snd_nxt =>
        /\ p.ack <= c.rcv_nxt /\ p.id = c.id
        /\ c.rid = c.id => p.ack < c.rcv_nxt

(* ... and a response the client would take answers that request, which is *)
(* not answered yet; there is one place for it.                            *)
LastResponse(c, ds) ==
    \A q \in ds : q.ack = c.snd_nxt /\ q.seq >= c.rcv_nxt =>
        /\ q.id = c.id /\ c.rid < c.id
        /\ \A r \in ds : r.ack = c.snd_nxt /\ r.seq >= c.rcv_nxt => r.seq = q.seq

(* Before the handshake is over everything in flight is old.               *)
OldBeforeOpen(c, dc, ds) ==
    c.state = SK_SYN_SENT =>
        /\ \A p \in dc : End(p) < c.snd_nxt
        /\ \A q \in ds : q.ack < c.snd_nxt

Order(c, s, dc, ds) ==
    /\ NotServedYet(s, dc) /\ RequestsNumbered(c, s, dc)
    /\ LastRequest(c, dc) /\ LastResponse(c, ds)
    /\ OldBeforeOpen(c, dc, ds)

(* What is known of the data segments of an end.                           *)
DataBounds(s, o, e, d) ==
    \A p \in d : /\ p \in Packets /\ p.from = e /\ "PUSH" \in p.flags
                 /\ p.seq < End(p) /\ End(p) <= s.snd_nxt /\ p.ack <= o.snd_nxt

(* The invariant of the two sockets and the network.                       *)
Delivery(c, s, n) ==
    /\ Bounded(c, s, "c", n) /\ Bounded(s, c, "s", n)
    /\ Order(c, s, Data(c, "c", n), Data(s, "s", n))

-----------------------------------------------------------------------------
(* Numbers of sockets and packets are numbers.                             *)
LEMMA SocketNumbers ==
  ASSUME NEW s \in Sockets
  PROVE  /\ s.snd_nxt \in Nat /\ s.snd_una \in Nat /\ s.rcv_nxt \in Nat
         /\ s.snd_nxt < SeqMod /\ s.id \in Nat /\ s.rid \in Nat /\ s.flags \in Flags
         /\ s.snd_nxt \in Seq /\ s.snd_una \in Seq /\ s.rcv_nxt \in Seq
  BY Numbers DEF Sockets, Seq

(* ... and of packets.                                                     *)
LEMMA PacketNumbers ==
  ASSUME NEW p \in Packets
  PROVE  /\ p.seq \in Nat /\ p.ack \in Nat /\ p.id \in Nat /\ p.len \in Nat
         /\ p.flags \in Flags /\ p.from \in Ends /\ End(p) \in Nat
         /\ p.seq \in Seq /\ p.ack \in Seq
  <1>1. /\ p.seq \in Nat /\ p.ack \in Nat /\ p.id \in Nat /\ p.len \in Nat
        /\ p.flags \in Flags /\ p.from \in Ends /\ p.seq \in Seq /\ p.ack \in Seq
    BY Numbers DEF Packets, Seq
  <1>2. SegLen(p.from, p.flags) \in Nat
    BY <1>1, LengthType
  <1> QED
    BY <1>1, <1>2 DEF End

-----------------------------------------------------------------------------
(* The steps of the server on the order of the data.  It may send anything *)
(* that is not data, and open anew: what acknowledges its old snd_nxt does *)
(* not acknowledge its new one.                                            *)
LEMMA ServerGoesOn ==
  ASSUME NEW c \in Sockets, NEW s \in Sockets, NEW t \in Sockets, NEW dc, NEW ds, NEW es,
         Order(c, s, dc, ds), DataBounds(c, s, "c", dc), es \subseteq ds, t.id <= c.id,
         \/ t.snd_nxt > s.snd_nxt
         \/ t.snd_nxt = s.snd_nxt /\ t.id = s.id /\ t.rcv_nxt >= s.rcv_nxt
  PROVE  Order(c, t, dc, es)
  <1>1. /\ s.snd_nxt \in Nat /\ t.snd_nxt \in Nat /\ s.rcv_nxt \in Nat /\ t.rcv_nxt \in Nat
        /\ s.id \in Nat /\ t.id \in Nat
    BY SocketNumbers
  <1>2. \A p \in dc : p.ack \in Nat /\ p.seq \in Nat /\ p.id \in Nat /\ p.ack <= s.snd_nxt
    BY PacketNumbers DEF DataBounds
  <1>3. NotServedYet(t, dc)
    BY <1>1, <1>2 DEF Order, NotServedYet
  <1>4. RequestsNumbered(c, t, dc) /\ LastRequest(c, dc)
    BY DEF Order, RequestsNumbered
  <1>5. LastResponse(c, es) /\ OldBeforeOpen(c, dc, es)
    BY DEF Order, LastResponse, OldBeforeOpen
  <1> QED
    BY <1>3, <1>4, <1>5 DEF Order

(* The server takes a request: those behind it have later numbers.         *)
LEMMA ServerTakes ==
  ASSUME NEW c \in Sockets, NEW s \in Sockets, NEW t \in Sockets, NEW dc, NEW ds, NEW es,
         Order(c, s, dc, ds), DataBounds(c, s, "c", dc), es \subseteq ds,
         NEW p \in dc, t.snd_nxt = s.snd_nxt, t.rcv_nxt = End(p), t.id = p.id
  PROVE  Order(c, t, dc, es)
  <1>1. \A q \in dc : q.seq \in Nat /\ q.id \in Nat /\ End(q) \in Nat /\ q.seq < End(q)
    BY PacketNumbers DEF DataBounds
  <1>2. NotServedYet(t, dc)
    <2>1. SUFFICES ASSUME NEW q \in dc, q.seq >= t.rcv_nxt PROVE q.id > t.id
      BY DEF NotServedYet
    <2>2. p.seq < q.seq
      BY <1>1, <2>1
    <2>3. p.id < q.id
      BY <2>2 DEF Order, RequestsNumbered
    <2> QED
      BY <1>1, <2>3
  <1>3. RequestsNumbered(c, t, dc) /\ LastRequest(c, dc)
    BY DEF Order, RequestsNumbered
  <1>4. LastResponse(c, es) /\ OldBeforeOpen(c, dc, es)
    BY DEF Order, LastResponse, OldBeforeOpen
  <1> QED
    BY <1>2, <1>3, <1>4 DEF Order

(* The server sends the response q to the request p it has just taken: if  *)
(* the client would take q, then p was its last request.                   *)
LEMMA ServerResponds ==
  ASSUME NEW c \in Sockets, NEW s \in Sockets, NEW t \in Sockets, NEW dc, NEW ds, NEW es,
         Order(c, s, dc, ds), DataBounds(c, s, "c", dc), DataBounds(s, c, "s", ds),
         c.rcv_nxt <= s.snd_nxt,
         t.snd_nxt > s.snd_nxt, t.id = s.id,
         NEW p \in dc, p.id = s.id, End(p) = s.rcv_nxt, p.ack = s.snd_nxt,
         NEW q \in Packets, q.seq = s.snd_nxt, q.ack = s.rcv_nxt, q.id = s.id,
         es \subseteq ds \cup {q}
  PROVE  Order(c, t, dc, es)
  <1>1. /\ s.snd_nxt \in Nat /\ t.snd_nxt \in Nat /\ s.rcv_nxt \in Nat
        /\ s.id \in Nat /\ c.id \in Nat /\ c.rid \in Nat /\ c.rcv_nxt \in Nat /\ c.snd_nxt \in Nat
    BY SocketNumbers
  <1>2. \A r \in ds : r.ack \in Nat /\ r.seq \in Nat /\ End(r) \in Nat /\ r.seq < s.snd_nxt
    <2>1. SUFFICES ASSUME NEW r \in ds
                   PROVE  r.ack \in Nat /\ r.seq \in Nat /\ End(r) \in Nat /\ r.seq < s.snd_nxt
      OBVIOUS
    <2>2. r \in Packets /\ r.seq < End(r) /\ End(r) <= s.snd_nxt
      BY DEF DataBounds
    <2> QED
      BY <1>1, <2>2, PacketNumbers
  <1>3. s.id <= c.id /\ c.rid <= c.id
    BY DEF Order, RequestsNumbered
  <1>4. Order(c, t, dc, ds)
    BY <1>1, <1>3, ServerGoesOn
  <1>5. ASSUME q.ack = c.snd_nxt, q.seq >= c.rcv_nxt
        PROVE  /\ q.id = c.id /\ c.rid < c.id
               /\ \A r \in ds : ~(r.ack = c.snd_nxt /\ r.seq >= c.rcv_nxt)
    <2>1. p.ack <= c.rcv_nxt /\ p.id = c.id /\ (c.rid = c.id => p.ack < c.rcv_nxt)
      BY <1>5 DEF Order, LastRequest
    <2>2. c.rcv_nxt = s.snd_nxt
      BY <1>1, <2>1
    <2> QED
      BY <1>1, <1>2, <1>3, <2>1, <2>2
  <1>6. LastResponse(c, es)
    BY <1>4, <1>5 DEF Order, LastResponse
  <1>7. OldBeforeOpen(c, dc, es)
    BY <1>4 DEF Order, OldBeforeOpen
  <1> QED
    BY <1>4, <1>6, <1>7 DEF Order

-----------------------------------------------------------------------------
(* The steps of the client.  While no data in flight reaches its snd_nxt   *)
(* it may do anything to its other number: launch, flood, take a SYN-ACK.  *)
LEMMA ClientRenews ==
  ASSUME NEW c \in Sockets, NEW s \in Sockets, NEW t \in Sockets, NEW dc, NEW ds, NEW ec,
         Order(c, s, dc, ds), ec \subseteq dc,
         t.id = c.id, t.rid = c.rid,
         \A p \in dc : End(p) < t.snd_nxt, \A q \in ds : q.ack < t.snd_nxt,
         \A p \in dc \cup ds : p \in Packets
  PROVE  Order(t, s, ec, ds)
  <1>1. t.snd_nxt \in Nat
    BY SocketNumbers
  <1>2. \A p \in dc \cup ds : p.ack \in Nat /\ End(p) \in Nat
    BY PacketNumbers
  <1>3. NotServedYet(s, ec) /\ RequestsNumbered(t, s, ec)
    BY DEF Order, NotServedYet, RequestsNumbered
  <1>4. LastRequest(t, ec)
    BY <1>1, <1>2 DEF LastRequest
  <1>5. LastResponse(t, ds)
    BY <1>1, <1>2 DEF LastResponse
  <1>6. OldBeforeOpen(t, ec, ds)
    BY DEF OldBeforeOpen
  <1> QED
    BY <1>3, <1>4, <1>5, <1>6 DEF Order

(* It may send anything that is not data.                                  *)
LEMMA ClientGoesOn ==
  ASSUME NEW c \in Sockets, NEW s \in Sockets, NEW t \in Sockets, NEW dc, NEW ds, NEW ec,
         Order(c, s, dc, ds), DataBounds(c, s, "c", dc), DataBounds(s, c, "s", ds),
         ec \subseteq dc, t.id = c.id, t.rid = c.rid,
         \/ t.snd_nxt > c.snd_nxt
         \/ /\ t.snd_nxt = c.snd_nxt /\ t.rcv_nxt = c.rcv_nxt
            /\ t.state = SK_SYN_SENT => c.state = SK_SYN_SENT
  PROVE  Order(t, s, ec, ds)
  <1>1. CASE t.snd_nxt > c.snd_nxt
    <2>1. c.snd_nxt \in Nat /\ t.snd_nxt \in Nat
      BY SocketNumbers
    <2>2. /\ \A p \in dc : p \in Packets /\ End(p) \in Nat /\ End(p) <= c.snd_nxt
          /\ \A q \in ds : q \in Packets /\ q.ack \in Nat /\ q.ack <= c.snd_nxt
      BY PacketNumbers DEF DataBounds
    <2>3. /\ \A p \in dc : End(p) < t.snd_nxt
          /\ \A q \in ds : q.ack < t.snd_nxt
          /\ \A p \in dc \cup ds : p \in Packets
      BY <1>1, <2>1, <2>2
    <2> QED
      BY <2>3, ClientRenews
  <1>2. CASE /\ t.snd_nxt = c.snd_nxt /\ t.rcv_nxt = c.rcv_nxt
             /\ t.state = SK_SYN_SENT => c.state = SK_SYN_SENT
    <2>1. NotServedYet(s, ec) /\ RequestsNumbered(t, s, ec)
      BY DEF Order, NotServedYet, RequestsNumbered
    <2>2. LastRequest(t, ec) /\ LastResponse(t, ds)
      BY <1>2 DEF Order, LastRequest, LastResponse
    <2>3. OldBeforeOpen(t, ec, ds)
      BY <1>2 DEF Order, OldBeforeOpen
    <2> QED
      BY <2>1, <2>2, <2>3 DEF Order
  <1> QED
    BY <1>1, <1>2

(* It takes a segment q that is not data.                                  *)
LEMMA ClientHears ==
  ASSUME NEW c \in Sockets, NEW s \in Sockets, NEW t \in Sockets, NEW dc, NEW ds, NEW ec,
         Order(c, s, dc, ds), DataBounds(c, s, "c", dc), DataBounds(s, c, "s", ds),
         ec \subseteq dc, t.id = c.id, t.rid = c.rid,
         t.snd_nxt = c.snd_nxt, t.rcv_nxt >= c.rcv_nxt,
         t.state = SK_SYN_SENT => c.state = SK_SYN_SENT
  PROVE  Order(t, s, ec, ds)
  <1>1. c.rcv_nxt \in Nat /\ t.rcv_nxt \in Nat
    BY SocketNumbers
  <1>2. /\ \A p \in dc : p.ack \in Nat
        /\ \A q \in ds : q.seq \in Nat
    BY PacketNumbers DEF DataBounds
  <1>3. NotServedYet(s, ec) /\ RequestsNumbered(t, s, ec)
    BY DEF Order, NotServedYet, RequestsNumbered
  <1>4. LastRequest(t, ec)
    BY <1>1, <1>2 DEF Order, LastRequest
  <1>5. LastResponse(t, ds)
    BY <1>1, <1>2 DEF Order, LastResponse
  <1>6. OldBeforeOpen(t, ec, ds)
    BY DEF Order, OldBeforeOpen
  <1> QED
    BY <1>3, <1>4, <1>5, <1>6 DEF Order

(* It takes the response q: none other has a place now.                    *)
LEMMA ClientTakes ==
  ASSUME NEW c \in Sockets, NEW s \in Sockets, NEW t \in Sockets, NEW dc, NEW ds, NEW ec,
         Order(c, s, dc, ds), DataBounds(c, s, "c", dc), DataBounds(s, c, "s", ds),
         ec \subseteq dc, t.id = c.id,
         NEW q \in ds, q.ack = c.snd_nxt, q.seq = c.rcv_nxt,
         t.rid \in {c.rid, q.id},
         t.snd_nxt = c.snd_nxt, t.rcv_nxt = End(q),
         t.state = SK_SYN_SENT => c.state = SK_SYN_SENT
  PROVE  Order(t, s, ec, ds) /\ q.id = c.id /\ c.rid < c.id
  <1>1. /\ c.rcv_nxt \in Nat /\ t.rcv_nxt \in Nat /\ c.snd_nxt \in Nat
        /\ c.id \in Nat /\ c.rid \in Nat
    BY SocketNumbers
  <1>2. /\ \A p \in dc : p.ack \in Nat
        /\ \A r \in ds : r.seq \in Nat /\ r.seq < End(r) /\ End(r) \in Nat
    BY PacketNumbers DEF DataBounds
  <1>3. /\ q.id = c.id /\ c.rid < c.id
        /\ \A r \in ds : r.ack = c.snd_nxt /\ r.seq >= c.rcv_nxt => r.seq = q.seq
    BY <1>1 DEF Order, LastResponse
  <1>4. t.rcv_nxt > c.rcv_nxt /\ t.rid <= c.id
    BY <1>1, <1>2, <1>3
  <1>5. NotServedYet(s, ec) /\ RequestsNumbered(t, s, ec)
    BY <1>4 DEF Order, NotServedYet, RequestsNumbered
  <1>6. LastRequest(t, ec)
    <2>1. SUFFICES ASSUME NEW p \in ec, End(p) = c.snd_nxt
                   PROVE  p.ack < t.rcv_nxt /\ p.ack <= t.rcv_nxt /\ p.id = t.id
      BY DEF LastRequest
    <2>2. p.ack <= c.rcv_nxt /\ p.id = c.id
      BY <2>1 DEF Order, LastRequest
    <2> QED
      BY <1>1, <1>2, <1>4, <2>2
  <1>7. LastResponse(t, ds)
    <2>1. SUFFICES ASSUME NEW r \in ds, r.ack = c.snd_nxt, r.seq >= t.rcv_nxt PROVE FALSE
      BY DEF LastResponse
    <2>2. r.seq >= c.rcv_nxt
      BY <1>1, <1>2, <1>4, <2>1
    <2> QED
      BY <1>1, <1>2, <1>3, <1>4, <2>1, <2>2
  <1>8. OldBeforeOpen(t, ec, ds)
    BY DEF Order, OldBeforeOpen
  <1> QED
    BY <1>3, <1>5, <1>6, <1>7, <1>8 DEF Order

(* It sends the new request p.                                             *)
LEMMA ClientAsks ==
  ASSUME NEW c \in Sockets, NEW s \in Sockets, NEW t \in Sockets, NEW dc, NEW ds, NEW ec,
         Order(c, s, dc, ds), DataBounds(c, s, "c", dc), DataBounds(s, c, "s", ds),
         t.id = c.id + 1, t.rid = c.rid, t.state # SK_SYN_SENT,
         t.snd_nxt > c.snd_nxt, t.rcv_nxt = c.rcv_nxt,
         NEW p \in Packets, p.seq = c.snd_nxt, End(p) = t.snd_nxt, p.ack = c.rcv_nxt, p.id = t.id,
         ec \subseteq dc \cup {p}
  PROVE  Order(t, s, ec, ds)
  <1>1. /\ c.rcv_nxt \in Nat /\ t.snd_nxt \in Nat /\ c.snd_nxt \in Nat
        /\ c.id \in Nat /\ c.rid \in Nat /\ s.id \in Nat
    BY SocketNumbers
  <1>2. /\ \A r \in dc : r.seq \in Nat /\ r.id \in Nat /\ End(r) \in Nat
                         /\ r.seq < End(r) /\ End(r) <= c.snd_nxt
        /\ \A q \in ds : q.ack \in Nat /\ q.ack <= c.snd_nxt
    BY PacketNumbers DEF DataBounds
  <1>3. /\ s.id <= c.id /\ c.rid <= c.id
        /\ \A r \in dc : r.id <= c.id
        /\ \A r, q \in dc : r.seq < q.seq => r.id < q.id
    BY DEF Order, RequestsNumbered
  <1>4. NotServedYet(s, ec)
    BY <1>1, <1>3 DEF Order, NotServedYet
  <1>5. RequestsNumbered(t, s, ec)
    <2>1. s.id <= t.id /\ t.rid <= t.id /\ \A r \in ec : r.id <= t.id
      BY <1>1, <1>2, <1>3
    <2>2. ASSUME NEW r \in ec, NEW q \in ec, r.seq < q.seq PROVE r.id < q.id
      <3>1. CASE r \in dc /\ q \in dc
        BY <1>3, <2>2, <3>1
      <3>2. CASE r \in dc /\ q = p
        BY <1>1, <1>2, <1>3, <3>2
      <3>3. CASE r = p
        BY <1>1, <1>2, <2>2, <3>3
      <3> QED
        BY <3>1, <3>2, <3>3
    <2> QED
      BY <2>1, <2>2 DEF RequestsNumbered
  <1>6. LastRequest(t, ec)
    BY <1>1, <1>2, <1>3 DEF LastRequest
  <1>7. LastResponse(t, ds)
    BY <1>1, <1>2 DEF LastResponse
  <1>8. OldBeforeOpen(t, ec, ds)
    BY DEF OldBeforeOpen
  <1> QED
    BY <1>4, <1>5, <1>6, <1>7, <1>8 DEF Order

-----------------------------------------------------------------------------
(* What tcp_reply does to the numbers of a socket and to the network: it   *)
(* finds no mbuf, or transmits.                                            *)
Sends(s, t, e, f, n, m) ==
    /\ t.state = s.state /\ t.snd_una = s.snd_una /\ t.rcv_nxt = s.rcv_nxt
    /\ t.rid = s.rid /\ t.got = s.got /\ t.parts = s.parts /\ t.flags = f
    /\ \/ m = n /\ t.snd_nxt = s.snd_nxt /\ t.id = s.id
       \/ /\ m = n \cup {Segment(t, e, f)}
          /\ t.snd_nxt = IF s.snd_nxt = s.snd_una
                         THEN Plus(s.snd_nxt, SegLen(e, f)) ELSE s.snd_nxt
          /\ t.id = IF s.snd_nxt = s.snd_una /\ e = "c" /\ "PUSH" \in f
                    THEN s.id + 1 ELSE s.id

(* tcp_reply does that.                                                    *)
LEMMA ReplySends ==
  ASSUME cfg \in Configs, NEW w, Typed(w), NEW e \in Ends, NEW f \in Flags, NEW n
  PROVE  LET r == Reply(w, e, f) IN
         Typed(r) /\ Sends(w.s, r.s, e, f, n \cup w.out, n \cup r.out)
  <1> DEFINE s == w.s
             u == [s EXCEPT !.flags = f]
             x == Set(w, u)
             y == NewPacket(x, e, f)
             r == Reply(w, e, f)
  <1>1. s \in Sockets /\ w.bufs \in Nat
    BY DEF Typed
  <1>2. /\ u \in Sockets /\ u.flags = f /\ u.state = s.state /\ u.snd_una = s.snd_una
        /\ u.rcv_nxt = s.rcv_nxt /\ u.rid = s.rid /\ u.got = s.got /\ u.parts = s.parts
        /\ u.snd_nxt = s.snd_nxt /\ u.id = s.id
    BY <1>1 DEF Sockets
  <1> HIDE DEF u
  <1>3. Typed(x) /\ x.s = u /\ x.bufs = w.bufs /\ x.out = w.out
    BY <1>2, SetType
  <1>4. r = Set(y, Arm(y.s, e, f))
    BY DEF Reply, u
  <1> HIDE DEF x
  <1>5. Typed(y)
    BY <1>3, NewPacketFacts DEF Transmitted
  <1>6. PICK q \in {"none", "retransmit", "keepalive", "timeout"}, a \in 0 .. AgeMax :
           Arm(y.s, e, f) = [y.s EXCEPT !.timer = q, !.age = a]
    <2>1. y.s \in Sockets
      BY <1>5 DEF Typed
    <2> HIDE DEF y
    <2>2. \E q \in {"none", "retransmit", "keepalive", "timeout"}, a \in 0 .. AgeMax :
             /\ Arm(y.s, e, f) = [y.s EXCEPT !.timer = q, !.age = a]
             /\ q = IF Windowed(e) \/ y.s.state = SK_CLOSED THEN y.s.timer
                    ELSE IF MustBeAcked(f)
                         THEN (IF y.s.snd_nxt # y.s.snd_una THEN "retransmit" ELSE y.s.timer)
                         ELSE (IF e = "s" THEN "timeout" ELSE y.s.timer)
      BY <2>1, ArmFacts
    <2> QED
      BY <2>2, Zenon
  <1> DEFINE t == [y.s EXCEPT !.timer = q, !.age = a]
  <1>7. /\ t \in Sockets /\ t.flags = y.s.flags /\ t.state = y.s.state /\ t.snd_una = y.s.snd_una
        /\ t.rcv_nxt = y.s.rcv_nxt /\ t.rid = y.s.rid /\ t.got = y.s.got /\ t.parts = y.s.parts
        /\ t.snd_nxt = y.s.snd_nxt /\ t.id = y.s.id
    <2>1. y.s \in Sockets
      BY <1>5 DEF Typed
    <2> HIDE DEF y
    <2> QED
      BY <2>1 DEF Sockets
  <1> HIDE DEF t
  <1>8. Typed(r) /\ r.s = t /\ r.out = y.out
    BY <1>4, <1>5, <1>6, <1>7, SetType DEF t
  <1>9. CASE w.bufs = 0
    <2>1. y = x
      BY <1>3, <1>9 DEF NewPacket
    <2>2. r.out = w.out /\ t.snd_nxt = s.snd_nxt /\ t.id = s.id
      BY <1>2, <1>3, <1>7, <1>8, <2>1
    <2>3. /\ t.state = s.state /\ t.snd_una = s.snd_una /\ t.rcv_nxt = s.rcv_nxt
          /\ t.rid = s.rid /\ t.got = s.got /\ t.parts = s.parts /\ t.flags = f
      BY <1>2, <1>3, <1>7, <2>1
    <2> QED
      BY <1>8, <2>2, <2>3 DEF Sends
  <1>10. CASE w.bufs # 0
    <2> DEFINE v == Advance(u, e, f)
               new == u.snd_nxt = u.snd_una
    <2>1. y = [s |-> v, bufs |-> w.bufs - 1, out |-> w.out \cup {Segment(v, e, f)}]
      BY <1>3, <1>10 DEF NewPacket
    <2>2. /\ v.state = u.state /\ v.snd_una = u.snd_una /\ v.rcv_nxt = u.rcv_nxt
          /\ v.rid = u.rid /\ v.got = u.got /\ v.flags = u.flags /\ v.parts = u.parts
          /\ v.snd_nxt = IF new THEN Plus(u.snd_nxt, SegLen(e, f)) ELSE u.snd_nxt
          /\ v.id = IF new /\ e = "c" /\ "PUSH" \in f THEN u.id + 1 ELSE u.id
      BY <1>2 DEF Advance, Sockets
    <2> HIDE DEF v
    <2>3. y.s = v /\ y.out = w.out \cup {Segment(v, e, f)}
      BY <2>1
    <2>4. Segment(t, e, f) = Segment(v, e, f)
      BY <1>7, <2>3 DEF Segment
    <2>5. n \cup r.out = (n \cup w.out) \cup {Segment(t, e, f)}
      BY <1>8, <2>3, <2>4
    <2>6. /\ t.state = s.state /\ t.snd_una = s.snd_una /\ t.rcv_nxt = s.rcv_nxt
          /\ t.rid = s.rid /\ t.got = s.got /\ t.parts = s.parts /\ t.flags = f
          /\ t.snd_nxt = IF s.snd_nxt = s.snd_una
                         THEN Plus(s.snd_nxt, SegLen(e, f)) ELSE s.snd_nxt
          /\ t.id = IF s.snd_nxt = s.snd_una /\ e = "c" /\ "PUSH" \in f
                    THEN s.id + 1 ELSE s.id
      <3> HIDE DEF y
      <3> QED BY <1>2, <1>7, <2>2, <2>3
    <2> HIDE DEF y, r
    <2>7. Sends(s, t, e, f, n \cup w.out, n \cup r.out)
      BY <2>5, <2>6, Zenon DEF Sends
    <2> QED
      BY <1>8, <2>7, Zenon DEF r
  <1> QED
    BY <1>9, <1>10

(* The fields of a segment, without the URG of a send window.              *)
LEMMA SegmentFields ==
  ASSUME NEW t \in Sockets, NEW e \in Ends, NEW f \in Flags, "URG" \notin f
  PROVE  LET q == Segment(t, e, f) IN
         /\ q \in Packets /\ q.from = e /\ q.flags = f /\ q.seq = t.snd_una /\ q.ack = t.rcv_nxt
         /\ q.len = DataLen(e, f) /\ End(q) = t.snd_una + SegLen(e, f)
         /\ "PUSH" \in f => q.id = t.id
  BY SegmentType DEF Segment, End

(* A number with room moves forward.                                       *)
LEMMA PlusForward ==
  ASSUME NEW a \in Nat, NEW k \in Nat, a + k < SeqMod
  PROVE  Plus(a, k) = a + k
  BY Numbers DEF Plus

(* What data there is after a transmission.                                *)
LEMMA SendData ==
  ASSUME NEW s \in Sockets, NEW t \in Sockets, NEW e \in Ends, NEW f \in Flags, "URG" \notin f,
         NEW n, NEW m, Sends(s, t, e, f, n, m)
  PROVE  /\ SentData(Other(e), m) = SentData(Other(e), n)
         /\ "PUSH" \notin f => Data(t, e, m) = SentData(e, n)
         /\ Data(t, e, m) \subseteq SentData(e, n) \cup {Segment(t, e, f)}
         /\ f = s.flags /\ s.snd_una # s.snd_nxt => Data(t, e, m) \subseteq Data(s, e, n)
         /\ s.snd_una = s.snd_nxt /\ t.snd_nxt = s.snd_nxt /\ m = n => Data(t, e, m) = SentData(e, n)
  <1> DEFINE q == Segment(t, e, f)
  <1>1. q.from = e /\ q.flags = f
    BY SegmentFields
  <1>2. Other(e) # e
    BY DEF Other, Ends
  <1>3. t.flags = f /\ (m = n \/ m = n \cup {q}) /\ t.snd_una = s.snd_una
    BY DEF Sends
  <1>4. Pending(t, e) \subseteq {q} /\ ("PUSH" \notin f => Pending(t, e) = {})
    BY <1>3 DEF Pending
  <1>5. ASSUME f = s.flags, s.snd_una # s.snd_nxt
        PROVE  q = Segment(s, e, f) /\ ("PUSH" \in f => q \in Pending(s, e))
    <2>1. t.id = s.id /\ t.snd_una = s.snd_una /\ t.rcv_nxt = s.rcv_nxt
      BY <1>5 DEF Sends
    <2>2. q = Segment(s, e, f)
      BY <2>1 DEF Segment
    <2> QED
      BY <1>5, <2>2 DEF Pending
  <1> HIDE DEF q
  <1>6. SentData(Other(e), m) = SentData(Other(e), n)
    BY <1>1, <1>2, <1>3 DEF SentData
  <1>7. SentData(e, m) \subseteq SentData(e, n) \cup {q} /\ SentData(e, n) \subseteq SentData(e, m)
    BY <1>3 DEF SentData
  <1>8. "PUSH" \notin f => SentData(e, m) = SentData(e, n)
    BY <1>1, <1>3 DEF SentData
  <1>9. "PUSH" \notin f => Data(t, e, m) = SentData(e, n)
    BY <1>4, <1>8 DEF Data
  <1>10. Data(t, e, m) \subseteq SentData(e, n) \cup {q}
    BY <1>4, <1>7 DEF Data
  <1>11. ASSUME f = s.flags, s.snd_una # s.snd_nxt PROVE Data(t, e, m) \subseteq Data(s, e, n)
    BY <1>5, <1>9, <1>10, <1>11 DEF Data
  <1>12. s.snd_una = s.snd_nxt /\ t.snd_nxt = s.snd_nxt /\ m = n => Data(t, e, m) = SentData(e, n)
    BY <1>3 DEF Data, Pending
  <1> QED
    BY <1>6, <1>9, <1>10, <1>11, <1>12 DEF q

(* The numbers of both ends bound the data of each.                        *)
LEMMA BoundsOfData ==
  ASSUME NEW s \in Sockets, NEW o \in Sockets, NEW e \in Ends, NEW n \in SUBSET Packets,
         Bounded(s, o, e, n), Bounded(o, s, Other(e), n)
  PROVE  DataBounds(s, o, e, Data(s, e, n)) /\ DataBounds(s, o, e, SentData(e, n))
  <1>1. s.snd_una \in Nat /\ s.snd_nxt \in Nat /\ s.flags \in Flags
    BY SocketNumbers
  <1>2. Other(Other(e)) = e
    BY DEF Other, Ends
  <1>3. ASSUME NEW f \in Flags, "PUSH" \in f PROVE SegLen(e, f) \in Nat /\ SegLen(e, f) > 0
    BY <1>3, LengthType DEF MustBeAcked, PUSH
  <1>4. ASSUME NEW p \in SentData(e, n)
        PROVE  /\ p \in Packets /\ p.from = e /\ "PUSH" \in p.flags
               /\ p.seq < End(p) /\ End(p) <= s.snd_nxt /\ p.ack <= o.snd_nxt
    <2>1. p \in n /\ p.from = e /\ "PUSH" \in p.flags
      BY <1>4 DEF SentData
    <2>2. End(p) <= s.snd_nxt /\ p.ack <= o.snd_nxt
      BY <1>2, <2>1 DEF Bounded
    <2>3. p.seq \in Nat /\ p.flags \in Flags
      BY <2>1, PacketNumbers
    <2>4. SegLen(e, p.flags) \in Nat /\ SegLen(e, p.flags) > 0
      BY <1>3, <2>1, <2>3
    <2> QED
      BY <2>1, <2>2, <2>3, <2>4 DEF End
  <1>5. ASSUME NEW p \in Pending(s, e)
        PROVE  /\ p \in Packets /\ p.from = e /\ "PUSH" \in p.flags
               /\ p.seq < End(p) /\ End(p) <= s.snd_nxt /\ p.ack <= o.snd_nxt
    <2>1. p = Segment(s, e, s.flags) /\ "PUSH" \in s.flags /\ s.snd_una # s.snd_nxt
      BY <1>5 DEF Pending
    <2>2. "URG" \notin s.flags /\ s.snd_una + SegLen(e, s.flags) <= s.snd_nxt
          /\ s.rcv_nxt <= o.snd_nxt
      BY <2>1 DEF Bounded
    <2>3. /\ p \in Packets /\ p.from = e /\ p.flags = s.flags /\ p.seq = s.snd_una
          /\ p.ack = s.rcv_nxt /\ End(p) = s.snd_una + SegLen(e, s.flags)
      BY <1>1, <2>1, <2>2, SegmentFields
    <2> QED
      BY <1>1, <1>3, <2>1, <2>2, <2>3
  <1> QED
    BY <1>4, <1>5 DEF Data, DataBounds

(* A transmission keeps the bounds, if what is sent again is no longer     *)
(* than what is outstanding.                                               *)
LEMMA SendBounded ==
  ASSUME NEW s \in Sockets, NEW o \in Sockets, NEW t \in Sockets, NEW e \in Ends,
         NEW f \in Flags, "URG" \notin f,
         NEW n \in SUBSET Packets, NEW m, Sends(s, t, e, f, n, m),
         Bounded(s, o, e, n), Bounded(o, s, Other(e), n),
         s.snd_una = s.snd_nxt => s.snd_nxt + SegLen(e, f) < SeqMod,
         s.snd_una = s.snd_nxt \/ "PUSH" \notin f \/ f = s.flags
  PROVE  /\ Bounded(t, o, e, m) /\ Bounded(o, t, Other(e), m) /\ m \in SUBSET Packets
         /\ t.snd_nxt >= s.snd_nxt
         /\ t.snd_nxt = s.snd_nxt \/
               (s.snd_una = s.snd_nxt /\ t.snd_nxt = s.snd_nxt + SegLen(e, f))
  <1> DEFINE q == Segment(t, e, f)
             k == SegLen(e, f)
  <1>1. /\ s.snd_una \in Nat /\ s.snd_nxt \in Nat /\ t.snd_nxt \in Nat /\ o.snd_nxt \in Nat
        /\ o.rcv_nxt \in Nat /\ s.rcv_nxt \in Nat
    BY SocketNumbers
  <1>2. k \in Nat /\ Other(Other(e)) = e /\ Other(e) # e
    BY LengthType DEF Other, Ends
  <1>3. /\ q \in Packets /\ q.from = e /\ q.flags = f /\ q.seq = t.snd_una /\ q.ack = t.rcv_nxt
        /\ q.len = DataLen(e, f) /\ End(q) = t.snd_una + k
    BY SegmentFields
  <1>4. t.flags = f /\ t.snd_una = s.snd_una /\ t.rcv_nxt = s.rcv_nxt /\ (m = n \/ m = n \cup {q})
    BY DEF Sends
  <1>5. /\ s.snd_una <= s.snd_nxt
        /\ s.snd_una # s.snd_nxt => s.snd_una + SegLen(e, s.flags) <= s.snd_nxt
        /\ o.rcv_nxt <= s.snd_nxt /\ s.rcv_nxt <= o.snd_nxt
    BY DEF Bounded
  <1>6. s.snd_una # s.snd_nxt => s.snd_una + k <= s.snd_nxt
    <2>1. "PUSH" \notin f => k <= 1
      BY DEF SegLen
    <2> HIDE DEF k
    <2> QED
      BY <1>1, <1>2, <1>5, <2>1 DEF k
  <1>7. \/ m = n /\ t.snd_nxt = s.snd_nxt
        \/ m = n \cup {q} /\ t.snd_nxt = IF s.snd_nxt = s.snd_una THEN s.snd_nxt + k ELSE s.snd_nxt
    BY <1>1, <1>2, PlusForward DEF Sends
  <1> HIDE DEF q, k
  <1>8. /\ t.snd_nxt >= s.snd_nxt
        /\ t.snd_nxt = s.snd_nxt \/ (s.snd_una = s.snd_nxt /\ t.snd_nxt = s.snd_nxt + k)
        /\ t.snd_una # t.snd_nxt => t.snd_una + k <= t.snd_nxt
    BY <1>1, <1>2, <1>4, <1>6, <1>7
  <1>9. m = n \cup {q} => End(q) <= t.snd_nxt \/ m = n
    BY <1>1, <1>2, <1>3, <1>4, <1>6, <1>7
  <1>10. m \in SUBSET Packets
    BY <1>3, <1>4
  <1>11. \A p \in n : p.ack \in Nat /\ End(p) \in Nat
    BY PacketNumbers
  <1>12. Bounded(t, o, e, m)
    <2>1. /\ t.snd_una <= t.snd_nxt /\ o.rcv_nxt <= t.snd_nxt
          /\ t.snd_una # t.snd_nxt => t.snd_una + SegLen(e, t.flags) <= t.snd_nxt
          /\ "URG" \notin t.flags
      BY <1>1, <1>2, <1>4, <1>5, <1>8 DEF k
    <2>2. ASSUME NEW p \in m, p.from = e
          PROVE  p.len = DataLen(e, p.flags) /\ End(p) <= t.snd_nxt /\ "URG" \notin p.flags
      <3>1. CASE p \in n
        <4>1. p.len = DataLen(e, p.flags) /\ End(p) <= s.snd_nxt /\ "URG" \notin p.flags
          BY <2>2, <3>1 DEF Bounded
        <4> QED
          BY <1>1, <1>8, <1>11, <3>1, <4>1
      <3>2. CASE p \notin n
        <4>1. p = q /\ m = n \cup {q} /\ m # n
          BY <1>4, <2>2, <3>2
        <4> QED
          BY <1>3, <1>9, <4>1
      <3> QED
        BY <3>1, <3>2
    <2>3. ASSUME NEW p \in m, p.from = Other(e) PROVE p.ack <= t.snd_nxt
      <3>1. p \in n
        BY <1>2, <1>3, <1>4, <2>3
      <3>2. p.ack <= s.snd_nxt
        BY <2>3, <3>1 DEF Bounded
      <3> QED
        BY <1>1, <1>8, <1>11, <3>1, <3>2
    <2> QED
      BY <2>1, <2>2, <2>3 DEF Bounded
  <1>13. Bounded(o, t, Other(e), m)
    <2>1. ASSUME NEW p \in m, p.from = Other(e) PROVE p \in n
      BY <1>2, <1>3, <1>4, <2>1
    <2>2. ASSUME NEW p \in m, p.from = e PROVE p.ack <= o.snd_nxt
      BY <1>2, <1>3, <1>4, <1>5, <2>2 DEF Bounded
    <2>3. t.rcv_nxt <= o.snd_nxt
      BY <1>4, <1>5
    <2> QED
      BY <1>2, <2>1, <2>2, <2>3 DEF Bounded
  <1> QED
    BY <1>8, <1>10, <1>12, <1>13 DEF k

-----------------------------------------------------------------------------
(* A socket that is about to answer: what it would have sent again does    *)
(* not count any more.                                                     *)
ServerHeld(c, s, n) ==
    /\ Bounded(c, s, "c", n) /\ Bounded(s, c, "s", n)
    /\ Order(c, s, Data(c, "c", n), SentData("s", n))

ClientHeld(c, s, n) ==
    /\ Bounded(c, s, "c", n) /\ Bounded(s, c, "s", n)
    /\ Order(c, s, SentData("c", n), Data(s, "s", n))

(* The fields the invariant is about.                                      *)
SameNumbers(s, t) ==
    /\ t.snd_nxt = s.snd_nxt /\ t.snd_una = s.snd_una /\ t.rcv_nxt = s.rcv_nxt
    /\ t.flags = s.flags /\ t.id = s.id /\ t.rid = s.rid /\ t.got = s.got /\ t.parts = s.parts

(* Fewer packets, and fewer to be sent again, keep the order.              *)
LEMMA OrderShrinks ==
  ASSUME NEW c, NEW s, NEW dc, NEW ds, NEW ec, NEW es, Order(c, s, dc, ds),
         ec \subseteq dc, es \subseteq ds
  PROVE  Order(c, s, ec, es)
  BY DEF Order, NotServedYet, RequestsNumbered, LastRequest, LastResponse, OldBeforeOpen

(* What is delivered is held; with nothing outstanding it is the same.     *)
LEMMA HeldIsDelivery ==
  ASSUME NEW c, NEW s, NEW n
  PROVE  /\ Delivery(c, s, n) => ServerHeld(c, s, n) /\ ClientHeld(c, s, n)
         /\ ServerHeld(c, s, n) /\ s.snd_una = s.snd_nxt => Delivery(c, s, n)
         /\ ClientHeld(c, s, n) /\ c.snd_una = c.snd_nxt => Delivery(c, s, n)
  <1>1. SentData("s", n) \subseteq Data(s, "s", n) /\ SentData("c", n) \subseteq Data(c, "c", n)
    BY DEF Data
  <1>2. s.snd_una = s.snd_nxt => Data(s, "s", n) = SentData("s", n)
    BY DEF Data, Pending
  <1>3. c.snd_una = c.snd_nxt => Data(c, "c", n) = SentData("c", n)
    BY DEF Data, Pending
  <1>4. Delivery(c, s, n) => ServerHeld(c, s, n) /\ ClientHeld(c, s, n)
    BY <1>1, OrderShrinks DEF Delivery, ServerHeld, ClientHeld
  <1> QED
    BY <1>2, <1>3, <1>4 DEF Delivery, ServerHeld, ClientHeld

(* The network may lose.                                                   *)
LEMMA DeliveryShrinks ==
  ASSUME NEW c, NEW s, NEW n, NEW m, Delivery(c, s, n), m \subseteq n
  PROVE  Delivery(c, s, m)
  <1>1. Data(s, "s", m) \subseteq Data(s, "s", n) /\ Data(c, "c", m) \subseteq Data(c, "c", n)
    BY DEF Data, SentData
  <1>2. Order(c, s, Data(c, "c", m), Data(s, "s", m))
    BY <1>1, OrderShrinks DEF Delivery
  <1>3. Bounded(c, s, "c", m) /\ Bounded(s, c, "s", m)
    BY DEF Delivery, Bounded
  <1> QED
    BY <1>2, <1>3 DEF Delivery

(* A server's socket that keeps its numbers keeps the invariant.           *)
LEMMA ServerRests ==
  ASSUME NEW c \in Sockets, NEW s \in Sockets, NEW t \in Sockets, NEW n, SameNumbers(s, t)
  PROVE  /\ Delivery(c, s, n) => Delivery(c, t, n)
         /\ ServerHeld(c, s, n) => ServerHeld(c, t, n)
  <1>1. Pending(t, "s") = Pending(s, "s")
    BY DEF SameNumbers, Pending, Segment
  <1>2. Data(t, "s", n) = Data(s, "s", n)
    BY <1>1 DEF Data
  <1>3. ASSUME NEW dc, NEW ds, Order(c, s, dc, ds) PROVE Order(c, t, dc, ds)
    BY <1>3 DEF SameNumbers, Order, NotServedYet, RequestsNumbered
  <1>4. /\ Bounded(c, s, "c", n) => Bounded(c, t, "c", n)
        /\ Bounded(s, c, "s", n) => Bounded(t, c, "s", n)
    BY DEF SameNumbers, Bounded
  <1> QED
    BY <1>2, <1>3, <1>4 DEF Delivery, ServerHeld

(* ... and so does a client's, unless it is to wait for a SYN-ACK.         *)
LEMMA ClientRests ==
  ASSUME NEW c \in Sockets, NEW s \in Sockets, NEW t \in Sockets, NEW n, SameNumbers(c, t),
         t.state = SK_SYN_SENT => c.state = SK_SYN_SENT
  PROVE  /\ Delivery(c, s, n) => Delivery(t, s, n)
         /\ ClientHeld(c, s, n) => ClientHeld(t, s, n)
  <1>1. Pending(t, "c") = Pending(c, "c")
    BY DEF SameNumbers, Pending, Segment
  <1>2. Data(t, "c", n) = Data(c, "c", n)
    BY <1>1 DEF Data
  <1>3. ASSUME NEW dc, NEW ds, Order(c, s, dc, ds) PROVE Order(t, s, dc, ds)
    BY <1>3 DEF SameNumbers, Order, RequestsNumbered, LastRequest, LastResponse, OldBeforeOpen
  <1>4. /\ Bounded(c, s, "c", n) => Bounded(t, s, "c", n)
        /\ Bounded(s, c, "s", n) => Bounded(s, t, "s", n)
    BY DEF SameNumbers, Bounded
  <1> QED
    BY <1>2, <1>3, <1>4 DEF Delivery, ClientHeld

(* The server sends something that is not data.                            *)
LEMMA ServerSendsPlain ==
  ASSUME NEW c \in Sockets, NEW s \in Sockets, NEW t \in Sockets, NEW f \in Flags,
         NEW n \in SUBSET Packets, NEW m, ServerHeld(c, s, n), Sends(s, t, "s", f, n, m),
         "PUSH" \notin f, "URG" \notin f, s.snd_nxt + 1 < SeqMod
  PROVE  Delivery(c, t, m) /\ m \in SUBSET Packets
  <1> DEFINE dc == Data(c, "c", n)
             ds == SentData("s", n)
  <1>1. "s" \in Ends /\ "c" \in Ends /\ Other("s") = "c" /\ Other("c") = "s"
    BY DEF Ends, Other
  <1>2. SegLen("s", f) \in Nat /\ SegLen("s", f) <= 1 /\ s.snd_nxt \in Nat /\ t.snd_nxt \in Nat
    <2>1. SegLen("s", f) <= 1
      BY DEF SegLen
    <2> QED
      BY <1>1, <2>1, LengthType, SocketNumbers
  <1>3. s.snd_nxt + SegLen("s", f) < SeqMod
    BY <1>2, Numbers
  <1>4. /\ Bounded(t, c, "s", m) /\ Bounded(c, t, "c", m) /\ m \in SUBSET Packets
        /\ t.snd_nxt >= s.snd_nxt
    BY <1>1, <1>3, SendBounded DEF ServerHeld
  <1>5. SentData("c", m) = SentData("c", n) /\ Data(t, "s", m) = ds
    BY <1>1, SendData
  <1>6. Data(c, "c", m) = dc
    BY <1>5 DEF Data
  <1>7. DataBounds(c, s, "c", dc) /\ Order(c, s, dc, ds)
    BY <1>1, BoundsOfData DEF ServerHeld
  <1>8. t.id = s.id /\ t.rcv_nxt = s.rcv_nxt /\ s.id <= c.id /\ s.rcv_nxt \in Nat
    BY <1>7, SocketNumbers DEF Sends, Order, RequestsNumbered
  <1> HIDE DEF dc, ds
  <1>9. \/ t.snd_nxt > s.snd_nxt
        \/ t.snd_nxt = s.snd_nxt /\ t.id = s.id /\ t.rcv_nxt >= s.rcv_nxt
    BY <1>2, <1>4, <1>8
  <1>10. Order(c, t, dc, ds)
    BY <1>7, <1>8, <1>9, ServerGoesOn
  <1> QED
    BY <1>4, <1>5, <1>6, <1>10 DEF Delivery

(* The server sends again what is outstanding.                             *)
LEMMA ServerSendsAgain ==
  ASSUME NEW c \in Sockets, NEW s \in Sockets, NEW t \in Sockets,
         NEW n \in SUBSET Packets, NEW m, Delivery(c, s, n), Sends(s, t, "s", s.flags, n, m),
         s.snd_una # s.snd_nxt
  PROVE  Delivery(c, t, m) /\ m \in SUBSET Packets
  <1> DEFINE f == s.flags
             dc == Data(c, "c", n)
             ds == Data(s, "s", n)
  <1>1. /\ "s" \in Ends /\ "c" \in Ends /\ Other("s") = "c" /\ Other("c") = "s"
        /\ f \in Flags /\ "URG" \notin f
    BY SocketNumbers DEF Ends, Other, Delivery, Bounded
  <1>2. /\ Bounded(t, c, "s", m) /\ Bounded(c, t, "c", m) /\ m \in SUBSET Packets
        /\ t.snd_nxt = s.snd_nxt
    BY <1>1, SendBounded DEF Delivery
  <1>3. SentData("c", m) = SentData("c", n) /\ Data(t, "s", m) \subseteq ds
    BY <1>1, SendData
  <1>4. Data(c, "c", m) = dc
    BY <1>3 DEF Data
  <1>5. DataBounds(c, s, "c", dc) /\ Order(c, s, dc, ds)
    BY <1>1, BoundsOfData DEF Delivery
  <1>6. t.id = s.id /\ t.rcv_nxt = s.rcv_nxt /\ s.id <= c.id /\ s.rcv_nxt \in Nat
    BY <1>5, SocketNumbers DEF Sends, Order, RequestsNumbered
  <1> HIDE DEF dc, ds
  <1>7. Order(c, t, dc, Data(t, "s", m))
    BY <1>2, <1>3, <1>5, <1>6, ServerGoesOn
  <1> QED
    BY <1>2, <1>4, <1>7 DEF Delivery

(* The server responds to the request p it has taken.                      *)
LEMMA ServerSendsResponse ==
  ASSUME NEW c \in Sockets, NEW s \in Sockets, NEW t \in Sockets, NEW f \in Flags,
         NEW n \in SUBSET Packets, NEW m, ServerHeld(c, s, n), Sends(s, t, "s", f, n, m),
         "PUSH" \in f, "URG" \notin f, s.snd_una = s.snd_nxt, s.snd_nxt + SegLen("s", f) < SeqMod,
         NEW p \in SentData("c", n), p.id = s.id, End(p) = s.rcv_nxt, p.ack = s.snd_nxt
  PROVE  Delivery(c, t, m) /\ m \in SUBSET Packets
  <1> DEFINE dc == Data(c, "c", n)
             ds == SentData("s", n)
             q == Segment(t, "s", f)
             k == SegLen("s", f)
  <1>1. "s" \in Ends /\ "c" \in Ends /\ Other("s") = "c" /\ Other("c") = "s"
    BY DEF Ends, Other
  <1>2. k \in Nat /\ k > 0 /\ s.snd_nxt \in Nat /\ t.snd_nxt \in Nat
    BY <1>1, LengthType, SocketNumbers DEF MustBeAcked, PUSH
  <1>3. /\ Bounded(t, c, "s", m) /\ Bounded(c, t, "c", m) /\ m \in SUBSET Packets
        /\ t.snd_nxt >= s.snd_nxt
    BY <1>1, SendBounded DEF ServerHeld
  <1>4. /\ SentData("c", m) = SentData("c", n) /\ Data(t, "s", m) \subseteq ds \cup {q}
        /\ t.snd_nxt = s.snd_nxt /\ m = n => Data(t, "s", m) = ds
    BY <1>1, SendData
  <1>5. Data(c, "c", m) = dc /\ p \in dc
    BY <1>4 DEF Data
  <1>6. DataBounds(c, s, "c", dc) /\ Order(c, s, dc, ds) /\ DataBounds(s, c, "s", ds)
    BY <1>1, BoundsOfData DEF ServerHeld
  <1>7. t.id = s.id /\ t.rcv_nxt = s.rcv_nxt /\ s.id <= c.id /\ s.rcv_nxt \in Nat
    BY <1>1, <1>6, SocketNumbers DEF Sends, Order, RequestsNumbered
  <1>8. q \in Packets /\ q.seq = s.snd_nxt /\ q.ack = s.rcv_nxt /\ q.id = s.id
    BY <1>1, <1>7, SegmentFields DEF Sends
  <1>9. c.rcv_nxt <= s.snd_nxt
    BY DEF ServerHeld, Bounded
  <1>10. (m = n /\ t.snd_nxt = s.snd_nxt) \/ t.snd_nxt = s.snd_nxt + k
    BY <1>2, PlusForward DEF Sends
  <1> HIDE DEF dc, ds, q, k
  <1>11. Order(c, t, dc, Data(t, "s", m))
    <2>1. CASE m = n /\ t.snd_nxt = s.snd_nxt
      BY <1>2, <1>4, <1>6, <1>7, <2>1, ServerGoesOn
    <2>2. CASE t.snd_nxt = s.snd_nxt + k
      <3>1. t.snd_nxt > s.snd_nxt
        BY <1>2, <2>2
      <3> QED
        BY <1>4, <1>5, <1>6, <1>7, <1>8, <1>9, <3>1, ServerResponds
    <2> QED
      BY <1>10, <2>1, <2>2
  <1> QED
    BY <1>3, <1>5, <1>11 DEF Delivery

(* The client sends something that is not data.                            *)
LEMMA ClientSendsPlain ==
  ASSUME NEW c \in Sockets, NEW s \in Sockets, NEW t \in Sockets, NEW f \in Flags,
         NEW n \in SUBSET Packets, NEW m, ClientHeld(c, s, n), Sends(c, t, "c", f, n, m),
         "PUSH" \notin f, "URG" \notin f, c.snd_nxt + 1 < SeqMod
  PROVE  Delivery(t, s, m) /\ m \in SUBSET Packets
  <1> DEFINE dc == SentData("c", n)
             ds == Data(s, "s", n)
  <1>1. "s" \in Ends /\ "c" \in Ends /\ Other("s") = "c" /\ Other("c") = "s"
    BY DEF Ends, Other
  <1>2. SegLen("c", f) \in Nat /\ SegLen("c", f) <= 1 /\ c.snd_nxt \in Nat /\ t.snd_nxt \in Nat
    <2>1. SegLen("c", f) <= 1
      BY DEF SegLen
    <2> QED
      BY <1>1, <2>1, LengthType, SocketNumbers
  <1>3. c.snd_nxt + SegLen("c", f) < SeqMod
    BY <1>2, Numbers
  <1>4. /\ Bounded(t, s, "c", m) /\ Bounded(s, t, "s", m) /\ m \in SUBSET Packets
        /\ t.snd_nxt >= c.snd_nxt
    BY <1>1, <1>3, SendBounded DEF ClientHeld
  <1>5. SentData("s", m) = SentData("s", n) /\ Data(t, "c", m) = dc
    BY <1>1, SendData
  <1>6. Data(s, "s", m) = ds
    BY <1>5 DEF Data
  <1>7. DataBounds(c, s, "c", dc) /\ Order(c, s, dc, ds) /\ DataBounds(s, c, "s", ds)
    BY <1>1, BoundsOfData DEF ClientHeld
  <1>8. t.id = c.id /\ t.rcv_nxt = c.rcv_nxt /\ t.rid = c.rid /\ t.state = c.state
    BY <1>1 DEF Sends
  <1> HIDE DEF dc, ds
  <1>9. t.snd_nxt > c.snd_nxt \/ t.snd_nxt = c.snd_nxt
    BY <1>2, <1>4
  <1>10. Order(t, s, dc, ds)
    BY <1>7, <1>8, <1>9, ClientGoesOn
  <1> QED
    BY <1>4, <1>5, <1>6, <1>10 DEF Delivery

(* The client sends again what is outstanding.                             *)
LEMMA ClientSendsAgain ==
  ASSUME NEW c \in Sockets, NEW s \in Sockets, NEW t \in Sockets,
         NEW n \in SUBSET Packets, NEW m, Delivery(c, s, n), Sends(c, t, "c", c.flags, n, m),
         c.snd_una # c.snd_nxt
  PROVE  Delivery(t, s, m) /\ m \in SUBSET Packets
  <1> DEFINE f == c.flags
             dc == Data(c, "c", n)
             ds == Data(s, "s", n)
  <1>1. /\ "s" \in Ends /\ "c" \in Ends /\ Other("s") = "c" /\ Other("c") = "s"
        /\ f \in Flags /\ "URG" \notin f
    BY SocketNumbers DEF Ends, Other, Delivery, Bounded
  <1>2. /\ Bounded(t, s, "c", m) /\ Bounded(s, t, "s", m) /\ m \in SUBSET Packets
        /\ t.snd_nxt = c.snd_nxt
    BY <1>1, SendBounded DEF Delivery
  <1>3. SentData("s", m) = SentData("s", n) /\ Data(t, "c", m) \subseteq dc
    BY <1>1, SendData
  <1>4. Data(s, "s", m) = ds
    BY <1>3 DEF Data
  <1>5. DataBounds(c, s, "c", dc) /\ Order(c, s, dc, ds) /\ DataBounds(s, c, "s", ds)
    BY <1>1, BoundsOfData DEF Delivery
  <1>6. t.id = c.id /\ t.rcv_nxt = c.rcv_nxt /\ t.rid = c.rid /\ t.state = c.state
    BY DEF Sends
  <1> HIDE DEF dc, ds
  <1>7. Order(t, s, Data(t, "c", m), ds)
    BY <1>2, <1>3, <1>5, <1>6, ClientGoesOn
  <1> QED
    BY <1>2, <1>4, <1>7 DEF Delivery

(* The client sends a new request.                                         *)
LEMMA ClientSendsRequest ==
  ASSUME NEW c \in Sockets, NEW s \in Sockets, NEW t \in Sockets, NEW f \in Flags,
         NEW n \in SUBSET Packets, NEW m, ClientHeld(c, s, n), Sends(c, t, "c", f, n, m),
         "PUSH" \in f, "URG" \notin f, c.snd_una = c.snd_nxt, c.snd_nxt + SegLen("c", f) < SeqMod,
         c.state # SK_SYN_SENT
  PROVE  Delivery(t, s, m) /\ m \in SUBSET Packets
  <1> DEFINE dc == SentData("c", n)
             ds == Data(s, "s", n)
             p == Segment(t, "c", f)
             k == SegLen("c", f)
  <1>1. "s" \in Ends /\ "c" \in Ends /\ Other("s") = "c" /\ Other("c") = "s"
    BY DEF Ends, Other
  <1>2. k \in Nat /\ k > 0 /\ c.snd_nxt \in Nat /\ t.snd_nxt \in Nat
    BY <1>1, LengthType, SocketNumbers DEF MustBeAcked, PUSH
  <1>3. /\ Bounded(t, s, "c", m) /\ Bounded(s, t, "s", m) /\ m \in SUBSET Packets
    BY <1>1, SendBounded DEF ClientHeld
  <1>4. /\ SentData("s", m) = SentData("s", n) /\ Data(t, "c", m) \subseteq dc \cup {p}
        /\ t.snd_nxt = c.snd_nxt /\ m = n => Data(t, "c", m) = dc
    BY <1>1, SendData
  <1>5. Data(s, "s", m) = ds
    BY <1>4 DEF Data
  <1>6. DataBounds(c, s, "c", dc) /\ Order(c, s, dc, ds) /\ DataBounds(s, c, "s", ds)
    BY <1>1, BoundsOfData DEF ClientHeld
  <1>7. t.rid = c.rid /\ t.rcv_nxt = c.rcv_nxt /\ t.state = c.state /\ t.snd_una = c.snd_una
    BY DEF Sends
  <1>8. /\ p \in Packets /\ p.seq = c.snd_nxt /\ p.ack = c.rcv_nxt /\ p.id = t.id
        /\ End(p) = c.snd_nxt + k
    BY <1>1, <1>7, SegmentFields
  <1>9. \/ m = n /\ t.snd_nxt = c.snd_nxt /\ t.id = c.id
        \/ t.snd_nxt = c.snd_nxt + k /\ t.id = c.id + 1
    BY <1>2, PlusForward DEF Sends
  <1> HIDE DEF dc, ds, p, k
  <1>10. Order(t, s, Data(t, "c", m), ds)
    <2>1. CASE m = n /\ t.snd_nxt = c.snd_nxt /\ t.id = c.id
      BY <1>4, <1>6, <1>7, <2>1, ClientGoesOn
    <2>2. CASE t.snd_nxt = c.snd_nxt + k /\ t.id = c.id + 1
      <3>1. t.snd_nxt > c.snd_nxt /\ End(p) = t.snd_nxt
        BY <1>2, <1>8, <2>2
      <3> QED
        BY <1>4, <1>6, <1>7, <1>8, <2>2, <3>1, ClientAsks
    <2> QED
      BY <1>9, <2>1, <2>2
  <1> QED
    BY <1>3, <1>5, <1>10 DEF Delivery

-----------------------------------------------------------------------------
(* socket_close keeps the numbers.                                         *)
LEMMA CloseNumbers ==
  ASSUME NEW w, Typed(w), NEW why \in {"fin", "fast", "error", "rst", "flood"}
  PROVE  /\ Close(w, why).out = w.out /\ SameNumbers(w.s, Close(w, why).s)
         /\ Close(w, why).s.state = SK_CLOSED /\ Typed(Close(w, why))
  <1>1. CASE w.s.state = SK_CLOSED
    BY <1>1 DEF Close, SameNumbers
  <1>2. CASE w.s.state # SK_CLOSED
    <2> DEFINE t == [w.s EXCEPT !.state = SK_CLOSED, !.timer = "none", !.by = why]
    <2>1. w.s \in Sockets
      BY DEF Typed
    <2>2. t \in Sockets /\ t.state = SK_CLOSED /\ SameNumbers(w.s, t)
      BY <2>1 DEF Sockets, States, SameNumbers
    <2>3. Close(w, why) = Set(w, t)
      BY <1>2 DEF Close
    <2> HIDE DEF t
    <2>4. Typed(Set(w, t)) /\ Set(w, t).s = t /\ Set(w, t).out = w.out
      BY <2>2, SetType
    <2> QED
      BY <2>2, <2>3, <2>4
  <1> QED
    BY <1>1, <1>2

(* tcp_process_fin keeps the numbers, and adds FIN and ACK at most.        *)
FinNumbers(w, tx, f) ==
    /\ Typed(f.w) /\ f.w.out = w.out /\ f.w.bufs = w.bufs /\ SameNumbers(w.s, f.w.s)
    /\ tx \subseteq f.tx /\ f.tx \subseteq tx \cup FIN \cup ACK /\ f.tx \in Flags
    /\ f.w.s.state \in {w.s.state, SK_CLOSED, SK_FIN_WAIT_1, SK_FIN_WAIT_2, SK_LAST_ACK}
    /\ w.s.state = SK_CLOSING => f.tx = tx \cup FIN \cup ACK

(* It does so.                                                             *)
LEMMA MaybeFinNumbers ==
  ASSUME NEW w, Typed(w), NEW rx, NEW tx \in Flags
  PROVE  FinNumbers(w, tx, MaybeFin(w, rx, tx))
  <1>1. w.s \in Sockets
    BY DEF Typed
  <1>2. ASSUME NEW st \in {SK_FIN_WAIT_1, SK_FIN_WAIT_2, SK_LAST_ACK},
               NEW g \in {{}, FIN \cup ACK}, w.s.state = SK_CLOSING => g = FIN \cup ACK
        PROVE  FinNumbers(w, tx, [w |-> Set(w, [w.s EXCEPT !.state = st]), tx |-> tx \cup g])
    <2> DEFINE t == [w.s EXCEPT !.state = st]
               f == [w |-> Set(w, t), tx |-> tx \cup g]
    <2>1. st \in States
      BY <1>2 DEF States
    <2>2. t \in Sockets /\ t.state = st /\ SameNumbers(w.s, t)
      BY <1>1, <2>1 DEF Sockets, SameNumbers
    <2> HIDE DEF t
    <2>3. Typed(Set(w, t)) /\ Set(w, t).s = t /\ Set(w, t).out = w.out /\ Set(w, t).bufs = w.bufs
      BY <2>2, SetType
    <2>4. f.w = Set(w, t) /\ f.tx = tx \cup g
      OBVIOUS
    <2>5. /\ tx \subseteq f.tx /\ f.tx \subseteq tx \cup FIN \cup ACK /\ f.tx \in Flags
          /\ w.s.state = SK_CLOSING => f.tx = tx \cup FIN \cup ACK
      BY <1>2, <2>4, FlagSets
    <2> HIDE DEF f
    <2>6. FinNumbers(w, tx, f)
      BY <1>2, <2>2, <2>3, <2>4, <2>5 DEF FinNumbers
    <2> QED
      BY <2>6 DEF t, f
  <1>3. ASSUME NEW g \in {{}, ACK}, w.s.state # SK_CLOSING
        PROVE  FinNumbers(w, tx, [w |-> Close(w, "fin"), tx |-> tx \cup g])
    <2> DEFINE x == Close(w, "fin")
               f == [w |-> x, tx |-> tx \cup g]
    <2>1. /\ x.out = w.out /\ SameNumbers(w.s, x.s) /\ x.s.state = SK_CLOSED /\ Typed(x)
      BY CloseNumbers
    <2>2. x.bufs = w.bufs
      BY DEF Close, Set, Typed
    <2> HIDE DEF x
    <2>3. f.w = x /\ f.tx = tx \cup g
      OBVIOUS
    <2>4. tx \subseteq f.tx /\ f.tx \subseteq tx \cup FIN \cup ACK /\ f.tx \in Flags
      BY <1>3, <2>3, FlagSets
    <2> HIDE DEF f
    <2>5. FinNumbers(w, tx, f)
      BY <1>3, <2>1, <2>2, <2>3, <2>4 DEF FinNumbers
    <2> QED
      BY <2>5 DEF x, f
  <1>4. w.s.state # SK_CLOSING => FinNumbers(w, tx, [w |-> w, tx |-> tx])
    BY DEF FinNumbers, SameNumbers
  <1>5. /\ SK_CLOSING # SK_CLOSED /\ SK_CLOSING # SK_ESTABLISHED /\ SK_CLOSING # SK_FIN_WAIT_1
        /\ SK_CLOSING # SK_FIN_WAIT_2 /\ SK_CLOSING # SK_LAST_ACK
    BY DEF SK_CLOSING, SK_CLOSED, SK_ESTABLISHED, SK_FIN_WAIT_1, SK_FIN_WAIT_2, SK_LAST_ACK
  <1>6. tx \cup {} = tx
    OBVIOUS
  <1>7. FinNumbers(w, tx, ProcessFin(w, rx, tx))
    <2> DEFINE fin == "FIN" \in rx
               f == ProcessFin(w, rx, tx)
    <2>1. CASE w.s.state = SK_ESTABLISHED /\ fin
      <3>1. f = [w |-> Set(w, [w.s EXCEPT !.state = SK_LAST_ACK]), tx |-> tx \cup (FIN \cup ACK)]
        BY <2>1 DEF ProcessFin, SK_LAST_ACK, SK_FIN_WAIT_1, SK_FIN_WAIT_2, SK_ESTABLISHED, SK_CLOSING
      <3> QED
        BY <1>2, <3>1
    <2>2. CASE w.s.state = SK_ESTABLISHED /\ ~fin /\ "FIN" \in tx
      <3>1. f = [w |-> Set(w, [w.s EXCEPT !.state = SK_FIN_WAIT_1]), tx |-> tx \cup (FIN \cup ACK)]
        BY <2>2 DEF ProcessFin, SK_LAST_ACK, SK_FIN_WAIT_1, SK_FIN_WAIT_2, SK_ESTABLISHED, SK_CLOSING
      <3> QED
        BY <1>2, <3>1
    <2>3. CASE w.s.state \in {SK_FIN_WAIT_1, SK_FIN_WAIT_2} /\ fin
      <3>1. f = [w |-> Close(w, "fin"), tx |-> tx \cup ACK]
        BY <2>3 DEF ProcessFin, SK_LAST_ACK, SK_FIN_WAIT_1, SK_FIN_WAIT_2, SK_ESTABLISHED, SK_CLOSING
      <3> QED
        BY <1>3, <1>5, <2>3, <3>1
    <2>4. CASE w.s.state = SK_FIN_WAIT_1 /\ ~fin
      <3>1. f = [w |-> Set(w, [w.s EXCEPT !.state = SK_FIN_WAIT_2]), tx |-> tx \cup {}]
        BY <2>4 DEF ProcessFin, SK_LAST_ACK, SK_FIN_WAIT_1, SK_FIN_WAIT_2, SK_ESTABLISHED, SK_CLOSING
      <3> QED
        BY <1>2, <1>5, <2>4, <3>1
    <2>5. CASE w.s.state = SK_CLOSING
      <3>1. f = [w |-> Set(w, [w.s EXCEPT !.state = SK_LAST_ACK]), tx |-> tx \cup (FIN \cup ACK)]
        BY <2>5 DEF ProcessFin, SK_LAST_ACK, SK_FIN_WAIT_1, SK_FIN_WAIT_2, SK_ESTABLISHED, SK_CLOSING
      <3> QED
        BY <1>2, <3>1
    <2>6. CASE w.s.state = SK_LAST_ACK
      <3>1. f = [w |-> Close(w, "fin"), tx |-> tx \cup {}]
        BY <1>6, <2>6 DEF ProcessFin, SK_LAST_ACK, SK_FIN_WAIT_1, SK_FIN_WAIT_2, SK_ESTABLISHED,
           SK_CLOSING
      <3> QED
        BY <1>3, <1>5, <2>6, <3>1
    <2>7. CASE /\ ~(w.s.state = SK_ESTABLISHED /\ (fin \/ "FIN" \in tx))
               /\ ~(w.s.state = SK_FIN_WAIT_2 /\ fin)
               /\ w.s.state \notin {SK_FIN_WAIT_1, SK_CLOSING, SK_LAST_ACK}
      <3>1. f = [w |-> w, tx |-> tx]
        BY <2>7 DEF ProcessFin
      <3> QED
        BY <1>4, <2>7, <3>1
    <2> QED
      BY <2>1, <2>2, <2>3, <2>4, <2>5, <2>6, <2>7
  <1>8. w.s.state = SK_CLOSING => w.s.state > SK_ESTABLISHED
    BY DEF SK_CLOSING, SK_ESTABLISHED
  <1> QED
    BY <1>4, <1>7, <1>8 DEF MaybeFin

(* What tcp_check_sequence does to the numbers when it takes segment p: it *)
(* was next and acknowledged everything, or it was a FIN that crossed.     *)
Accepted(w, p, c) ==
    LET s == w.s t == c.w.s IN
    /\ Typed(c.w) /\ c.w.out = w.out /\ c.w.bufs = w.bufs
    /\ t.snd_nxt = s.snd_nxt /\ t.flags = s.flags /\ t.id = s.id /\ t.rid = s.rid
    /\ t.got = s.got /\ t.parts = s.parts /\ t.keepalive = s.keepalive
    /\ t.http_ack = s.http_ack /\ s.state # SK_CLOSED
    /\ p.seq = s.rcv_nxt
    /\ t.rcv_nxt = Plus(p.seq, p.len + (IF "FIN" \in p.flags THEN 1 ELSE 0))
    /\ \/ p.ack = s.snd_nxt /\ t.snd_una = s.snd_nxt /\ t.state = s.state
       \/ /\ s.state = SK_FIN_WAIT_1 /\ t.state = SK_CLOSING
          /\ t.snd_una = s.snd_una /\ p.ack = s.snd_una /\ p.ack # s.snd_nxt
          /\ "FIN" \in p.flags /\ p.len = 0

(* It does that, without a send window.                                    *)
LEMMA CheckSequenceAccepts ==
  ASSUME cfg \in Configs, NEW w, Sane(w), NEW e \in Ends, NEW p \in Packets, ~Windowed(e),
         CheckSequence(w, e, p).ok
  PROVE  Accepted(w, p, CheckSequence(w, e, p))
  <1> DEFINE s == w.s
             c == CheckSequence(w, e, p)
             len == p.len + (IF "FIN" \in p.flags THEN 1 ELSE 0)
             rcv == Plus(p.seq, len)
             gr == Grown(s, e)
             acked == s.snd_una # p.ack
             tm == IF acked /\ ~Windowed(e) THEN "none" ELSE s.timer
             taken == [s EXCEPT !.retrans = 0, !.snd_una = p.ack, !.rcv_nxt = rcv,
                                !.snd_window = gr, !.timer = tm]
             simult == s.state = SK_FIN_WAIT_1 /\ "FIN" \in p.flags
                       /\ len = 1 /\ ~acked /\ p.seq = s.rcv_nxt
             lost == s.state # SK_CLOSED /\ SeqLe(p.ack, s.snd_nxt)
  <1>1. Typed(w) /\ s \in Sockets
    BY DEF Sane, Typed
  <1>2. p.ack \in Seq /\ p.seq \in Seq /\ p.seq \in Nat /\ p.len \in Nat /\ len \in Nat
    BY PacketNumbers
  <1>3. rcv \in Seq
    <2> HIDE DEF len
    <2> QED BY <1>2, PlusType
  <1>4. gr \in 0 .. SEND_WINDOW_MAX
    <2>1. s.snd_window \in 0 .. SEND_WINDOW_MAX
      BY <1>1 DEF Sockets
    <2> QED
      BY <2>1, Numbers DEF Grown
  <1>5. tm \in {"none", "retransmit", "keepalive", "timeout"} /\ 0 \in 0 .. RETRANSMIT_NUM_MAX
    BY <1>1, Numbers DEF Sockets
  <1>6. CASE InOrder(s, p) /\ s.state # SK_CLOSED
    <2>1. c = [ok |-> TRUE, w |-> Set(w, taken)]
      BY <1>6 DEF CheckSequence
    <2> HIDE DEF gr, tm, rcv
    <2>2. /\ taken \in Sockets /\ taken.state = s.state
          /\ taken.snd_nxt = s.snd_nxt /\ taken.snd_una = p.ack /\ taken.rcv_nxt = rcv
          /\ taken.flags = s.flags /\ taken.id = s.id /\ taken.rid = s.rid /\ taken.got = s.got
          /\ taken.parts = s.parts /\ taken.keepalive = s.keepalive /\ taken.http_ack = s.http_ack
      BY <1>1, <1>2, <1>3, <1>4, <1>5 DEF Sockets
    <2> HIDE DEF taken
    <2>3. /\ Typed(Set(w, taken)) /\ Set(w, taken).s = taken /\ Set(w, taken).bufs = w.bufs
          /\ Set(w, taken).out = w.out
      BY <1>1, <2>2, SetType
    <2>4. p.seq = s.rcv_nxt /\ p.ack = s.snd_nxt
      BY <1>6 DEF InOrder
    <2>5. c.w = Set(w, taken)
      BY <2>1
    <2> HIDE DEF c
    <2>6. Accepted(w, p, c)
      BY <1>6, <2>2, <2>3, <2>4, <2>5 DEF Accepted, rcv
    <2> QED
      BY <2>6 DEF c
  <1>7. CASE ~InOrder(s, p) /\ simult
    <2> DEFINE t == [s EXCEPT !.rcv_nxt = Plus(p.seq, 1), !.state = SK_CLOSING]
    <2>1. c = [ok |-> TRUE, w |-> Set(w, t)]
      BY <1>7 DEF CheckSequence
    <2>2. p.len = 0 /\ Plus(p.seq, 1) = rcv /\ len = 1
      BY <1>2, <1>7
    <2> HIDE DEF rcv
    <2>3. /\ t \in Sockets /\ t.state = SK_CLOSING
          /\ t.snd_nxt = s.snd_nxt /\ t.snd_una = s.snd_una /\ t.rcv_nxt = rcv
          /\ t.flags = s.flags /\ t.id = s.id /\ t.rid = s.rid /\ t.got = s.got
          /\ t.parts = s.parts /\ t.keepalive = s.keepalive /\ t.http_ack = s.http_ack
      BY <1>1, <1>3, <2>2, ZenonT(60) DEF Sockets, States
    <2> HIDE DEF t
    <2>4. /\ Typed(Set(w, t)) /\ Set(w, t).s = t /\ Set(w, t).bufs = w.bufs
          /\ Set(w, t).out = w.out
      BY <1>1, <2>3, SetType
    <2>5. p.seq = s.rcv_nxt /\ p.ack # s.snd_nxt /\ p.ack = s.snd_una /\ s.state # SK_CLOSED
      BY <1>7 DEF InOrder, SK_FIN_WAIT_1, SK_CLOSED
    <2>6. c.w = Set(w, t)
      BY <2>1
    <2> HIDE DEF c
    <2>7. Accepted(w, p, c)
      BY <1>7, <2>2, <2>3, <2>4, <2>5, <2>6 DEF Accepted, rcv
    <2> QED
      BY <2>7 DEF c
  <1>8. CASE ~(InOrder(s, p) /\ s.state # SK_CLOSED) /\ ~(~InOrder(s, p) /\ simult)
    <2>1. c.ok = FALSE
      <3>1. CASE InOrder(s, p)
        BY <1>8, <3>1 DEF CheckSequence
      <3>2. CASE ~InOrder(s, p)
        <4>1. c = [ok |-> FALSE, w |-> IF lost /\ Paused(s) THEN DoRetransmit(w, e) ELSE w]
          BY <1>8, <3>2 DEF CheckSequence
        <4> QED
          BY <4>1
      <3> QED
        BY <3>1, <3>2
    <2> QED
      BY <2>1
  <1> QED
    BY <1>6, <1>7, <1>8

(* tcp_do_retransmit keeps the numbers, or sends again.                    *)
LEMMA DoRetransmitSends ==
  ASSUME cfg \in Configs, NEW w, Sane(w), w.s.state # SK_CLOSED, NEW e \in Ends, ~Windowed(e),
         NEW n
  PROVE  LET r == DoRetransmit(w, e) IN
         /\ Typed(r) /\ r.s.state \in {w.s.state, SK_CLOSED}
         /\ \/ r.out = w.out /\ SameNumbers(w.s, r.s)
            \/ /\ w.s.snd_nxt # w.s.snd_una
               /\ \E x \in Sockets : /\ SameNumbers(w.s, x) /\ x.state = w.s.state
                                     /\ Sends(x, r.s, e, w.s.flags, n \cup w.out, n \cup r.out)
  <1> DEFINE r == DoRetransmit(w, e)
  <1>1. Typed(w) /\ w.s \in Sockets /\ Sane(r) /\ Typed(r)
    BY DoRetransmitSane DEF Sane, Typed
  <1>2. CASE w.s.snd_nxt = w.s.snd_una
    <2>1. r = Set(w, [w.s EXCEPT !.retrans = 0])
      BY <1>2 DEF DoRetransmit
    <2>2. r.s = [w.s EXCEPT !.retrans = 0] /\ r.out = w.out
      BY <1>1, <2>1 DEF Set, Typed
    <2>3. SameNumbers(w.s, r.s) /\ r.s.state = w.s.state
      BY <1>1, <2>2 DEF SameNumbers, Sockets
    <2> QED
      BY <1>1, <2>2, <2>3
  <1>3. CASE w.s.snd_nxt # w.s.snd_una
    <2> DEFINE k == w.s.retrans + 1
               t == [w.s EXCEPT !.retrans = k]
               x == Set(w, t)
    <2>1. w.s.retrans < RETRANSMIT_NUM_MAX /\ w.s.retrans \in 0 .. RETRANSMIT_NUM_MAX
      BY <1>1 DEF Sane, Linked, Sockets
    <2>2. k \in 0 .. RETRANSMIT_NUM_MAX
      BY <2>1, Numbers
    <2> HIDE DEF k
    <2>3. t \in Sockets /\ t.state = w.s.state /\ SameNumbers(w.s, t)
      BY <1>1, <2>2 DEF Sockets, SameNumbers
    <2> HIDE DEF t
    <2>4. Typed(x) /\ x.s = t /\ x.out = w.out
      BY <1>1, <2>3, SetType
    <2> HIDE DEF x
    <2>5. CASE k >= RETRANSMIT_NUM_MAX
      <3>1. r = Close(x, "error")
        BY <1>3, <2>2, <2>5, Numbers DEF DoRetransmit, GiveUp, x, k, t
      <3>2. r.out = w.out /\ SameNumbers(t, r.s) /\ r.s.state = SK_CLOSED
        BY <2>4, <3>1, CloseNumbers
      <3>3. SameNumbers(w.s, r.s)
        BY <2>3, <3>2 DEF SameNumbers
      <3> QED
        BY <1>1, <3>2, <3>3
    <2>6. CASE k < RETRANSMIT_NUM_MAX
      <3>1. r = Reply(x, e, w.s.flags)
        BY <1>3, <2>2, <2>6, Numbers DEF DoRetransmit, x, k, t
      <3>2. w.s.flags \in Flags
        BY <1>1, SocketNumbers
      <3>3. Sends(t, r.s, e, w.s.flags, n \cup w.out, n \cup r.out)
        BY <2>4, <3>1, <3>2, ReplySends
      <3>4. r.s.state = w.s.state
        BY <2>3, <3>3 DEF Sends
      <3> QED
        BY <1>1, <1>3, <2>3, <3>3, <3>4
    <2>7. k >= RETRANSMIT_NUM_MAX \/ k < RETRANSMIT_NUM_MAX
      BY <2>2, Numbers
    <2> QED
      BY <2>5, <2>6, <2>7, Zenon
  <1> QED
    BY <1>2, <1>3, Zenon

(* tcp_check_sequence refuses a segment without a trace, or resends.       *)
LEMMA CheckSequenceRefuses ==
  ASSUME NEW w, NEW e, NEW p, ~Windowed(e), ~CheckSequence(w, e, p).ok
  PROVE  LET c == CheckSequence(w, e, p) IN
         \/ c.w = w
         \/ w.s.state = SK_CLOSED /\ c.w = Set(w, [w.s EXCEPT !.retrans = 0])
         \/ w.s.state # SK_CLOSED /\ c.w = DoRetransmit(w, e)
  <1> DEFINE s == w.s
             c == CheckSequence(w, e, p)
             len == p.len + (IF "FIN" \in p.flags THEN 1 ELSE 0)
             simult == s.state = SK_FIN_WAIT_1 /\ "FIN" \in p.flags
                       /\ len = 1 /\ ~(s.snd_una # p.ack) /\ p.seq = s.rcv_nxt
             lost == s.state # SK_CLOSED /\ SeqLe(p.ack, s.snd_nxt)
  <1>1. CASE InOrder(s, p) /\ s.state # SK_CLOSED
    BY <1>1 DEF CheckSequence
  <1>2. CASE InOrder(s, p) /\ s.state = SK_CLOSED
    <2>1. c = [ok |-> FALSE, w |-> Set(w, [s EXCEPT !.retrans = 0])]
      BY <1>2 DEF CheckSequence
    <2>2. c.w = Set(w, [s EXCEPT !.retrans = 0])
      BY <2>1
    <2> QED
      BY <1>2, <2>2, Zenon
  <1>3. CASE ~InOrder(s, p) /\ simult
    BY <1>3 DEF CheckSequence
  <1>4. CASE ~InOrder(s, p) /\ ~simult
    <2>1. c = [ok |-> FALSE, w |-> IF lost /\ Paused(s) THEN DoRetransmit(w, e) ELSE w]
      BY <1>4 DEF CheckSequence
    <2>2. c.w = IF lost /\ Paused(s) THEN DoRetransmit(w, e) ELSE w
      BY <2>1
    <2> QED
      BY <2>2, Zenon
  <1> QED
    BY <1>1, <1>2, <1>3, <1>4

(* A segment in flight that is no SYN moves rcv_nxt to its end.            *)
LEMMA EndOfSegment ==
  ASSUME NEW o \in Sockets, NEW s, NEW e \in Ends, NEW n \in SUBSET Packets,
         Bounded(o, s, e, n), NEW p \in n, p.from = e
  PROVE  /\ End(p) <= o.snd_nxt /\ "URG" \notin p.flags
         /\ p.flags \cap SYN = {} =>
               Plus(p.seq, p.len + (IF "FIN" \in p.flags THEN 1 ELSE 0)) = End(p)
         /\ p.flags = SYN => Plus(p.seq, 1) = End(p)
         /\ p.flags = SYN \cup ACK => Plus(p.seq, 1) = End(p)
         /\ p.len > 0 => "PUSH" \in p.flags
  <1>1. p.len = DataLen(e, p.flags) /\ End(p) <= o.snd_nxt /\ "URG" \notin p.flags
    BY DEF Bounded
  <1>2. p \in Packets /\ p.seq \in Nat /\ p.len \in Nat /\ End(p) \in Nat /\ p.flags \in Flags
    BY PacketNumbers
  <1>3. o.snd_nxt \in Nat /\ o.snd_nxt < SeqMod /\ SeqMod \in Nat
    BY SocketNumbers, Numbers
  <1>4. ASSUME NEW k \in Nat, p.seq + k = End(p) PROVE Plus(p.seq, k) = End(p)
    BY <1>1, <1>2, <1>3, <1>4, PlusForward
  <1>5. ASSUME p.flags \cap SYN = {}
        PROVE  Plus(p.seq, p.len + (IF "FIN" \in p.flags THEN 1 ELSE 0)) = End(p)
    <2>1. SegLen(e, p.flags) = p.len + (IF "FIN" \in p.flags THEN 1 ELSE 0)
      BY <1>1, <1>5 DEF SegLen, DataLen, SYN, FIN
    <2> QED
      BY <1>2, <1>4, <2>1 DEF End
  <1>6. ASSUME p.flags = SYN \/ p.flags = SYN \cup ACK PROVE Plus(p.seq, 1) = End(p)
    <2>1. SegLen(e, p.flags) = 1
      BY <1>6 DEF SegLen, SYN, ACK
    <2> QED
      BY <1>2, <1>4, <2>1 DEF End
  <1>7. p.len > 0 => "PUSH" \in p.flags
    BY <1>1 DEF DataLen
  <1> QED
    BY <1>1, <1>5, <1>6, <1>7

(* Taking a segment keeps the bounds.                                      *)
LEMMA AcceptBounded ==
  ASSUME NEW s \in Sockets, NEW o \in Sockets, NEW t \in Sockets, NEW e \in Ends, NEW n,
         Bounded(s, o, e, n), Bounded(o, s, Other(e), n),
         t.snd_nxt = s.snd_nxt, t.flags = s.flags, t.snd_una \in {s.snd_una, s.snd_nxt},
         t.rcv_nxt <= o.snd_nxt
  PROVE  Bounded(t, o, e, n) /\ Bounded(o, t, Other(e), n)
  <1>1. s.snd_nxt \in Nat
    BY SocketNumbers
  <1> QED
    BY <1>1 DEF Bounded

-----------------------------------------------------------------------------
(* A handler of the server that was run on w and left r.                   *)
ServerDone(c, w, n, r) ==
    /\ Typed(r) /\ Delivery(c, r.s, n \cup r.out)
    /\ r.s.got # w.s.got => r.s.id > w.s.id

(* It did nothing.                                                         *)
LEMMA ServerNothing ==
  ASSUME NEW c \in Sockets, NEW n, NEW w, Typed(w), Delivery(c, w.s, n \cup w.out),
         NEW r, Typed(r), SameNumbers(w.s, r.s), r.out = w.out
  PROVE  ServerDone(c, w, n, r)
  <1>1. w.s \in Sockets /\ r.s \in Sockets
    BY DEF Typed
  <1> QED
    BY <1>1, ServerRests DEF ServerDone, SameNumbers

(* tcp_do_retransmit on the server.                                        *)
LEMMA ServerRetransmits ==
  ASSUME cfg \in Configs, NEW c \in Sockets, NEW n \in SUBSET Packets, NEW w, Sane(w),
         Delivery(c, w.s, n \cup w.out), w.s.state # SK_CLOSED, SendWindow = 0
  PROVE  ServerDone(c, w, n, DoRetransmit(w, "s"))
  <1> DEFINE r == DoRetransmit(w, "s")
  <1>1. "s" \in Ends /\ ~Windowed("s") /\ Typed(w) /\ w.s \in Sockets /\ w.out \in SUBSET Packets
    BY DEF Ends, Windowed, Sane, Typed
  <1>2. /\ Typed(r)
        /\ \/ r.out = w.out /\ SameNumbers(w.s, r.s)
           \/ /\ w.s.snd_nxt # w.s.snd_una
              /\ \E x \in Sockets : /\ SameNumbers(w.s, x) /\ x.state = w.s.state
                                    /\ Sends(x, r.s, "s", w.s.flags, n \cup w.out, n \cup r.out)
    BY <1>1, DoRetransmitSends
  <1> HIDE DEF r
  <1>3. CASE r.out = w.out /\ SameNumbers(w.s, r.s)
    BY <1>1, <1>2, <1>3, ServerNothing DEF r
  <1>4. CASE /\ w.s.snd_nxt # w.s.snd_una
             /\ \E x \in Sockets : /\ SameNumbers(w.s, x) /\ x.state = w.s.state
                                   /\ Sends(x, r.s, "s", w.s.flags, n \cup w.out, n \cup r.out)
    <2>1. PICK x \in Sockets : /\ SameNumbers(w.s, x) /\ x.state = w.s.state
                               /\ Sends(x, r.s, "s", w.s.flags, n \cup w.out, n \cup r.out)
      BY <1>4
    <2>2. Delivery(c, x, n \cup w.out)
      BY <1>1, <2>1, ServerRests
    <2>3. x.flags = w.s.flags /\ x.snd_una # x.snd_nxt /\ r.s \in Sockets
      BY <1>2, <1>4, <2>1 DEF SameNumbers, Typed
    <2>4. n \cup w.out \in SUBSET Packets
      BY <1>1
    <2>5. Delivery(c, r.s, n \cup r.out)
      BY <2>1, <2>2, <2>3, <2>4, ServerSendsAgain
    <2>6. r.s.got = w.s.got
      BY <2>1 DEF Sends, SameNumbers
    <2> QED
      BY <1>2, <2>5, <2>6 DEF ServerDone, r
  <1> QED
    BY <1>2, <1>3, <1>4

(* tcp_server_process_syn.                                                 *)
LEMMA ServerSynDelivers ==
  ASSUME cfg \in Configs, NEW c \in Sockets, NEW n \in SUBSET Packets, NEW w, Sane(w),
         Delivery(c, w.s, n \cup w.out), w.s.snd_nxt + Room < SeqMod,
         NEW p \in n, p.from = "c", p.flags = SYN
  PROVE  ServerDone(c, w, n, ServerProcessSyn(w, p))
  <1> DEFINE r == ServerProcessSyn(w, p)
             N == n \cup w.out
             g == SYN \cup ACK
  <1>1. /\ "s" \in Ends /\ "c" \in Ends /\ Typed(w) /\ w.s \in Sockets /\ N \in SUBSET Packets
        /\ g \in Flags /\ "PUSH" \notin g /\ "URG" \notin g /\ Other("s") = "c" /\ Other("c") = "s"
        /\ p \in Packets /\ p \in N
    BY FlagSets DEF Ends, Sane, Typed, SYN, ACK, Other
  <1>2. w.s.snd_nxt \in Nat /\ w.s.snd_nxt + 3 < SeqMod /\ SeqMod \in Nat
    BY <1>1, SocketNumbers, Numbers DEF Room
  <1>3. ASSUME NEW x, Typed(x), ServerHeld(c, x.s, N), x.out = w.out, x.s.snd_nxt + 1 < SeqMod,
               x.s.got = w.s.got
        PROVE  ServerDone(c, w, n, Reply(x, "s", g))
    <2> DEFINE y == Reply(x, "s", g)
    <2>1. Typed(y) /\ Sends(x.s, y.s, "s", g, N, n \cup y.out)
      BY <1>1, <1>3, ReplySends
    <2> HIDE DEF y
    <2>2. x.s \in Sockets /\ y.s \in Sockets
      BY <1>3, <2>1 DEF Typed
    <2>3. Delivery(c, y.s, n \cup y.out)
      BY <1>1, <1>3, <2>1, <2>2, ServerSendsPlain
    <2>4. y.s.got = w.s.got
      BY <1>3, <2>1 DEF Sends
    <2> QED
      BY <2>1, <2>3, <2>4 DEF ServerDone, y
  <1>4. ServerDone(c, w, n, w) /\ w.s.snd_nxt + 1 < SeqMod
    BY <1>1, <1>2 DEF ServerDone
  <1>5. CASE w.s.state = SK_CLOSED
    <2> DEFINE x == Opened(w, p)
               iss == Plus(w.s.snd_nxt, 1)
               rcv == Plus(p.seq, 1)
               t == [w.s EXCEPT !.state = SK_SYN_RECEIVED, !.timer = "none",
                                !.retrans = 0, !.reqnum = 0, !.snd_window = 1,
                                !.snd_nxt = iss, !.snd_una = iss, !.rcv_nxt = rcv]
    <2>1. r = Reply(x, "s", g) /\ Sane(x)
      <3>1. r = ServerOpen(w, p)
        BY <1>5 DEF ServerProcessSyn, SK_SYN_RECEIVED, SK_CLOSED
      <3> HIDE DEF r, x
      <3> QED
        BY <1>1, <3>1, OpenedFacts DEF x
    <2>2. iss = w.s.snd_nxt + 1
      BY <1>2, PlusForward
    <2>3. Bounded(c, w.s, "c", N) /\ Bounded(w.s, c, "s", N)
          /\ Order(c, w.s, Data(c, "c", N), Data(w.s, "s", N))
      BY DEF Delivery
    <2>4. rcv = End(p) /\ rcv <= c.snd_nxt
      BY <1>1, <2>3, EndOfSegment
    <2>5. x.s = t /\ x.out = w.out
      BY <1>1 DEF Opened, Set, Typed
    <2>6. x.s \in Sockets
      BY <2>1 DEF Sane, Typed
    <2> HIDE DEF x, iss, rcv
    <2>7. /\ t.snd_nxt = iss /\ t.snd_una = iss /\ t.rcv_nxt = rcv /\ t.flags = w.s.flags
          /\ t.id = w.s.id /\ t.got = w.s.got
      BY <1>1 DEF Sockets
    <2> HIDE DEF t
    <2>8. c.rcv_nxt \in Nat /\ c.rcv_nxt <= w.s.snd_nxt /\ t \in Sockets
      BY <2>3, <2>5, <2>6, SocketNumbers DEF Bounded
    <2>9. Bounded(t, c, "s", N)
      <3>1. \A q \in N : End(q) \in Nat /\ q.ack \in Nat
        BY <1>1, PacketNumbers
      <3> QED
        BY <1>2, <2>2, <2>3, <2>7, <2>8, <3>1 DEF Bounded
    <2>10. Bounded(c, t, "c", N)
      BY <2>3, <2>4, <2>7 DEF Bounded
    <2>11. Order(c, t, Data(c, "c", N), SentData("s", N))
      <3>1. DataBounds(c, w.s, "c", Data(c, "c", N))
        BY <1>1, <2>3, BoundsOfData
      <3>2. SentData("s", N) \subseteq Data(w.s, "s", N)
        BY DEF Data
      <3>3. t.snd_nxt > w.s.snd_nxt /\ t.id <= c.id
        BY <1>2, <2>2, <2>3, <2>7 DEF Order, RequestsNumbered
      <3> HIDE DEF N
      <3> QED
        BY <1>1, <2>3, <2>8, <3>1, <3>2, <3>3, ServerGoesOn
    <2>12. ServerHeld(c, t, N)
      BY <2>9, <2>10, <2>11 DEF ServerHeld
    <2>13. t.snd_nxt + 1 < SeqMod
      BY <1>2, <2>2, <2>7
    <2> QED
      BY <1>3, <2>1, <2>5, <2>7, <2>12, <2>13 DEF Sane
  <1>6. CASE w.s.state # SK_CLOSED
    <2>1. r \in {w, Reply(w, "s", g)}
      BY <1>6 DEF ServerProcessSyn
    <2>2. ServerHeld(c, w.s, N)
      BY HeldIsDelivery
    <2> HIDE DEF N, g
    <2>3. ServerDone(c, w, n, Reply(w, "s", g))
      BY <1>1, <1>3, <1>4, <2>2
    <2> QED
      BY <1>4, <2>1, <2>3
  <1> QED
    BY <1>5, <1>6

(* The server's socket once a segment is taken and its id set.             *)
TakenBy(w, p, c, y) ==
    LET s == w.s t == y.s serve == p.len > 0 /\ t.state = SK_ESTABLISHED IN
    /\ Typed(y) /\ y.out = w.out
    /\ t.snd_nxt = s.snd_nxt /\ t.flags = s.flags /\ t.rid = s.rid
    /\ t.snd_una = c.w.s.snd_una /\ t.rcv_nxt = c.w.s.rcv_nxt
    /\ t.id = IF serve THEN p.id ELSE s.id
    /\ t.got = IF serve THEN s.got + 1 ELSE s.got
    /\ c.w.s.state = SK_CLOSING => t.state = SK_CLOSING

(* tcp_server_process_data without a send window: take the segment, serve  *)
(* the request, process the FIN, answer.                                   *)
LEMMA ServerDataSteps ==
  ASSUME cfg \in Configs, NEW w, Sane(w), NEW p \in Packets, SendWindow = 0,
         CheckSequence(w, "s", p).ok
  PROVE  \E y, f :
           LET c == CheckSequence(w, "s", p)
               serve == p.len > 0 /\ y.s.state = SK_ESTABLISHED
               tx == PUSH \cup ACK \cup (IF y.s.keepalive THEN {} ELSE FIN)
           IN  /\ TakenBy(w, p, c, y)
               /\ FinNumbers(y, IF serve THEN tx ELSE {}, f)
               /\ ServerProcessData(w, p) =
                     IF f.tx # {} THEN Reply(f.w, "s", f.tx) ELSE NothingToAnswer(f.w)
  <1> DEFINE r == ServerProcessData(w, p)
             c == CheckSequence(w, "s", p)
             st == IF c.w.s.state < SK_ESTABLISHED THEN SK_ESTABLISHED ELSE c.w.s.state
             t == [c.w.s EXCEPT !.state = st]
             x == Set(c.w, t)
             u == [x.s EXCEPT !.id = p.id, !.got = @ + 1]
             q == Set(x, u)
             fin == IF x.s.keepalive THEN {} ELSE FIN
             full == PUSH \cup ACK \cup fin
             serve == x.s.state = SK_ESTABLISHED /\ p.len > 0
             f == IF serve THEN MaybeFin(q, p.flags, full) ELSE MaybeFin(x, p.flags, {})
  <1>1. "s" \in Ends /\ p.flags \in Flags /\ ~Windowed("s")
    BY DEF Ends, Packets, Windowed
  <1>2. Accepted(w, p, c)
    BY <1>1, CheckSequenceAccepts
  <1>3. r = IF f.tx # {} THEN Reply(f.w, "s", f.tx) ELSE NothingToAnswer(f.w)
    BY <1>1 DEF ServerProcessData, ServerTakeRequest
  <1> HIDE DEF c, r
  <1>4. Typed(c.w) /\ c.w.s \in Sockets /\ c.w.out = w.out
    BY <1>2 DEF Accepted, Typed
  <1>5. st \in States /\ (c.w.s.state = SK_CLOSING => st = SK_CLOSING)
    BY <1>4 DEF Sockets, States, SK_ESTABLISHED, SK_CLOSING
  <1> HIDE DEF st
  <1>6. /\ t \in Sockets /\ t.state = st /\ t.snd_nxt = c.w.s.snd_nxt /\ t.flags = c.w.s.flags
        /\ t.rid = c.w.s.rid /\ t.snd_una = c.w.s.snd_una /\ t.rcv_nxt = c.w.s.rcv_nxt
        /\ t.id = c.w.s.id /\ t.got = c.w.s.got /\ t.keepalive = c.w.s.keepalive
    BY <1>4, <1>5 DEF Sockets
  <1> HIDE DEF t
  <1>7. Typed(x) /\ x.s = t /\ x.out = w.out
    BY <1>4, <1>6, SetType
  <1> HIDE DEF x
  <1>8. full \in Flags /\ {} \in Flags
    BY FlagSets
  <1>9. CASE ~serve
    <2>1. f = MaybeFin(x, p.flags, {})
      BY <1>9
    <2> HIDE DEF f
    <2>2. FinNumbers(x, {}, f)
      BY <1>7, <1>8, <2>1, MaybeFinNumbers
    <2>3. TakenBy(w, p, c, x)
      BY <1>2, <1>5, <1>6, <1>7, <1>9 DEF TakenBy, Accepted
    <2>4. ~(p.len > 0 /\ x.s.state = SK_ESTABLISHED)
      BY <1>9
    <2> QED
      BY <1>3, <2>2, <2>3, <2>4 DEF c, r
  <1>10. CASE serve
    <2>1. f = MaybeFin(q, p.flags, full)
      BY <1>10
    <2> HIDE DEF f
    <2>2. x.s \in Sockets /\ p.id \in Nat /\ x.s.got + 1 \in Nat
      <3>1. x.s \in Sockets
        BY <1>7 DEF Typed
      <3> QED
        BY <3>1 DEF Sockets, Packets
    <2>3. /\ u \in Sockets /\ u.state = x.s.state /\ u.snd_nxt = x.s.snd_nxt
          /\ u.flags = x.s.flags /\ u.rid = x.s.rid /\ u.snd_una = x.s.snd_una
          /\ u.rcv_nxt = x.s.rcv_nxt /\ u.id = p.id /\ u.got = x.s.got + 1
          /\ u.keepalive = x.s.keepalive
      BY <2>2 DEF Sockets
    <2> HIDE DEF u
    <2>4. Typed(q) /\ q.s = u /\ q.out = w.out
      BY <1>7, <2>3, SetType
    <2> HIDE DEF q
    <2>5. FinNumbers(q, full, f)
      BY <1>8, <2>1, <2>4, MaybeFinNumbers
    <2>6. TakenBy(w, p, c, q)
      BY <1>2, <1>5, <1>6, <1>7, <1>10, <2>3, <2>4 DEF TakenBy, Accepted
    <2>7. /\ p.len > 0 /\ q.s.state = SK_ESTABLISHED
          /\ full = PUSH \cup ACK \cup (IF q.s.keepalive THEN {} ELSE FIN)
      BY <1>10, <2>3, <2>4
    <2> HIDE DEF full, fin
    <2> QED
      BY <1>3, <2>5, <2>6, <2>7 DEF c, r
  <1> QED
    BY <1>9, <1>10

(* Taking segment p, served or not, keeps the order of what is in flight.  *)
LEMMA ServerTakesSegment ==
  ASSUME NEW c \in Sockets, NEW n \in SUBSET Packets, NEW w, Typed(w), Delivery(c, w.s, n),
         NEW p \in n, p.from = "c", p.flags \cap SYN = {},
         NEW d, Accepted(w, p, d), NEW y, TakenBy(w, p, d, y)
  PROVE  /\ ServerHeld(c, y.s, n)
         /\ y.s.rcv_nxt = End(p)
         /\ y.s.state = SK_CLOSING \/ (y.s.snd_una = y.s.snd_nxt /\ p.ack = y.s.snd_nxt)
         /\ p.len > 0 /\ y.s.state = SK_ESTABLISHED => p \in SentData("c", n)
         /\ y.s.got # w.s.got => y.s.id > w.s.id
  <1> DEFINE s == w.s
             t == y.s
             dc == Data(c, "c", n)
             ds == Data(s, "s", n)
             es == SentData("s", n)
             serve == p.len > 0 /\ t.state = SK_ESTABLISHED
  <1>1. /\ "s" \in Ends /\ "c" \in Ends /\ Other("s") = "c" /\ Other("c") = "s"
        /\ s \in Sockets /\ t \in Sockets /\ p \in Packets
    BY DEF Ends, Other, Typed, TakenBy
  <1>2. Bounded(c, s, "c", n) /\ Bounded(s, c, "s", n) /\ Order(c, s, dc, ds)
    BY DEF Delivery
  <1>3. /\ End(p) <= c.snd_nxt /\ (p.len > 0 => "PUSH" \in p.flags)
        /\ Plus(p.seq, p.len + (IF "FIN" \in p.flags THEN 1 ELSE 0)) = End(p)
    BY <1>1, <1>2, EndOfSegment
  <1>4. /\ t.snd_nxt = s.snd_nxt /\ t.flags = s.flags /\ t.rcv_nxt = End(p) /\ p.seq = s.rcv_nxt
        /\ t.snd_una \in {s.snd_una, s.snd_nxt}
        /\ t.state = SK_CLOSING \/ (t.snd_una = s.snd_nxt /\ p.ack = s.snd_nxt)
    <2>1. /\ p.seq = s.rcv_nxt /\ d.w.s.rcv_nxt = End(p)
          /\ \/ d.w.s.snd_una = s.snd_nxt /\ p.ack = s.snd_nxt
             \/ d.w.s.snd_una = s.snd_una /\ d.w.s.state = SK_CLOSING
      BY <1>3 DEF Accepted
    <2>2. /\ t.snd_nxt = s.snd_nxt /\ t.flags = s.flags /\ t.rcv_nxt = d.w.s.rcv_nxt
          /\ t.snd_una = d.w.s.snd_una /\ (d.w.s.state = SK_CLOSING => t.state = SK_CLOSING)
      BY DEF TakenBy
    <2> HIDE DEF s, t
    <2>3. CASE d.w.s.snd_una = s.snd_nxt /\ p.ack = s.snd_nxt
      BY <2>1, <2>2, <2>3, Zenon
    <2>4. CASE d.w.s.snd_una = s.snd_una /\ d.w.s.state = SK_CLOSING
      BY <2>1, <2>2, <2>4, Zenon
    <2> QED
      BY <2>1, <2>3, <2>4
  <1>5. Bounded(t, c, "s", n) /\ Bounded(c, t, "c", n)
    BY <1>1, <1>2, <1>3, <1>4, AcceptBounded
  <1>6. DataBounds(c, s, "c", dc) /\ es \subseteq ds
    BY <1>1, <1>2, BoundsOfData DEF Data
  <1>7. t.rcv_nxt >= s.rcv_nxt
    <2>1. SegLen(p.from, p.flags) \in Nat /\ p.seq \in Nat
      BY <1>1, PacketNumbers, LengthType
    <2> QED
      BY <1>4, <2>1 DEF End
  <1>8. CASE serve
    <2>1. t.id = p.id /\ p \in SentData("c", n)
      BY <1>3, <1>8 DEF TakenBy, SentData
    <2>2. p \in dc
      BY <2>1 DEF Data
    <2>3. p.ack = s.snd_nxt
      BY <1>4, <1>8 DEF SK_CLOSING, SK_ESTABLISHED
    <2>4. p.id > s.id
      <3>1. p.seq >= s.rcv_nxt
        BY <1>1, <1>4, PacketNumbers
      <3> QED
        BY <1>2, <2>2, <2>3, <3>1 DEF Order, NotServedYet
    <2> HIDE DEF dc, ds, es
    <2>5. Order(c, t, dc, es)
      BY <1>1, <1>2, <1>4, <1>6, <2>1, <2>2, ServerTakes
    <2> QED
      BY <1>4, <1>5, <2>1, <2>4, <2>5 DEF ServerHeld, dc, es
  <1>9. CASE ~serve
    <2>1. t.id = s.id /\ t.got = s.got /\ s.id <= c.id
      BY <1>2, <1>9 DEF TakenBy, Order, RequestsNumbered
    <2> HIDE DEF dc, ds, es
    <2>2. Order(c, t, dc, es)
      BY <1>1, <1>2, <1>4, <1>6, <1>7, <2>1, ServerGoesOn
    <2> QED
      BY <1>4, <1>5, <1>9, <2>1, <2>2 DEF ServerHeld, dc, es
  <1> QED
    BY <1>8, <1>9

(* A timer has nothing to do with the numbers.                             *)
LEMMA TimerNumbers ==
  ASSUME NEW s \in Sockets, NEW q \in {"none", "retransmit", "keepalive", "timeout"},
         NEW a \in 0 .. AgeMax
  PROVE  LET t == AddTimer(s, q, a) IN
         t \in Sockets /\ SameNumbers(s, t) /\ t.state = s.state
  <1> DEFINE t == [s EXCEPT !.timer = q, !.age = a]
  <1>1. t \in Sockets
    BY DEF Sockets
  <1>2. SameNumbers(s, t) /\ t.state = s.state
    BY DEF Sockets, SameNumbers
  <1> QED
    BY <1>1, <1>2 DEF AddTimer

(* tcp_server_process_data.                                                *)
LEMMA ServerDataDelivers ==
  ASSUME cfg \in Configs, NEW c \in Sockets, NEW n \in SUBSET Packets, NEW w, Sane(w),
         Delivery(c, w.s, n), w.out = {}, w.s.snd_nxt + Room < SeqMod, SendWindow = 0,
         NEW p \in n, p.from = "c", p.flags \cap SYN = {}
  PROVE  ServerDone(c, w, n, ServerProcessData(w, p))
  <1> DEFINE r == ServerProcessData(w, p)
             d == CheckSequence(w, "s", p)
  <1>1. /\ "s" \in Ends /\ ~Windowed("s") /\ Typed(w) /\ w.s \in Sockets /\ p \in Packets
        /\ n \cup w.out = n
    BY DEF Ends, Windowed, Sane, Typed
  <1>2. CASE ~d.ok
    <2>1. r = d.w
      BY <1>2 DEF ServerProcessData
    <2>2. \/ d.w = w
          \/ w.s.state = SK_CLOSED /\ d.w = Set(w, [w.s EXCEPT !.retrans = 0])
          \/ w.s.state # SK_CLOSED /\ d.w = DoRetransmit(w, "s")
      BY <1>1, <1>2, CheckSequenceRefuses
    <2> HIDE DEF d, r
    <2>3. CASE d.w = w
      BY <1>1, <2>1, <2>3 DEF ServerDone, r
    <2>4. CASE w.s.state = SK_CLOSED /\ d.w = Set(w, [w.s EXCEPT !.retrans = 0])
      <3> DEFINE t == [w.s EXCEPT !.retrans = 0]
      <3>1. t \in Sockets /\ SameNumbers(w.s, t)
        BY <1>1, Numbers DEF Sockets, SameNumbers
      <3> HIDE DEF t
      <3>2. Typed(Set(w, t)) /\ Set(w, t).s = t /\ Set(w, t).out = w.out
        BY <1>1, <3>1, SetType
      <3>3. ServerDone(c, w, n, Set(w, t))
        BY <1>1, <3>1, <3>2, ServerNothing
      <3> QED
        BY <2>1, <2>4, <3>3 DEF r, t
    <2>5. CASE w.s.state # SK_CLOSED /\ d.w = DoRetransmit(w, "s")
      <3>1. ServerDone(c, w, n, DoRetransmit(w, "s"))
        BY <1>1, <2>5, ServerRetransmits
      <3> QED
        BY <2>1, <2>5, <3>1 DEF r
    <2> QED
      BY <2>2, <2>3, <2>4, <2>5
  <1>3. CASE d.ok
    <2>1. Accepted(w, p, d)
      BY <1>1, <1>3, CheckSequenceAccepts
    <2>2. \E y, f :
             LET serve == p.len > 0 /\ y.s.state = SK_ESTABLISHED
                 tx == PUSH \cup ACK \cup (IF y.s.keepalive THEN {} ELSE FIN)
             IN  /\ TakenBy(w, p, d, y)
                 /\ FinNumbers(y, IF serve THEN tx ELSE {}, f)
                 /\ r = IF f.tx # {} THEN Reply(f.w, "s", f.tx) ELSE NothingToAnswer(f.w)
      BY <1>1, <1>3, ServerDataSteps
    <2> HIDE DEF d, r
    <2>3. PICK y, f :
             /\ TakenBy(w, p, d, y)
             /\ FinNumbers(y, IF p.len > 0 /\ y.s.state = SK_ESTABLISHED
                              THEN PUSH \cup ACK \cup (IF y.s.keepalive THEN {} ELSE FIN)
                              ELSE {}, f)
             /\ r = IF f.tx # {} THEN Reply(f.w, "s", f.tx) ELSE NothingToAnswer(f.w)
      BY <2>2
    <2> DEFINE serve == p.len > 0 /\ y.s.state = SK_ESTABLISHED
               t == f.w.s
    <2>4. /\ ServerHeld(c, y.s, n) /\ y.s.rcv_nxt = End(p)
          /\ y.s.state = SK_CLOSING \/ (y.s.snd_una = y.s.snd_nxt /\ p.ack = y.s.snd_nxt)
          /\ serve => p \in SentData("c", n)
          /\ y.s.got # w.s.got => y.s.id > w.s.id
      BY <1>1, <2>1, <2>3, ServerTakesSegment
    <2>5. /\ y.s \in Sockets /\ t \in Sockets /\ SameNumbers(y.s, t) /\ Typed(f.w) /\ f.w.out = {}
          /\ f.tx \in Flags /\ t.snd_nxt = w.s.snd_nxt
      BY <2>3 DEF TakenBy, FinNumbers, Typed, SameNumbers
    <2>6. ServerHeld(c, t, n)
      BY <2>4, <2>5, ServerRests
    <2>7. t.rcv_nxt = End(p) /\ t.id = y.s.id /\ t.got = y.s.got
          /\ (y.s.state = SK_CLOSING \/ (t.snd_una = t.snd_nxt /\ p.ack = t.snd_nxt))
      BY <2>4, <2>5 DEF SameNumbers
    <2>8. "URG" \notin f.tx /\ ("PUSH" \in f.tx <=> serve) /\ (y.s.state = SK_CLOSING => f.tx # {})
      BY <2>3 DEF FinNumbers, PUSH, ACK, FIN
    <2>9. /\ t.snd_nxt + 1 < SeqMod /\ t.snd_nxt + SegLen("s", f.tx) < SeqMod
      <3>1. SegLen("s", f.tx) <= RspLen + 1
        BY Numbers DEF SegLen
      <3>2. SegLen("s", f.tx) \in Nat /\ t.snd_nxt \in Nat
        BY <1>1, <2>5, LengthType, SocketNumbers
      <3> QED
        BY <2>5, <3>1, <3>2, Numbers DEF Room
    <2>10. CASE f.tx # {}
      <3>1. r = Reply(f.w, "s", f.tx)
        BY <2>3, <2>10
      <3>2. Typed(r) /\ Sends(t, r.s, "s", f.tx, n, n \cup r.out)
        <4>1. n \cup f.w.out = n
          BY <2>5
        <4>2. Typed(r) /\ Sends(f.w.s, r.s, "s", f.tx, n \cup f.w.out, n \cup r.out)
          BY <1>1, <2>5, <3>1, ReplySends
        <4> QED
          BY <4>1, <4>2
      <3>3. r.s \in Sockets /\ r.s.got = t.got /\ r.s.id = t.id
        BY <3>2 DEF Typed, Sends
      <3> HIDE DEF t
      <3>4. Delivery(c, r.s, n \cup r.out)
        <4>1. CASE serve
          <5>1. t.snd_una = t.snd_nxt /\ p.ack = t.snd_nxt
            BY <2>7, <4>1 DEF SK_CLOSING, SK_ESTABLISHED
          <5>2. p.id = t.id
            BY <2>3, <2>7, <4>1 DEF TakenBy
          <5> QED
            BY <2>4, <2>5, <2>6, <2>7, <2>8, <2>9, <3>2, <3>3, <4>1, <5>1, <5>2, ServerSendsResponse
        <4>2. CASE ~serve
          BY <2>5, <2>6, <2>8, <2>9, <3>2, <3>3, <4>2, ServerSendsPlain
        <4> QED
          BY <4>1, <4>2
      <3>5. r.s.got # w.s.got => r.s.id > w.s.id
        BY <2>4, <2>7, <3>3
      <3> QED
        BY <3>2, <3>4, <3>5 DEF ServerDone, r
    <2>11. CASE f.tx = {}
      <3>1. r = NothingToAnswer(f.w)
        BY <2>3, <2>11
      <3>2. Delivery(c, t, n)
        BY <2>6, <2>7, <2>8, <2>11, HeldIsDelivery
      <3>3. Typed(r) /\ r.out = {} /\ SameNumbers(t, r.s)
        <4>1. CASE t.state = SK_CLOSED
          BY <2>5, <3>1, <4>1 DEF NothingToAnswer, SameNumbers
        <4>2. CASE t.state # SK_CLOSED
          <5> DEFINE v == AddTimer(t, "timeout", 0)
          <5>1. 0 \in 0 .. AgeMax
            BY Numbers
          <5>2. r = Set(f.w, v)
            BY <3>1, <4>2 DEF NothingToAnswer
          <5> HIDE DEF t
          <5>3. v \in Sockets /\ SameNumbers(t, v)
            BY <2>5, <5>1, TimerNumbers
          <5> HIDE DEF v
          <5> QED
            BY <2>5, <5>2, <5>3, SetType
        <4> QED
          BY <4>1, <4>2
      <3>4. r.s \in Sockets /\ n \cup r.out = n
        BY <3>3 DEF Typed
      <3>5. Delivery(c, r.s, n \cup r.out)
        BY <2>5, <3>2, <3>3, <3>4, ServerRests
      <3>6. r.s.got # w.s.got => r.s.id > w.s.id
        BY <2>4, <2>7, <3>3 DEF SameNumbers
      <3> QED
        BY <3>3, <3>5, <3>6 DEF ServerDone, r
    <2> QED
      BY <2>10, <2>11
  <1> QED
    BY <1>2, <1>3

(* tcp_server_process.                                                     *)
LEMMA ServerProcessDelivers ==
  ASSUME cfg \in Configs, NEW c \in Sockets, NEW n \in SUBSET Packets, NEW w, Sane(w),
         Delivery(c, w.s, n), w.out = {}, w.s.snd_nxt + Room < SeqMod, SendWindow = 0,
         NEW p \in n, p.from = "c"
  PROVE  ServerDone(c, w, n, Process(w, "s", p))
  <1> DEFINE r == Process(w, "s", p)
  <1>1. Typed(w) /\ n \cup w.out = n
    BY DEF Sane
  <1>2. CASE p.flags \cap (SYN \cup RST) = {} /\ "ACK" \in p.flags
    <2>1. p.flags \cap SYN = {} /\ p.flags # SYN /\ p.flags # SYN \cup ACK /\ "RST" \notin p.flags
      BY <1>2 DEF SYN, RST, ACK
    <2>2. r = ServerProcessData(w, p)
      BY <1>2, <2>1 DEF Process
    <2> QED
      BY <2>1, <2>2, ServerDataDelivers
  <1>3. CASE p.flags = SYN
    <2>1. ~(p.flags \cap (SYN \cup RST) = {} /\ "ACK" \in p.flags)
      BY <1>3 DEF SYN, RST
    <2>2. p.flags # SYN \cup ACK /\ ~("RST" \in p.flags) /\ "s" # "c"
      BY <1>3 DEF SYN, ACK
    <2>3. r = ServerProcessSyn(w, p)
      BY <1>3, <2>1, <2>2, Zenon DEF Process
    <2> QED
      BY <1>1, <1>3, <2>3, ServerSynDelivers
  <1>4. CASE ~(p.flags \cap (SYN \cup RST) = {} /\ "ACK" \in p.flags) /\ p.flags # SYN
    <2>1. r = Close(w, "rst") \/ r = w
      BY <1>4 DEF Process, ProcessRst
    <2>2. LET x == Close(w, "rst") IN Typed(x) /\ SameNumbers(w.s, x.s) /\ x.out = w.out
      BY <1>1, CloseNumbers
    <2>3. SameNumbers(w.s, w.s)
      BY DEF SameNumbers
    <2> HIDE DEF r
    <2>4. Typed(r) /\ SameNumbers(w.s, r.s) /\ r.out = w.out
      BY <1>1, <2>1, <2>2, <2>3
    <2>5. ServerDone(c, w, n, r)
      BY <1>1, <2>4, ServerNothing
    <2> QED
      BY <2>5 DEF r
  <1> QED
    BY <1>2, <1>3, <1>4

(* socket_timer_run keeps the numbers when it unlinks a socket.            *)
LEMMA UnlinkNumbers ==
  ASSUME NEW w, Sane(w), w.s.state # SK_CLOSED
  PROVE  LET x == Unlink(w) IN
         Sane(x) /\ SameNumbers(w.s, x.s) /\ x.s.state = w.s.state /\ x.out = w.out
  <1> DEFINE t == [w.s EXCEPT !.timer = "none"]
             x == Unlink(w)
  <1>1. Typed(w) /\ w.s \in Sockets
    BY DEF Sane, Typed
  <1>2. t \in Sockets /\ SameNumbers(w.s, t) /\ t.state = w.s.state
    BY <1>1 DEF Sockets, SameNumbers
  <1>3. x = Set(w, t)
    BY DEF Unlink
  <1>4. Sane(x)
    BY UnlinkFacts
  <1> HIDE DEF t, x
  <1>5. x.s = t /\ x.out = w.out
    BY <1>1, <1>2, <1>3, SetType
  <1> QED
    BY <1>2, <1>4, <1>5 DEF x

(* The timers of the server: resend, or give an idle socket up.            *)
LEMMA ServerTimersDeliver ==
  ASSUME cfg \in Configs, NEW c \in Sockets, NEW n \in SUBSET Packets, NEW w, Sane(w),
         Delivery(c, w.s, n), w.out = {}, SendWindow = 0, w.s.state # SK_CLOSED
  PROVE  /\ ServerDone(c, w, n, DoRetransmit(Unlink(w), "s"))
         /\ ServerDone(c, w, n, GiveUp(Unlink(w)))
  <1> DEFINE x == Unlink(w)
             y == Close(x, "error")
  <1>1. Sane(x) /\ SameNumbers(w.s, x.s) /\ x.s.state = w.s.state /\ x.out = w.out
    BY UnlinkNumbers
  <1>2. GiveUp(x) = y
    BY DEF GiveUp
  <1> HIDE DEF x
  <1>3. Typed(x) /\ x.s \in Sockets /\ w.s \in Sockets /\ n \cup x.out = n /\ Typed(w)
    BY <1>1 DEF Sane, Typed
  <1>4. Delivery(c, x.s, n)
    BY <1>1, <1>3, ServerRests
  <1>5. ServerDone(c, x, n, DoRetransmit(x, "s"))
    BY <1>1, <1>3, <1>4, ServerRetransmits
  <1>6. Typed(y) /\ SameNumbers(x.s, y.s) /\ y.out = x.out
    BY <1>3, CloseNumbers
  <1> HIDE DEF y
  <1>7. ServerDone(c, x, n, y)
    BY <1>3, <1>4, <1>6, ServerNothing
  <1>8. ASSUME NEW r, ServerDone(c, x, n, r) PROVE ServerDone(c, w, n, r)
    BY <1>1, <1>8 DEF ServerDone, SameNumbers
  <1> QED
    BY <1>2, <1>5, <1>7, <1>8 DEF x

-----------------------------------------------------------------------------
(* A handler of the client that was run on w and left r; s is the server's *)
(* socket.                                                                 *)
ClientDone(w, s, n, r) ==
    /\ Typed(r) /\ Delivery(r.s, s, n \cup r.out) /\ r.s.parts = 0
    /\ r.s.got # w.s.got => r.s.rid = w.s.id /\ r.s.rid > w.s.rid

(* A part of a handler that was run on x and left y: what it does not      *)
(* touch, and how far it may move snd_nxt.                                 *)
ClientMoved(x, s, n, y, k) ==
    /\ Typed(y) /\ Delivery(y.s, s, n \cup y.out)
    /\ y.s.parts = x.s.parts /\ y.s.got = x.s.got /\ y.s.rid = x.s.rid
    /\ y.s.snd_nxt <= x.s.snd_nxt + k

(* It did nothing.                                                         *)
LEMMA ClientNothing ==
  ASSUME NEW s \in Sockets, NEW n, NEW w, Typed(w), Delivery(w.s, s, n \cup w.out),
         NEW r, Typed(r), SameNumbers(w.s, r.s), r.out = w.out,
         r.s.state = SK_SYN_SENT => w.s.state = SK_SYN_SENT
  PROVE  /\ \A k \in Nat : ClientMoved(w, s, n, r, k)
         /\ w.s.parts = 0 => ClientDone(w, s, n, r)
  <1>1. w.s \in Sockets /\ r.s \in Sockets
    BY DEF Typed
  <1>2. Delivery(r.s, s, n \cup r.out)
    BY <1>1, ClientRests
  <1>3. w.s.snd_nxt \in Nat
    BY <1>1, SocketNumbers
  <1>4. \A k \in Nat : r.s.snd_nxt <= w.s.snd_nxt + k
    BY <1>3 DEF SameNumbers
  <1> QED
    BY <1>2, <1>4 DEF ClientDone, ClientMoved, SameNumbers

(* tcp_reply on the client with something that is not data ...             *)
LEMMA ClientSays ==
  ASSUME cfg \in Configs, NEW s \in Sockets, NEW n \in SUBSET Packets, NEW x, Typed(x),
         ClientHeld(x.s, s, n \cup x.out), NEW f \in Flags, "URG" \notin f, "PUSH" \notin f,
         x.s.snd_nxt + 1 < SeqMod
  PROVE  ClientMoved(x, s, n, Reply(x, "c", f), 1)
  <1> DEFINE y == Reply(x, "c", f)
             N == n \cup x.out
  <1>1. "c" \in Ends /\ x.s \in Sockets /\ N \in SUBSET Packets /\ x.s.snd_nxt \in Nat
    BY SocketNumbers DEF Ends, Typed
  <1>2. Typed(y) /\ Sends(x.s, y.s, "c", f, N, n \cup y.out)
    BY <1>1, ReplySends
  <1>3. ClientHeld(x.s, s, N)
    OBVIOUS
  <1> HIDE DEF y, N
  <1>4. y.s \in Sockets
    BY <1>2 DEF Typed
  <1>5. SegLen("c", f) \in Nat /\ SegLen("c", f) <= 1
    BY <1>1, LengthType, Numbers DEF SegLen
  <1>6. x.s.snd_nxt + SegLen("c", f) < SeqMod
    BY <1>1, <1>5, Numbers
  <1>7. Delivery(y.s, s, n \cup y.out)
    BY <1>1, <1>2, <1>3, <1>4, <1>6, ClientSendsPlain
  <1>8. Plus(x.s.snd_nxt, SegLen("c", f)) = x.s.snd_nxt + SegLen("c", f)
    BY <1>1, <1>5, <1>6, PlusForward
  <1>9. y.s.snd_nxt = x.s.snd_nxt \/ y.s.snd_nxt = x.s.snd_nxt + SegLen("c", f)
    BY <1>2, <1>8 DEF Sends
  <1>10. y.s.snd_nxt <= x.s.snd_nxt + 1
    BY <1>1, <1>5, <1>9, Numbers
  <1>11. y.s.parts = x.s.parts /\ y.s.got = x.s.got /\ y.s.rid = x.s.rid
    BY <1>2 DEF Sends
  <1> QED
    BY <1>2, <1>7, <1>10, <1>11, Zenon DEF ClientMoved, y

(* ... and with a request, when nothing is outstanding.                    *)
LEMMA ClientAsksNext ==
  ASSUME cfg \in Configs, NEW s \in Sockets, NEW n \in SUBSET Packets, NEW x, Typed(x),
         ClientHeld(x.s, s, n \cup x.out), NEW f \in Flags, "URG" \notin f, "PUSH" \in f,
         x.s.snd_nxt + (ReqLen + 1) < SeqMod, x.s.snd_una = x.s.snd_nxt, x.s.state # SK_SYN_SENT
  PROVE  ClientMoved(x, s, n, Reply(x, "c", f), ReqLen + 1)
  <1> DEFINE y == Reply(x, "c", f)
             N == n \cup x.out
  <1>1. "c" \in Ends /\ x.s \in Sockets /\ N \in SUBSET Packets /\ x.s.snd_nxt \in Nat
    BY SocketNumbers DEF Ends, Typed
  <1>2. Typed(y) /\ Sends(x.s, y.s, "c", f, N, n \cup y.out)
    BY <1>1, ReplySends
  <1>3. ClientHeld(x.s, s, N)
    OBVIOUS
  <1> HIDE DEF y, N
  <1>4. y.s \in Sockets
    BY <1>2 DEF Typed
  <1>5. SegLen("c", f) \in Nat /\ SegLen("c", f) <= (ReqLen + 1)
    BY <1>1, LengthType, Numbers DEF SegLen
  <1>6. x.s.snd_nxt + SegLen("c", f) < SeqMod
    BY <1>1, <1>5, Numbers
  <1>7. Delivery(y.s, s, n \cup y.out)
    BY <1>1, <1>2, <1>3, <1>4, <1>6, ClientSendsRequest
  <1>8. Plus(x.s.snd_nxt, SegLen("c", f)) = x.s.snd_nxt + SegLen("c", f)
    BY <1>1, <1>5, <1>6, PlusForward
  <1>9. y.s.snd_nxt = x.s.snd_nxt \/ y.s.snd_nxt = x.s.snd_nxt + SegLen("c", f)
    BY <1>2, <1>8 DEF Sends
  <1>10. y.s.snd_nxt <= x.s.snd_nxt + (ReqLen + 1)
    BY <1>1, <1>5, <1>9, Numbers
  <1>11. y.s.parts = x.s.parts /\ y.s.got = x.s.got /\ y.s.rid = x.s.rid
    BY <1>2 DEF Sends
  <1> QED
    BY <1>2, <1>7, <1>10, <1>11, Zenon DEF ClientMoved, y

(* tcp_do_retransmit on the client.                                        *)
LEMMA ClientRetransmits ==
  ASSUME cfg \in Configs, NEW s \in Sockets, NEW n \in SUBSET Packets, NEW w, Sane(w),
         Delivery(w.s, s, n \cup w.out), w.s.state # SK_CLOSED, w.s.parts = 0
  PROVE  ClientDone(w, s, n, DoRetransmit(w, "c"))
  <1> DEFINE r == DoRetransmit(w, "c")
  <1>1. "c" \in Ends /\ ~Windowed("c") /\ Typed(w) /\ w.s \in Sockets /\ w.out \in SUBSET Packets
    BY DEF Ends, Windowed, Sane, Typed
  <1>2. /\ Typed(r) /\ r.s.state \in {w.s.state, SK_CLOSED}
        /\ \/ r.out = w.out /\ SameNumbers(w.s, r.s)
           \/ /\ w.s.snd_nxt # w.s.snd_una
              /\ \E x \in Sockets : /\ SameNumbers(w.s, x) /\ x.state = w.s.state
                                    /\ Sends(x, r.s, "c", w.s.flags, n \cup w.out, n \cup r.out)
    BY <1>1, DoRetransmitSends
  <1> HIDE DEF r
  <1>3. CASE r.out = w.out /\ SameNumbers(w.s, r.s)
    <2>1. r.s.state = SK_SYN_SENT => w.s.state = SK_SYN_SENT
      BY <1>2 DEF SK_SYN_SENT, SK_CLOSED
    <2> QED
      BY <1>1, <1>2, <1>3, <2>1, ClientNothing DEF r
  <1>4. CASE /\ w.s.snd_nxt # w.s.snd_una
             /\ \E x \in Sockets : /\ SameNumbers(w.s, x) /\ x.state = w.s.state
                                   /\ Sends(x, r.s, "c", w.s.flags, n \cup w.out, n \cup r.out)
    <2>1. PICK x \in Sockets : /\ SameNumbers(w.s, x) /\ x.state = w.s.state
                               /\ Sends(x, r.s, "c", w.s.flags, n \cup w.out, n \cup r.out)
      BY <1>4
    <2>2. Delivery(x, s, n \cup w.out)
      BY <1>1, <2>1, ClientRests
    <2>3. x.flags = w.s.flags /\ x.snd_una # x.snd_nxt /\ r.s \in Sockets
      BY <1>2, <1>4, <2>1 DEF SameNumbers, Typed
    <2>4. n \cup w.out \in SUBSET Packets
      BY <1>1
    <2>5. Delivery(r.s, s, n \cup r.out)
      BY <2>1, <2>2, <2>3, <2>4, ClientSendsAgain
    <2>6. r.s.got = w.s.got /\ r.s.parts = 0
      BY <2>1 DEF Sends, SameNumbers
    <2> QED
      BY <1>2, <2>5, <2>6 DEF ClientDone, r
  <1> QED
    BY <1>2, <1>3, <1>4

(* tcp_client_process_syn_ack: the connection opens, with everything in    *)
(* flight old, and the first request goes out.                             *)
LEMMA ClientSynAckDelivers ==
  ASSUME cfg \in Configs, NEW s \in Sockets, NEW n \in SUBSET Packets, NEW w, Typed(w),
         Delivery(w.s, s, n), w.out = {}, w.s.snd_nxt + Room < SeqMod, w.s.parts = 0,
         NEW p \in n, p.from = "s", p.flags = SYN \cup ACK
  PROVE  ClientDone(w, s, n, ClientProcessSynAck(w, p))
  <1> DEFINE r == ClientProcessSynAck(w, p)
             c == w.s
             t == [c EXCEPT !.rcv_nxt = Plus(p.seq, 1), !.snd_una = p.ack,
                            !.state = SK_ESTABLISHED]
             x == Set(w, t)
  <1>1. /\ "s" \in Ends /\ "c" \in Ends /\ c \in Sockets /\ p \in Packets /\ n \cup w.out = n
        /\ Other("s") = "c" /\ Other("c") = "s"
        /\ ACK \cup PUSH \in Flags /\ ACK \in Flags /\ "PUSH" \in ACK \cup PUSH
        /\ "URG" \notin ACK \cup PUSH /\ "URG" \notin ACK /\ "PUSH" \notin ACK
    BY FlagSets DEF Ends, Other, Typed, ACK, PUSH
  <1>2. c.snd_nxt \in Nat /\ c.snd_nxt + (ReqLen + 1) < SeqMod /\ c.snd_nxt + 1 < SeqMod
        /\ ReqLen + 1 \in Nat /\ c.snd_nxt \in Seq
    BY <1>1, SocketNumbers, Numbers DEF Room
  <1>3. Bounded(c, s, "c", n) /\ Bounded(s, c, "s", n)
        /\ Order(c, s, Data(c, "c", n), Data(s, "s", n))
    BY DEF Delivery
  <1>4. CASE c.state = SK_SYN_SENT /\ p.ack = c.snd_nxt
    <2>1. r = Reply(x, "c", ACK \cup PUSH)
      BY <1>4 DEF ClientProcessSynAck, SK_SYN_SENT, SK_ESTABLISHED
    <2>2. End(p) <= s.snd_nxt /\ Plus(p.seq, 1) = End(p)
      BY <1>1, <1>3, EndOfSegment
    <2>3. Plus(p.seq, 1) \in Seq /\ p.ack \in Seq /\ SK_ESTABLISHED \in States
      BY <1>1, PacketNumbers, PlusType DEF States
    <2>4. /\ t \in Sockets /\ t.snd_nxt = c.snd_nxt /\ t.flags = c.flags /\ t.snd_una = c.snd_nxt
          /\ t.rcv_nxt = End(p) /\ t.id = c.id /\ t.rid = c.rid /\ t.got = c.got /\ t.parts = 0
          /\ t.state = SK_ESTABLISHED
      BY <1>1, <1>4, <2>2, <2>3, ZenonT(60) DEF Sockets
    <2> HIDE DEF t, c
    <2>5. Bounded(t, s, "c", n) /\ Bounded(s, t, "s", n)
      BY <1>1, <1>3, <2>2, <2>4, AcceptBounded
    <2>6. Order(t, s, SentData("c", n), Data(s, "s", n))
      <3> DEFINE dc == Data(c, "c", n)
                 ds == Data(s, "s", n)
      <3>1. DataBounds(c, s, "c", dc) /\ DataBounds(s, c, "s", ds)
        BY <1>1, <1>3, BoundsOfData
      <3>2. SentData("c", n) \subseteq dc
        BY DEF Data
      <3> HIDE DEF dc, ds
      <3>3. /\ \A q \in dc : End(q) < t.snd_nxt
            /\ \A q \in ds : q.ack < t.snd_nxt
        BY <1>3, <1>4, <2>4 DEF Order, OldBeforeOpen, dc, ds
      <3>4. \A q \in dc \cup ds : q \in Packets
        BY <3>1 DEF DataBounds
      <3>5. Order(c, s, dc, ds)
        BY <1>3 DEF dc, ds
      <3>6. Order(t, s, SentData("c", n), ds)
        BY <1>1, <2>4, <3>2, <3>3, <3>4, <3>5, ClientRenews
      <3> QED
        BY <3>6 DEF ds
    <2>7. Typed(x) /\ x.s = t /\ x.out = w.out
      BY <2>4, SetType
    <2> HIDE DEF x, r
    <2>8. ClientHeld(x.s, s, n \cup x.out)
      BY <1>1, <2>5, <2>6, <2>7 DEF ClientHeld
    <2>9. x.s.snd_una = x.s.snd_nxt /\ x.s.state # SK_SYN_SENT /\ x.s.snd_nxt + (ReqLen + 1) < SeqMod
      BY <1>2, <2>4, <2>7 DEF SK_ESTABLISHED, SK_SYN_SENT
    <2>10. ClientMoved(x, s, n, r, ReqLen + 1)
      BY <1>1, <1>2, <2>1, <2>7, <2>8, <2>9, ClientAsksNext
    <2> QED
      BY <2>4, <2>7, <2>10 DEF ClientMoved, ClientDone, r, c
  <1>5. CASE ~(c.state = SK_SYN_SENT /\ p.ack = c.snd_nxt)
    <2>1. r = Reply(w, "c", ACK) \/ r = w
      BY <1>5 DEF ClientProcessSynAck
    <2> HIDE DEF r
    <2>2. ClientHeld(w.s, s, n \cup w.out)
      BY <1>1, HeldIsDelivery
    <2>3. ClientMoved(w, s, n, Reply(w, "c", ACK), 1)
      BY <1>1, <1>2, <2>2, ClientSays
    <2>4. r = w => ClientDone(w, s, n, r)
      BY <1>1 DEF ClientDone
    <2> QED
      BY <2>1, <2>3, <2>4 DEF ClientMoved, ClientDone, r
  <1> QED
    BY <1>4, <1>5

(* The client's socket once a segment is taken and its rid set.            *)
HeardBy(w, p, d, t) ==
    LET s == w.s serve == p.len > 0 /\ t.state = SK_ESTABLISHED IN
    /\ t.snd_nxt = s.snd_nxt /\ t.flags = s.flags /\ t.id = s.id
    /\ t.snd_una = d.w.s.snd_una /\ t.rcv_nxt = d.w.s.rcv_nxt /\ t.state = d.w.s.state
    /\ t.rid = IF serve THEN p.id ELSE s.rid

(* Taking segment p, a response or not, keeps the order; a response that   *)
(* is taken answers the last request, which was not answered.              *)
LEMMA ClientTakesSegment ==
  ASSUME NEW s \in Sockets, NEW n \in SUBSET Packets, NEW w, Typed(w), Delivery(w.s, s, n),
         NEW p \in n, p.from = "s", p.flags \cap SYN = {},
         NEW d, Accepted(w, p, d), NEW t \in Sockets, HeardBy(w, p, d, t)
  PROVE  /\ ClientHeld(t, s, n)
         /\ t.state = SK_CLOSING \/ t.snd_una = t.snd_nxt
         /\ p.len > 0 /\ t.state = SK_ESTABLISHED => p.id = w.s.id /\ p.id > w.s.rid
  <1> DEFINE serve == p.len > 0 /\ t.state = SK_ESTABLISHED
             c == w.s
             dc == Data(c, "c", n)
             ds == Data(s, "s", n)
             ec == SentData("c", n)
  <1>1. /\ "s" \in Ends /\ "c" \in Ends /\ Other("s") = "c" /\ Other("c") = "s"
        /\ c \in Sockets /\ p \in Packets
        /\ t.snd_nxt = c.snd_nxt /\ t.flags = c.flags /\ t.id = c.id
        /\ t.snd_una = d.w.s.snd_una /\ t.rcv_nxt = d.w.s.rcv_nxt /\ t.state = d.w.s.state
        /\ t.rid = IF serve THEN p.id ELSE c.rid
    BY DEF Ends, Other, Typed, HeardBy
  <1>2. Bounded(c, s, "c", n) /\ Bounded(s, c, "s", n) /\ Order(c, s, dc, ds)
    BY DEF Delivery
  <1>3. /\ End(p) <= s.snd_nxt /\ (p.len > 0 => "PUSH" \in p.flags)
        /\ Plus(p.seq, p.len + (IF "FIN" \in p.flags THEN 1 ELSE 0)) = End(p)
    BY <1>1, <1>2, EndOfSegment
  <1>4. /\ t.rcv_nxt = End(p) /\ p.seq = c.rcv_nxt
        /\ \/ t.snd_una = c.snd_nxt /\ p.ack = c.snd_nxt /\ t.state = c.state
           \/ t.snd_una = c.snd_una /\ t.state = SK_CLOSING
    BY <1>1, <1>3 DEF Accepted
  <1>5. /\ t.snd_una \in {c.snd_una, c.snd_nxt} /\ (t.state = SK_CLOSING \/ t.snd_una = t.snd_nxt)
        /\ t.state = SK_SYN_SENT => c.state = SK_SYN_SENT
    BY <1>1, <1>4 DEF SK_CLOSING, SK_SYN_SENT
  <1>6. Bounded(t, s, "c", n) /\ Bounded(s, t, "s", n)
    BY <1>1, <1>2, <1>3, <1>4, <1>5, AcceptBounded
  <1>7. DataBounds(c, s, "c", dc) /\ DataBounds(s, c, "s", ds) /\ ec \subseteq dc
    BY <1>1, <1>2, BoundsOfData DEF Data
  <1>8. CASE serve
    <2>1. t.rid = p.id /\ p \in ds
      BY <1>1, <1>3, <1>8 DEF SentData, Data
    <2>2. p.ack = c.snd_nxt
      BY <1>4, <1>8 DEF SK_CLOSING, SK_ESTABLISHED
    <2> HIDE DEF dc, ds, ec, c, serve
    <2>3. Order(t, s, ec, ds) /\ p.id = c.id /\ c.rid < c.id
      <3>1. t.rid \in {c.rid, p.id}
        BY <2>1
      <3>2. t.rcv_nxt = End(p) /\ p.seq = c.rcv_nxt
        BY <1>4
      <3>3. t.id = c.id /\ t.snd_nxt = c.snd_nxt /\ c \in Sockets
        BY <1>1
      <3> QED
        BY <1>2, <1>5, <1>7, <2>1, <2>2, <3>1, <3>2, <3>3, ClientTakes
    <2>4. p.id > c.rid
      <3>1. c.rid \in Nat /\ c.id \in Nat
        BY <1>1, SocketNumbers
      <3> QED
        BY <2>3, <3>1
    <2> QED
      BY <1>5, <1>6, <2>3, <2>4 DEF ClientHeld, ec, ds, c
  <1>9. CASE ~serve
    <2>1. t.rcv_nxt >= c.rcv_nxt
      <3>1. SegLen(p.from, p.flags) \in Nat /\ p.seq \in Nat
        BY <1>1, PacketNumbers, LengthType
      <3> QED
        BY <1>4, <3>1 DEF End
    <2> HIDE DEF dc, ds, ec
    <2>2. Order(t, s, ec, ds)
      BY <1>1, <1>2, <1>5, <1>7, <1>9, <2>1, ClientHears
    <2> QED
      BY <1>5, <1>6, <1>9, <2>2 DEF ClientHeld, ec, ds
  <1> QED
    BY <1>8, <1>9

(* The socket after socket_start_keepalive_timer.                          *)
LEMMA StartKeepaliveNumbers ==
  ASSUME NEW s \in Sockets, NEW a \in 0 .. AgeMax
  PROVE  LET t == StartKeepalive(s, a) IN
         t \in Sockets /\ SameNumbers(s, t) /\ t.state = s.state
  <1>1. SameNumbers(s, s)
    BY DEF SameNumbers
  <1>2. LET t == AddTimer(s, "keepalive", a) IN
        t \in Sockets /\ SameNumbers(s, t) /\ t.state = s.state
    BY TimerNumbers
  <1> QED
    BY <1>1, <1>2 DEF StartKeepalive

(* A socket that keeps its numbers is put in its place.                    *)
LEMMA ClientPuts ==
  ASSUME NEW s \in Sockets, NEW n, NEW w, Typed(w), Delivery(w.s, s, n \cup w.out),
         NEW t \in Sockets, SameNumbers(w.s, t),
         t.state = SK_SYN_SENT => w.s.state = SK_SYN_SENT, NEW k \in Nat
  PROVE  /\ Typed(Set(w, t)) /\ Set(w, t).s = t /\ Set(w, t).out = w.out
         /\ ClientMoved(w, s, n, Set(w, t), k)
  <1> DEFINE x == Set(w, t)
  <1>1. Typed(x) /\ x.s = t /\ x.out = w.out
    BY SetType
  <1> HIDE DEF x
  <1>2. ClientMoved(w, s, n, x, k)
    BY <1>1, ClientNothing
  <1> QED
    BY <1>1, <1>2 DEF x

(* Two parts of a handler, one after the other.                            *)
LEMMA ClientMovesOn ==
  ASSUME NEW s, NEW n, NEW x, Typed(x), NEW y, Typed(y), NEW z, NEW j \in Nat, NEW k \in Nat,
         ClientMoved(x, s, n, y, j), ClientMoved(y, s, n, z, k)
  PROVE  ClientMoved(x, s, n, z, j + k)
  <1>1. x.s.snd_nxt \in Nat /\ y.s.snd_nxt \in Nat
    BY SocketNumbers DEF Typed
  <1>2. z.s \in Sockets
    BY DEF ClientMoved, Typed
  <1>3. z.s.snd_nxt \in Nat
    BY <1>2, SocketNumbers
  <1>4. z.s.snd_nxt <= x.s.snd_nxt + (j + k)
    BY <1>1, <1>3 DEF ClientMoved
  <1> QED
    BY <1>4 DEF ClientMoved

(* tcp_send_keepalive_request, with nothing outstanding: the next request, *)
(* or the FIN when the test is over.                                       *)
LEMMA KeepaliveRequestDelivers ==
  ASSUME cfg \in Configs, NEW s \in Sockets, NEW n \in SUBSET Packets, NEW w, Typed(w),
         Delivery(w.s, s, n \cup w.out), w.s.snd_nxt + (ReqLen + 1) < SeqMod,
         w.s.state = SK_ESTABLISHED, w.s.snd_una = w.s.snd_nxt
  PROVE  ClientMoved(w, s, n, SendKeepaliveRequest(w), ReqLen + 1)
  <1> DEFINE r == SendKeepaliveRequest(w)
             u == [w.s EXCEPT !.reqnum = @ + 1]
             v == [w.s EXCEPT !.state = SK_FIN_WAIT_1]
             Last(x) == Set(x, [x.s EXCEPT !.keepalive = FALSE])
             g == ACK \cup PUSH
             h == ACK \cup FIN
  <1>1. /\ g \in Flags /\ "PUSH" \in g /\ "URG" \notin g
        /\ h \in Flags /\ "PUSH" \notin h /\ "URG" \notin h
    BY FlagSets DEF ACK, PUSH, FIN
  <1>2. w.s \in Sockets /\ w.s.reqnum + 1 \in Nat /\ FALSE \in BOOLEAN /\ SK_FIN_WAIT_1 \in States
    <2>1. w.s \in Sockets
      BY DEF Typed
    <2> QED
      BY <2>1 DEF Sockets, States
  <1>3. w.s.snd_nxt \in Nat /\ w.s.snd_nxt + 1 < SeqMod /\ ReqLen + 1 \in Nat /\ ReqLen \in Nat
    BY <1>2, SocketNumbers, Numbers
  <1>4. /\ u \in Sockets /\ SameNumbers(w.s, u) /\ u.state = SK_ESTABLISHED
        /\ v \in Sockets /\ SameNumbers(w.s, v) /\ v.state = SK_FIN_WAIT_1
    <2>1. u \in Sockets /\ SameNumbers(w.s, u) /\ u.state = SK_ESTABLISHED
      BY <1>2 DEF Sockets, SameNumbers
    <2>2. v \in Sockets /\ SameNumbers(w.s, v) /\ v.state = SK_FIN_WAIT_1
      BY <1>2 DEF Sockets, SameNumbers
    <2> QED
      BY <2>1, <2>2
  <1>5. /\ u.state # SK_SYN_SENT /\ v.state # SK_SYN_SENT
        /\ u.snd_una = u.snd_nxt /\ u.snd_nxt = w.s.snd_nxt /\ v.snd_nxt = w.s.snd_nxt
    BY <1>4 DEF SameNumbers, SK_SYN_SENT, SK_ESTABLISHED, SK_FIN_WAIT_1
  <1>6. ASSUME NEW k \in Nat, NEW y, ClientMoved(w, s, n, y, k)
        PROVE  ClientMoved(w, s, n, Last(y), k)
    <2> DEFINE t == [y.s EXCEPT !.keepalive = FALSE]
    <2>1. Typed(y) /\ y.s \in Sockets /\ Delivery(y.s, s, n \cup y.out)
      BY <1>6 DEF ClientMoved, Typed
    <2>2. t \in Sockets /\ SameNumbers(y.s, t) /\ t.state = y.s.state
      BY <2>1 DEF Sockets, SameNumbers
    <2> HIDE DEF t
    <2>3. ClientMoved(y, s, n, Set(y, t), 0)
      BY <1>6, <2>1, <2>2, ClientPuts
    <2>4. ClientMoved(w, s, n, Set(y, t), k + 0)
      BY <1>6, <2>1, <2>3, ClientMovesOn
    <2>5. k + 0 = k
      BY <1>6
    <2> QED
      BY <2>4, <2>5 DEF t
  <1> HIDE DEF u, v
  <1>7. CASE InDuration
    <2> DEFINE x == Set(w, u)
               y == Reply(x, "c", g)
    <2>1. r = Last(y) \/ r = y
      BY <1>7 DEF SendKeepaliveRequest, u
    <2>2. Typed(x) /\ x.s = u /\ x.out = w.out /\ ClientMoved(w, s, n, x, 0)
      BY <1>4, <1>5, ClientPuts
    <2> HIDE DEF x, r, g, h
    <2>3. /\ Typed(x) /\ ClientHeld(x.s, s, n \cup x.out) /\ x.s.snd_nxt + (ReqLen + 1) < SeqMod
          /\ x.s.snd_una = x.s.snd_nxt /\ x.s.state # SK_SYN_SENT
      BY <1>5, <2>2, HeldIsDelivery DEF ClientMoved
    <2>4. ClientMoved(x, s, n, y, ReqLen + 1)
      BY <1>1, <2>3, ClientAsksNext
    <2> HIDE DEF y
    <2>5. ClientMoved(w, s, n, y, 0 + (ReqLen + 1))
      <3>1. Typed(y)
        BY <2>4 DEF ClientMoved
      <3> QED
        BY <1>3, <2>2, <2>4, <3>1, ClientMovesOn
    <2>6. ClientMoved(w, s, n, y, ReqLen + 1)
      <3>1. 0 + (ReqLen + 1) = ReqLen + 1
        BY <1>3
      <3> QED
        BY <2>5, <3>1
    <2>7. ClientMoved(w, s, n, Last(y), ReqLen + 1)
      BY <1>3, <1>6, <2>6
    <2> QED
      BY <2>1, <2>6, <2>7 DEF r
  <1>8. CASE ~InDuration
    <2> DEFINE x == Set(w, v)
               y == Reply(x, "c", h)
    <2>1. r = Last(y)
      BY <1>8 DEF SendKeepaliveRequest, v
    <2>2. Typed(x) /\ x.s = v /\ x.out = w.out /\ ClientMoved(w, s, n, x, ReqLen)
      BY <1>3, <1>4, <1>5, ClientPuts
    <2> HIDE DEF x, r, g, h
    <2>3. Typed(x) /\ ClientHeld(x.s, s, n \cup x.out) /\ x.s.snd_nxt + 1 < SeqMod
      BY <1>3, <1>5, <2>2, HeldIsDelivery DEF ClientMoved
    <2>4. ClientMoved(x, s, n, y, 1)
      BY <1>1, <2>3, ClientSays
    <2> HIDE DEF y
    <2>5. ClientMoved(w, s, n, y, ReqLen + 1)
      <3>1. Typed(y)
        BY <2>4 DEF ClientMoved
      <3> QED
        BY <1>3, <2>2, <2>4, <3>1, ClientMovesOn
    <2>6. ClientMoved(w, s, n, Last(y), ReqLen + 1)
      BY <1>3, <1>6, <2>5
    <2> QED
      BY <2>1, <2>6 DEF r
  <1> QED
    BY <1>7, <1>8

(* What taking a response leaves: at most one more request, and the flags  *)
(* to answer with, which ask for no data.                                  *)
TookNext(x, s, n, d) ==
    /\ ClientMoved(x, s, n, d.w, ReqLen + 1)
    /\ d.tx \in Flags /\ "PUSH" \notin d.tx /\ "URG" \notin d.tx

(* A response of one segment ends with it (http_client_process_data).      *)
LEMMA HttpResponseDelivers ==
  ASSUME cfg \in Configs, NEW s \in Sockets, NEW n \in SUBSET Packets, NEW w, Typed(w),
         Delivery(w.s, s, n \cup w.out), w.s.parts = 0, SendWindow = 0, NEW rx
  PROVE  TookNext(w, s, n, HttpTakeResponse(w, rx))
  <1> DEFINE c == w.s
             d == HttpTakeResponse(w, rx)
             fin == "FIN" \in rx
  <1>1. c \in Sockets /\ c.age \in 0 .. AgeMax /\ c.keepalive \in BOOLEAN
    <2>1. c \in Sockets
      BY DEF Typed
    <2> QED
      BY <2>1 DEF Sockets
  <1>2. c.parts + 1 = cfg.segs
    BY TcpAssumption DEF SendWindow
  <1>3. ReqLen + 1 \in Nat
    BY Numbers
  <1>4. ASSUME NEW t \in Sockets, SameNumbers(c, t), t.state = c.state, NEW g \in {{}, ACK \cup FIN}
        PROVE  TookNext(w, s, n, [w |-> Set(w, t), tx |-> g])
    <2>1. ClientMoved(w, s, n, Set(w, t), ReqLen + 1)
      BY <1>3, <1>4, ClientPuts
    <2>2. g \in Flags /\ "PUSH" \notin g /\ "URG" \notin g
      BY <1>4, FlagSets DEF ACK, FIN
    <2> QED
      BY <2>1, <2>2 DEF TookNext
  <1>5. CASE c.keepalive /\ ~fin
    <2> DEFINE u == StartKeepalive(c, AccurateAge(c.age))
               ha == c.parts >= 2 \/ AckAtOnce
               t == [u EXCEPT !.http_ack = ha, !.parts = 0]
    <2>1. d = [w |-> Set(w, t), tx |-> {}]
      BY <1>2, <1>5 DEF HttpTakeResponse
    <2>2. AccurateAge(c.age) \in 0 .. AgeMax
      BY <1>1, AccurateAgeType
    <2>3. u \in Sockets /\ SameNumbers(c, u) /\ u.state = c.state
      BY <1>1, <2>2, StartKeepaliveNumbers
    <2>4. ha \in BOOLEAN
      BY DEF AckAtOnce
    <2> HIDE DEF u, ha
    <2>5. t \in Sockets /\ SameNumbers(u, t) /\ t.state = u.state
      <3>1. u.parts = 0
        BY <2>3 DEF SameNumbers
      <3>2. t \in Sockets /\ t.state = u.state
        BY <2>3, <2>4, ZenonT(60) DEF Sockets
      <3>3. SameNumbers(u, t)
        BY <2>3, <3>1 DEF Sockets, SameNumbers
      <3> QED
        BY <3>2, <3>3
    <2> HIDE DEF t, d
    <2>6. SameNumbers(c, t) /\ t.state = c.state
      BY <2>3, <2>5 DEF SameNumbers
    <2>7. TookNext(w, s, n, d)
      BY <1>4, <2>1, <2>5, <2>6
    <2> QED
      BY <2>7 DEF d
  <1>6. CASE ~c.keepalive \/ fin
    <2> DEFINE t == [c EXCEPT !.http_ack = FALSE, !.parts = 0]
    <2>1. d = [w |-> Set(w, t), tx |-> ACK \cup FIN]
      BY <1>2, <1>6 DEF HttpTakeResponse
    <2>2. t \in Sockets /\ t.state = c.state
      BY <1>1, ZenonT(60) DEF Sockets
    <2>3. SameNumbers(c, t)
      BY <1>1 DEF Sockets, SameNumbers
    <2> HIDE DEF t, d
    <2>4. TookNext(w, s, n, d)
      BY <1>4, <2>1, <2>2, <2>3
    <2> QED
      BY <2>4 DEF d
  <1> QED
    BY <1>5, <1>6

(* Taking a response, with the HTTP parser or without.                     *)
LEMMA ResponseDelivers ==
  ASSUME cfg \in Configs, NEW s \in Sockets, NEW n \in SUBSET Packets, NEW w, Typed(w),
         Delivery(w.s, s, n \cup w.out), w.s.parts = 0, SendWindow = 0, NEW rx,
         w.s.snd_nxt + (ReqLen + 1) < SeqMod,
         w.s.state = SK_ESTABLISHED, w.s.snd_una = w.s.snd_nxt
  PROVE  TookNext(w, s, n, ClientTakeResponse(w, rx))
  <1>1. Http \in BOOLEAN /\ w.s.keepalive \in BOOLEAN /\ w.s \in Sockets /\ w.s.age \in 0 .. AgeMax
    <2>1. w.s \in Sockets
      BY DEF Typed
    <2> QED
      BY <2>1, CfgFacts DEF Sockets
  <1>2. ReqLen + 1 \in Nat /\ ACK \in Flags /\ "PUSH" \notin ACK /\ "URG" \notin ACK
    BY Numbers, FlagSets DEF ACK
  <1>3. CASE Http
    <2>1. ClientTakeResponse(w, rx) = HttpTakeResponse(w, rx)
      BY <1>3 DEF ClientTakeResponse
    <2> QED
      BY <2>1, HttpResponseDelivers
  <1>4. CASE ~Http /\ ~w.s.keepalive
    <2>1. ClientTakeResponse(w, rx) = [w |-> w, tx |-> ACK \cup FIN]
      BY <1>4 DEF ClientTakeResponse
    <2>2. ACK \cup FIN \in Flags /\ "PUSH" \notin ACK \cup FIN /\ "URG" \notin ACK \cup FIN
      BY FlagSets DEF ACK, FIN
    <2>3. SameNumbers(w.s, w.s)
      BY DEF SameNumbers
    <2>4. ClientMoved(w, s, n, w, ReqLen + 1)
      BY <1>2, <2>3, ClientNothing
    <2> QED
      BY <2>1, <2>2, <2>4 DEF TookNext
  <1>5. CASE ~Http /\ w.s.keepalive
    <2> DEFINE x == NextRequest(w)
    <2>1. ClientTakeResponse(w, rx) = [w |-> x, tx |-> ACK]
      BY <1>5 DEF ClientTakeResponse
    <2>2. ClientMoved(w, s, n, x, ReqLen + 1)
      <3>1. CASE Interval > 0
        <4> DEFINE t == StartKeepalive(w.s, w.s.age)
        <4>1. x = Set(w, t)
          BY <3>1 DEF NextRequest
        <4>2. t \in Sockets /\ SameNumbers(w.s, t) /\ t.state = w.s.state
          BY <1>1, StartKeepaliveNumbers
        <4> HIDE DEF t, x
        <4> QED
          BY <1>2, <4>1, <4>2, ClientPuts
      <3>2. CASE ~(Interval > 0)
        <4>1. x = SendKeepaliveRequest(w)
          BY <3>2 DEF NextRequest
        <4> QED
          BY <4>1, KeepaliveRequestDelivers
      <3> QED
        BY <3>1, <3>2
    <2> HIDE DEF x
    <2> QED
      BY <1>2, <2>1, <2>2 DEF TookNext
  <1> QED
    BY <1>1, <1>3, <1>4, <1>5

(* The end of tcp_client_process_data: the socket that crossed FINs sends  *)
(* its own again.                                                          *)
LEMMA AnswerDelivers ==
  ASSUME cfg \in Configs, NEW s \in Sockets, NEW n \in SUBSET Packets, NEW w, Typed(w),
         ClientHeld(w.s, s, n \cup w.out),
         w.s.state = SK_CLOSING \/ Delivery(w.s, s, n \cup w.out),
         w.s.snd_nxt + 1 < SeqMod,
         NEW rx, NEW tx \in Flags, "PUSH" \notin tx, "URG" \notin tx
  PROVE  ClientMoved(w, s, n, ClientAnswer(w, rx, tx), 1)
  <1> DEFINE f == MaybeFin(w, rx, tx)
             r == ClientAnswer(w, rx, tx)
  <1>1. FinNumbers(w, tx, f)
    BY MaybeFinNumbers
  <1>2. /\ r = f.w \/ r = Reply(f.w, "c", f.tx)
        /\ f.tx # {} /\ f.tx # ACK => r = Reply(f.w, "c", f.tx)
    BY DEF ClientAnswer
  <1> HIDE DEF f, r
  <1>3. /\ w.s \in Sockets /\ f.w.s \in Sockets /\ Typed(f.w) /\ SameNumbers(w.s, f.w.s)
        /\ f.w.out = w.out /\ f.tx \in Flags
        /\ f.w.s.state \in {w.s.state, SK_CLOSED, SK_FIN_WAIT_1, SK_FIN_WAIT_2, SK_LAST_ACK}
        /\ f.tx \subseteq tx \cup FIN \cup ACK
        /\ w.s.state = SK_CLOSING => f.tx = tx \cup FIN \cup ACK
    BY <1>1 DEF FinNumbers, Typed
  <1>4. f.w.s.state = SK_SYN_SENT => w.s.state = SK_SYN_SENT
    BY <1>3 DEF SK_SYN_SENT, SK_CLOSED, SK_FIN_WAIT_1, SK_FIN_WAIT_2, SK_LAST_ACK
  <1>5. "PUSH" \notin f.tx /\ "URG" \notin f.tx
    BY <1>3 DEF FIN, ACK
  <1>6. w.s.state = SK_CLOSING => f.tx # {} /\ f.tx # ACK
    BY <1>3 DEF FIN, ACK
  <1>7. /\ f.w.s.parts = w.s.parts /\ f.w.s.got = w.s.got /\ f.w.s.rid = w.s.rid
        /\ f.w.s.snd_nxt = w.s.snd_nxt
    BY <1>3 DEF SameNumbers
  <1>8. CASE r = Reply(f.w, "c", f.tx)
    <2>1. ClientHeld(f.w.s, s, n \cup f.w.out) /\ f.w.s.snd_nxt + 1 < SeqMod
      BY <1>3, <1>4, <1>7, ClientRests
    <2>2. ClientMoved(f.w, s, n, r, 1)
      BY <1>3, <1>5, <1>8, <2>1, ClientSays
    <2>3. ClientMoved(w, s, n, r, 1)
      BY <1>7, <2>2 DEF ClientMoved
    <2> QED
      BY <2>3 DEF r
  <1>9. CASE r = f.w /\ w.s.state # SK_CLOSING
    <2>1. ClientMoved(w, s, n, r, 1)
      BY <1>3, <1>4, <1>9, ClientNothing
    <2> QED
      BY <2>1 DEF r
  <1> QED
    BY <1>2, <1>6, <1>8, <1>9

(* tcp_client_process_data.                                                *)
LEMMA ClientDataDelivers ==
  ASSUME cfg \in Configs, NEW s \in Sockets, NEW n \in SUBSET Packets, NEW w, Sane(w),
         Delivery(w.s, s, n), w.out = {}, w.s.snd_nxt + Room < SeqMod, SendWindow = 0,
         w.s.parts = 0, NEW p \in n, p.from = "s", p.flags \cap SYN = {}
  PROVE  ClientDone(w, s, n, ClientProcessData(w, p))
  <1> DEFINE r == ClientProcessData(w, p)
             d == CheckSequence(w, "c", p)
  <1>1. /\ "c" \in Ends /\ ~Windowed("c") /\ Typed(w) /\ w.s \in Sockets /\ p \in Packets
        /\ n \cup w.out = n /\ p.len \in Nat
    BY DEF Ends, Windowed, Sane, Typed, Packets
  <1>2. /\ w.s.snd_nxt \in Nat /\ w.s.snd_nxt + (ReqLen + 1) < SeqMod /\ ReqLen + 1 \in Nat
        /\ w.s.snd_nxt + (ReqLen + 1) + 1 < SeqMod /\ w.s.snd_nxt + 1 < SeqMod
    BY <1>1, SocketNumbers, Numbers DEF Room
  <1>3. CASE ~d.ok
    <2>1. r = d.w
      BY <1>3 DEF ClientProcessData
    <2>2. \/ d.w = w
          \/ w.s.state = SK_CLOSED /\ d.w = Set(w, [w.s EXCEPT !.retrans = 0])
          \/ w.s.state # SK_CLOSED /\ d.w = DoRetransmit(w, "c")
      BY <1>1, <1>3, CheckSequenceRefuses
    <2> HIDE DEF d, r
    <2>3. CASE d.w = w
      BY <1>1, <2>1, <2>3 DEF ClientDone, r
    <2>4. CASE w.s.state = SK_CLOSED /\ d.w = Set(w, [w.s EXCEPT !.retrans = 0])
      <3> DEFINE t == [w.s EXCEPT !.retrans = 0]
      <3>1. t \in Sockets /\ SameNumbers(w.s, t) /\ t.state = w.s.state
        BY <1>1, Numbers DEF Sockets, SameNumbers
      <3> HIDE DEF t
      <3>2. Typed(Set(w, t)) /\ Set(w, t).s = t /\ Set(w, t).out = w.out
        BY <1>1, <3>1, SetType
      <3>3. ClientDone(w, s, n, Set(w, t))
        BY <1>1, <3>1, <3>2, ClientNothing
      <3> QED
        BY <2>1, <2>4, <3>3 DEF r, t
    <2>5. CASE w.s.state # SK_CLOSED /\ d.w = DoRetransmit(w, "c")
      <3>1. ClientDone(w, s, n, DoRetransmit(w, "c"))
        BY <1>1, <2>5, ClientRetransmits
      <3> QED
        BY <2>1, <2>5, <3>1 DEF r
    <2> QED
      BY <2>2, <2>3, <2>4, <2>5
  <1>4. CASE d.ok /\ d.w.s.state = SK_ESTABLISHED /\ p.len > 0
    <2> DEFINE t == [d.w.s EXCEPT !.got = @ + 1, !.rid = p.id]
               x == Set(d.w, t)
               e == ClientTakeResponse(x, p.flags)
               g == RST \cup ACK
               y == Reply(e.w, "c", g)
               z == ClientAnswer(e.w, p.flags, e.tx)
    <2>1. r = Close(y, "fast") \/ r = z
      BY <1>4 DEF ClientProcessData
    <2>2. Accepted(w, p, d)
      BY <1>1, <1>4, CheckSequenceAccepts
    <2> HIDE DEF d, r
    <2>3. Typed(d.w) /\ d.w.s \in Sockets /\ d.w.s.got + 1 \in Nat /\ p.id \in Nat
      <3>1. Typed(d.w)
        BY <2>2 DEF Accepted
      <3> QED
        BY <1>1, <3>1 DEF Typed, Sockets, Packets
    <2>4. /\ t \in Sockets /\ t.snd_nxt = d.w.s.snd_nxt /\ t.flags = d.w.s.flags /\ t.id = d.w.s.id
          /\ t.snd_una = d.w.s.snd_una /\ t.rcv_nxt = d.w.s.rcv_nxt /\ t.state = d.w.s.state
          /\ t.rid = p.id /\ t.parts = d.w.s.parts
      <3> DEFINE a == d.w.s
                 b == a.got + 1
                 u == [a EXCEPT !.got = b, !.rid = p.id]
      <3>1. a \in Sockets /\ b \in Nat /\ p.id \in Nat /\ t = u
        BY <2>3
      <3> HIDE DEF a, b, t
      <3>2. u \in Sockets
        BY <3>1, ZenonT(60) DEF Sockets
      <3>3. /\ u.snd_nxt = a.snd_nxt /\ u.flags = a.flags /\ u.id = a.id
            /\ u.snd_una = a.snd_una /\ u.rcv_nxt = a.rcv_nxt /\ u.state = a.state
            /\ u.rid = p.id /\ u.parts = a.parts
        BY <3>1 DEF Sockets
      <3> QED
        BY <3>1, <3>2, <3>3 DEF a
    <2> HIDE DEF t
    <2>5. /\ t.snd_nxt = w.s.snd_nxt /\ t.flags = w.s.flags /\ t.id = w.s.id /\ t.parts = 0
          /\ d.w.out = w.out
      BY <2>2, <2>4 DEF Accepted
    <2>6. /\ ClientHeld(t, s, n) /\ (t.state = SK_CLOSING \/ t.snd_una = t.snd_nxt)
          /\ p.id = w.s.id /\ p.id > w.s.rid
      <3>1. HeardBy(w, p, d, t)
        BY <1>4, <2>4, <2>5 DEF HeardBy
      <3>2. p.len > 0 /\ t.state = SK_ESTABLISHED
        BY <1>4, <2>4
      <3> QED
        BY <1>1, <2>2, <2>4, <3>1, <3>2, ClientTakesSegment
    <2>7. t.state = SK_ESTABLISHED /\ t.snd_una = t.snd_nxt
      BY <1>4, <2>4, <2>6 DEF SK_ESTABLISHED, SK_CLOSING
    <2>8. Typed(x) /\ x.s = t /\ x.out = w.out
      BY <2>3, <2>4, <2>5, SetType
    <2> HIDE DEF x
    <2>9. /\ Delivery(x.s, s, n \cup x.out) /\ x.s.parts = 0
          /\ x.s.snd_nxt + (ReqLen + 1) < SeqMod
          /\ x.s.state = SK_ESTABLISHED /\ x.s.snd_una = x.s.snd_nxt
      BY <1>1, <1>2, <2>5, <2>6, <2>7, <2>8, HeldIsDelivery
    <2>10. TookNext(x, s, n, e)
      BY <2>8, <2>9, ResponseDelivers
    <2> HIDE DEF e
    <2>11. /\ Typed(e.w) /\ Delivery(e.w.s, s, n \cup e.w.out) /\ e.w.s.parts = 0
           /\ e.w.s.snd_nxt <= x.s.snd_nxt + (ReqLen + 1) /\ e.w.s.rid = p.id
           /\ e.tx \in Flags /\ "PUSH" \notin e.tx /\ "URG" \notin e.tx
      BY <2>4, <2>8, <2>9, <2>10 DEF TookNext, ClientMoved
    <2>12. e.w.s.snd_nxt + 1 < SeqMod
      <3>1. e.w.s \in Sockets
        BY <2>11 DEF Typed
      <3>2. e.w.s.snd_nxt \in Nat /\ SeqMod \in Nat
        BY <3>1, SocketNumbers, Numbers
      <3> QED
        BY <1>2, <2>5, <2>8, <2>11, <3>2
    <2>13. ClientHeld(e.w.s, s, n \cup e.w.out)
      BY <2>11, HeldIsDelivery
    <2>14. ASSUME NEW v, ClientMoved(e.w, s, n, v, 1) PROVE ClientDone(w, s, n, v)
      BY <2>6, <2>11, <2>14 DEF ClientMoved, ClientDone
    <2>15. ClientDone(w, s, n, z)
      <3>1. ClientMoved(e.w, s, n, z, 1)
        BY <2>11, <2>12, <2>13, AnswerDelivers
      <3> HIDE DEF z
      <3> QED
        BY <2>14, <3>1
    <2>16. ClientDone(w, s, n, Close(y, "fast"))
      <3>1. g \in Flags /\ "PUSH" \notin g /\ "URG" \notin g
        BY FlagSets DEF RST, ACK
      <3> HIDE DEF g
      <3>2. ClientMoved(e.w, s, n, y, 1)
        BY <2>11, <2>12, <2>13, <3>1, ClientSays
      <3> HIDE DEF y
      <3> DEFINE v == Close(y, "fast")
      <3>3. Typed(y) /\ Delivery(y.s, s, n \cup y.out)
        BY <3>2 DEF ClientMoved
      <3>4. /\ v.out = y.out /\ SameNumbers(y.s, v.s) /\ v.s.state = SK_CLOSED /\ Typed(v)
        BY <3>3, CloseNumbers
      <3> HIDE DEF v
      <3>5. v.s.state = SK_SYN_SENT => y.s.state = SK_SYN_SENT
        BY <3>4 DEF SK_SYN_SENT, SK_CLOSED
      <3>6. ClientMoved(y, s, n, v, 0)
        <4>1. \A k \in Nat : ClientMoved(y, s, n, v, k)
          BY <3>3, <3>4, <3>5, ClientNothing
        <4> QED
          BY <4>1
      <3>7. ClientMoved(e.w, s, n, v, 1 + 0)
        BY <2>11, <3>2, <3>3, <3>6, ClientMovesOn
      <3>8. ClientDone(w, s, n, v)
        BY <2>14, <3>7
      <3> QED
        BY <3>8 DEF v
    <2> HIDE DEF y, z
    <2> QED
      BY <2>1, <2>15, <2>16 DEF r
  <1>5. CASE d.ok /\ ~(d.w.s.state = SK_ESTABLISHED /\ p.len > 0)
    <2>1. r = ClientAnswer(d.w, p.flags, {})
      BY <1>5 DEF ClientProcessData
    <2>2. Accepted(w, p, d)
      BY <1>1, <1>5, CheckSequenceAccepts
    <2> HIDE DEF d, r
    <2> DEFINE t == d.w.s
    <2>3. /\ Typed(d.w) /\ t \in Sockets /\ d.w.out = w.out
          /\ t.snd_nxt = w.s.snd_nxt /\ t.flags = w.s.flags /\ t.id = w.s.id /\ t.parts = 0
          /\ t.rid = w.s.rid /\ t.got = w.s.got
      BY <2>2 DEF Accepted, Typed
    <2>4. ClientHeld(t, s, n) /\ (t.state = SK_CLOSING \/ t.snd_una = t.snd_nxt)
      <3>1. HeardBy(w, p, d, t) /\ t \in Sockets
        BY <1>5, <2>3 DEF HeardBy
      <3> HIDE DEF t
      <3>2. ClientHeld(t, s, n)
        BY <1>1, <2>2, <3>1, ClientTakesSegment
      <3>3. t.state = SK_CLOSING \/ t.snd_una = t.snd_nxt
        BY <1>1, <2>2, <3>1, ClientTakesSegment
      <3> QED
        BY <3>2, <3>3
    <2>5. /\ ClientHeld(d.w.s, s, n \cup d.w.out) /\ d.w.s.snd_nxt + 1 < SeqMod
          /\ d.w.s.state = SK_CLOSING \/ Delivery(d.w.s, s, n \cup d.w.out)
      BY <1>1, <1>2, <2>3, <2>4, HeldIsDelivery
    <2>6. {} \in Flags /\ "PUSH" \notin {} /\ "URG" \notin {}
      BY FlagSets
    <2>7. ClientMoved(d.w, s, n, r, 1)
      BY <2>1, <2>3, <2>5, <2>6, AnswerDelivers
    <2> QED
      BY <2>3, <2>7 DEF ClientMoved, ClientDone, r
  <1> QED
    BY <1>3, <1>4, <1>5

(* tcp_client_process.                                                     *)
LEMMA ClientProcessDelivers ==
  ASSUME cfg \in Configs, NEW s \in Sockets, NEW n \in SUBSET Packets, NEW w, Sane(w),
         Delivery(w.s, s, n), w.out = {}, w.s.snd_nxt + Room < SeqMod, SendWindow = 0,
         w.s.parts = 0, NEW p \in n, p.from = "s"
  PROVE  ClientDone(w, s, n, Process(w, "c", p))
  <1> DEFINE r == Process(w, "c", p)
  <1>1. Typed(w) /\ n \cup w.out = n
    BY DEF Sane
  <1>2. CASE p.flags \cap (SYN \cup RST) = {} /\ "ACK" \in p.flags
    <2>1. p.flags \cap SYN = {} /\ p.flags # SYN /\ p.flags # SYN \cup ACK /\ "RST" \notin p.flags
      BY <1>2 DEF SYN, RST, ACK
    <2>2. r = ClientProcessData(w, p)
      BY <1>2, <2>1 DEF Process
    <2> QED
      BY <2>1, <2>2, ClientDataDelivers
  <1>3. CASE p.flags = SYN \cup ACK
    <2>1. ~(p.flags \cap (SYN \cup RST) = {} /\ "ACK" \in p.flags)
      BY <1>3 DEF SYN, RST
    <2>2. p.flags # SYN /\ ~("RST" \in p.flags) /\ "s" # "c"
      BY <1>3 DEF SYN, ACK
    <2>3. r = ClientProcessSynAck(w, p)
      BY <1>3, <2>1, <2>2, Zenon DEF Process
    <2> QED
      BY <1>1, <1>3, <2>3, ClientSynAckDelivers
  <1>4. CASE ~(p.flags \cap (SYN \cup RST) = {} /\ "ACK" \in p.flags) /\ p.flags # SYN \cup ACK
    <2>1. r = Close(w, "rst") \/ r = w
      BY <1>4 DEF Process, ProcessRst
    <2>2. LET x == Close(w, "rst") IN
          Typed(x) /\ SameNumbers(w.s, x.s) /\ x.out = w.out /\ x.s.state = SK_CLOSED
      BY <1>1, CloseNumbers
    <2>3. SameNumbers(w.s, w.s)
      BY DEF SameNumbers
    <2> HIDE DEF r
    <2>4. Typed(r) /\ SameNumbers(w.s, r.s) /\ r.out = w.out
      BY <1>1, <2>1, <2>2, <2>3
    <2>5. r.s.state = SK_SYN_SENT => w.s.state = SK_SYN_SENT
      BY <2>1, <2>2 DEF SK_CLOSED, SK_SYN_SENT
    <2>6. ClientDone(w, s, n, r)
      BY <1>1, <2>4, <2>5, ClientNothing
    <2> QED
      BY <2>6 DEF r
  <1> QED
    BY <1>2, <1>3, <1>4

(* A handler whose parts only move on is done.                             *)
LEMMA ClientMovedIsDone ==
  ASSUME NEW s, NEW n, NEW w, w.s.parts = 0, NEW r, NEW k, ClientMoved(w, s, n, r, k)
  PROVE  ClientDone(w, s, n, r)
  BY DEF ClientMoved, ClientDone

(* A SYN of the flood: what it waits for is given up at once.              *)
LEMMA FloodSynDelivers ==
  ASSUME cfg \in Configs, NEW s \in Sockets, NEW n \in SUBSET Packets, NEW w, Typed(w),
         Delivery(w.s, s, n \cup w.out), w.s.snd_nxt + 1 < SeqMod
  PROVE  ClientMoved(w, s, n, FloodSyn(w), 1)
  <1> DEFINE r == FloodSyn(w)
             x == Reply(w, "c", SYN)
             c == x.s
             N == n \cup x.out
             t == [c EXCEPT !.snd_una = c.snd_nxt]
             a == AccurateAge(c.age)
             u == StartKeepalive(t, a)
  <1>1. SYN \in Flags /\ "PUSH" \notin SYN /\ "URG" \notin SYN /\ "c" \in Ends /\ "s" \in Ends
        /\ Other("c") = "s" /\ Other("s") = "c"
    BY FlagSets DEF SYN, Ends, Other
  <1>2. ClientHeld(w.s, s, n \cup w.out)
    BY HeldIsDelivery
  <1>3. ClientMoved(w, s, n, x, 1)
    BY <1>1, <1>2, ClientSays
  <1>4. r = Set(x, u)
    BY DEF FloodSyn
  <1> HIDE DEF x, r
  <1>5. Typed(x) /\ c \in Sockets /\ Delivery(c, s, N) /\ N \in SUBSET Packets /\ c.snd_nxt \in Seq
    BY <1>3 DEF ClientMoved, Typed, Sockets
  <1>6. /\ t \in Sockets /\ t.snd_nxt = c.snd_nxt /\ t.snd_una = c.snd_nxt /\ t.rcv_nxt = c.rcv_nxt
        /\ t.flags = c.flags /\ t.id = c.id /\ t.rid = c.rid /\ t.state = c.state
        /\ t.got = c.got /\ t.parts = c.parts
    BY <1>5 DEF Sockets
  <1>7. a \in 0 .. AgeMax
    BY <1>5, AccurateAgeType DEF Sockets
  <1> HIDE DEF c, t, N, a
  <1>8. Bounded(c, s, "c", N) /\ Bounded(s, c, "s", N) /\ Order(c, s, Data(c, "c", N), Data(s, "s", N))
    BY <1>5 DEF Delivery
  <1>9. Bounded(t, s, "c", N) /\ Bounded(s, t, "s", N)
    <2>1. t.rcv_nxt <= s.snd_nxt
      BY <1>6, <1>8 DEF Bounded
    <2> QED
      BY <1>1, <1>5, <1>6, <1>8, <2>1, AcceptBounded
  <1>10. Order(t, s, SentData("c", N), Data(s, "s", N))
    <2> DEFINE dc == Data(c, "c", N)
               ds == Data(s, "s", N)
               ec == SentData("c", N)
    <2>1. DataBounds(c, s, "c", dc) /\ DataBounds(s, c, "s", ds) /\ ec \subseteq dc
      BY <1>1, <1>5, <1>8, BoundsOfData DEF Data
    <2> HIDE DEF dc, ds, ec
    <2>2. Order(c, s, dc, ds)
      BY <1>8 DEF dc, ds
    <2>3. Order(t, s, ec, ds)
      BY <1>5, <1>6, <2>1, <2>2, ClientGoesOn
    <2> QED
      BY <2>3 DEF ds, ec
  <1>11. Delivery(t, s, N)
    BY <1>6, <1>9, <1>10, HeldIsDelivery DEF ClientHeld
  <1>12. u \in Sockets /\ SameNumbers(t, u) /\ u.state = t.state
    BY <1>6, <1>7, StartKeepaliveNumbers
  <1> HIDE DEF u
  <1>13. Delivery(u, s, N)
    BY <1>6, <1>11, <1>12, ClientRests
  <1>14. Typed(r) /\ r.s = u /\ r.out = x.out
    BY <1>4, <1>5, <1>12, SetType
  <1>15. u.parts = c.parts /\ u.got = c.got /\ u.rid = c.rid /\ u.snd_nxt = c.snd_nxt
    BY <1>6, <1>12 DEF SameNumbers
  <1> QED
    BY <1>3, <1>13, <1>14, <1>15 DEF ClientMoved, r, c, N

(* tcp_do_keepalive.                                                       *)
LEMMA DoKeepaliveDelivers ==
  ASSUME cfg \in Configs, NEW s \in Sockets, NEW n \in SUBSET Packets, NEW w, Typed(w),
         Delivery(w.s, s, n \cup w.out), w.s.snd_nxt + Room < SeqMod, w.s.parts = 0
  PROVE  ClientDone(w, s, n, DoKeepalive(w))
  <1> DEFINE r == DoKeepalive(w)
             v == [w.s EXCEPT !.state = SK_FIN_WAIT_1]
             h == ACK \cup FIN
             x == Set(w, v)
             y == Close(w, "flood")
  <1>1. w.s \in Sockets
    BY DEF Typed
  <1>2. w.s.snd_nxt \in Nat /\ w.s.snd_nxt + (ReqLen + 1) < SeqMod /\ w.s.snd_nxt + 1 < SeqMod
        /\ 0 \in Nat /\ 1 \in Nat
    BY <1>1, SocketNumbers, Numbers DEF Room
  <1>3. \/ r = SendKeepaliveRequest(w) /\ w.s.snd_una = w.s.snd_nxt /\ w.s.state = SK_ESTABLISHED
        \/ r = FloodSyn(w)
        \/ r = y
        \/ r = Reply(x, "c", h)
        \/ r = w
    BY DEF DoKeepalive, FloodMore
  <1> HIDE DEF r
  <1>4. CASE r = SendKeepaliveRequest(w) /\ w.s.snd_una = w.s.snd_nxt /\ w.s.state = SK_ESTABLISHED
    <2>1. ClientMoved(w, s, n, r, ReqLen + 1)
      BY <1>2, <1>4, KeepaliveRequestDelivers
    <2> QED
      BY <2>1, ClientMovedIsDone DEF r
  <1>5. CASE r = FloodSyn(w)
    <2>1. ClientMoved(w, s, n, r, 1)
      BY <1>2, <1>5, FloodSynDelivers
    <2> QED
      BY <2>1, ClientMovedIsDone DEF r
  <1>6. CASE r = y
    <2>1. Typed(y) /\ SameNumbers(w.s, y.s) /\ y.out = w.out /\ y.s.state = SK_CLOSED
      BY CloseNumbers
    <2> HIDE DEF y
    <2>2. y.s.state = SK_SYN_SENT => w.s.state = SK_SYN_SENT
      BY <2>1 DEF SK_CLOSED, SK_SYN_SENT
    <2>3. ClientDone(w, s, n, y)
      BY <2>1, <2>2, ClientNothing
    <2> QED
      BY <1>6, <2>3 DEF r
  <1>7. CASE r = Reply(x, "c", h)
    <2>1. h \in Flags /\ "PUSH" \notin h /\ "URG" \notin h /\ SK_FIN_WAIT_1 \in States
      BY FlagSets DEF ACK, FIN, States
    <2>2. v \in Sockets /\ SameNumbers(w.s, v) /\ v.state = SK_FIN_WAIT_1
      BY <1>1, <2>1 DEF Sockets, SameNumbers
    <2>3. v.state = SK_SYN_SENT => w.s.state = SK_SYN_SENT
      BY <2>2 DEF SK_FIN_WAIT_1, SK_SYN_SENT
    <2> HIDE DEF v, h
    <2>4. Typed(x) /\ x.s = v /\ x.out = w.out /\ ClientMoved(w, s, n, x, 0)
      BY <1>2, <2>2, <2>3, ClientPuts
    <2> HIDE DEF x
    <2>5. ClientHeld(x.s, s, n \cup x.out) /\ x.s.snd_nxt + 1 < SeqMod
      BY <1>2, <2>2, <2>4, HeldIsDelivery DEF ClientMoved, SameNumbers
    <2>6. ClientMoved(x, s, n, r, 1)
      BY <1>7, <2>1, <2>4, <2>5, ClientSays
    <2>7. ClientMoved(w, s, n, r, 0 + 1)
      BY <1>2, <2>4, <2>6, ClientMovesOn
    <2> QED
      BY <2>7, ClientMovedIsDone DEF r
  <1>8. CASE r = w
    BY <1>8 DEF ClientDone, r
  <1> QED
    BY <1>3, <1>4, <1>5, <1>6, <1>7, <1>8

(* The timers of the client.                                               *)
LEMMA ClientTimersDeliver ==
  ASSUME cfg \in Configs, NEW s \in Sockets, NEW n \in SUBSET Packets, NEW w, Sane(w),
         Delivery(w.s, s, n), w.out = {}, w.s.snd_nxt + Room < SeqMod, w.s.parts = 0,
         w.s.state # SK_CLOSED
  PROVE  /\ ClientDone(w, s, n, DoRetransmit(Unlink(w), "c"))
         /\ ClientDone(w, s, n, DoKeepalive(Unlink(w)))
  <1> DEFINE x == Unlink(w)
  <1>1. Sane(x) /\ SameNumbers(w.s, x.s) /\ x.s.state = w.s.state /\ x.out = w.out
    BY UnlinkNumbers
  <1> HIDE DEF x
  <1>2. Typed(x) /\ x.s \in Sockets /\ w.s \in Sockets /\ n \cup x.out = n /\ Typed(w)
    BY <1>1 DEF Sane, Typed
  <1>3. Delivery(x.s, s, n) /\ x.s.parts = 0 /\ x.s.snd_nxt + Room < SeqMod
    BY <1>1, <1>2, ClientRests DEF SameNumbers
  <1>4. ClientDone(x, s, n, DoRetransmit(x, "c"))
    BY <1>1, <1>2, <1>3, ClientRetransmits
  <1>5. ClientDone(x, s, n, DoKeepalive(x))
    BY <1>2, <1>3, DoKeepaliveDelivers
  <1>6. ASSUME NEW r, ClientDone(x, s, n, r) PROVE ClientDone(w, s, n, r)
    BY <1>1, <1>6 DEF ClientDone, SameNumbers
  <1> QED
    BY <1>4, <1>5, <1>6 DEF x

(* socket_client_open: one number further, everything in flight is old.    *)
LEMMA ClientOpens ==
  ASSUME NEW s \in Sockets, NEW n \in SUBSET Packets, NEW c \in Sockets, Delivery(c, s, n),
         NEW t \in Sockets, t.snd_nxt = c.snd_nxt + 1, t.snd_una = t.snd_nxt, t.rcv_nxt = 0,
         t.flags = c.flags, t.id = c.id, t.rid = c.rid
  PROVE  Delivery(t, s, n)
  <1>1. "s" \in Ends /\ "c" \in Ends /\ Other("c") = "s" /\ Other("s") = "c"
    BY DEF Ends, Other
  <1>2. c.snd_nxt \in Nat /\ s.rcv_nxt \in Nat /\ s.snd_nxt \in Nat /\ t.snd_nxt > c.snd_nxt
        /\ t.snd_nxt \in Nat
    BY SocketNumbers
  <1>3. Bounded(c, s, "c", n) /\ Bounded(s, c, "s", n) /\ Order(c, s, Data(c, "c", n), Data(s, "s", n))
    BY DEF Delivery
  <1>4. Bounded(s, t, "s", n)
    BY <1>1, <1>2, <1>3 DEF Bounded
  <1>5. Bounded(t, s, "c", n)
    <2>1. \A p \in n : p.ack \in Nat /\ End(p) \in Nat
      BY PacketNumbers
    <2> QED
      BY <1>1, <1>2, <1>3, <2>1 DEF Bounded
  <1>6. Order(t, s, SentData("c", n), Data(s, "s", n))
    <2> DEFINE dc == Data(c, "c", n)
               ds == Data(s, "s", n)
               ec == SentData("c", n)
    <2>1. DataBounds(c, s, "c", dc) /\ DataBounds(s, c, "s", ds) /\ ec \subseteq dc
      BY <1>1, <1>3, BoundsOfData DEF Data
    <2>2. Order(c, s, dc, ds)
      BY <1>3
    <2> HIDE DEF dc, ds, ec
    <2>3. Order(t, s, ec, ds)
      BY <1>2, <2>1, <2>2, ClientGoesOn
    <2> QED
      BY <2>3 DEF ds, ec
  <1> QED
    BY <1>4, <1>5, <1>6, HeldIsDelivery DEF ClientHeld

(* tcp_client_launch.                                                      *)
LEMMA ClientLaunchDelivers ==
  ASSUME cfg \in Configs, NEW s \in Sockets, NEW n \in SUBSET Packets, NEW w, Typed(w),
         Delivery(w.s, s, n), w.out = {}, w.s.snd_nxt + Room < SeqMod
  PROVE  ClientDone(w, s, n, ClientLaunch(w))
  <1> DEFINE r == ClientLaunch(w)
             c == w.s
             iss == Plus(c.snd_nxt, 1)
             k == Keepalive["c"]
             t == [c EXCEPT !.age = 0, !.retrans = 0, !.reqnum = 0, !.keepalive = k,
                            !.snd_nxt = iss, !.snd_una = iss, !.rcv_nxt = 0,
                            !.state = SK_SYN_SENT, !.http_ack = FALSE, !.parts = 0]
             x == Set(w, t)
             y == Reply(x, "c", SYN)
             z == Close(y, "flood")
  <1>1. c \in Sockets /\ n \cup w.out = n /\ SYN \in Flags /\ "PUSH" \notin SYN /\ "URG" \notin SYN
    BY FlagSets DEF Typed, SYN
  <1>2. c.snd_nxt \in Nat /\ c.snd_nxt + 1 < SeqMod /\ c.snd_nxt + 1 + 1 < SeqMod
        /\ 0 \in Nat /\ 1 \in Nat /\ SeqMod \in Nat
    BY <1>1, SocketNumbers, Numbers DEF Room
  <1>3. iss = c.snd_nxt + 1 /\ iss \in Seq /\ 0 \in Seq
    <2>1. iss = c.snd_nxt + 1
      BY <1>2, PlusForward
    <2> QED
      BY <1>2, <2>1 DEF Seq
  <1>4. k \in BOOLEAN /\ SK_SYN_SENT \in States /\ 0 \in 0 .. AgeMax /\ 0 \in 0 .. RETRANSMIT_NUM_MAX
    BY CfgFacts, Numbers DEF Keepalive, States, Ends
  <1>5. r = y \/ r = FloodSyn(x) \/ r = z
    BY DEF ClientLaunch
  <1> HIDE DEF iss, k, c
  <1>6. t \in Sockets
    BY <1>1, <1>2, <1>3, <1>4, ZenonT(60) DEF Sockets
  <1>7. /\ t.snd_nxt = iss /\ t.snd_una = iss /\ t.rcv_nxt = 0 /\ t.flags = c.flags
        /\ t.id = c.id /\ t.rid = c.rid /\ t.got = c.got /\ t.parts = 0
    BY <1>1 DEF Sockets
  <1> HIDE DEF t
  <1>8. Delivery(t, s, n)
    <2>1. Delivery(c, s, n)
      BY DEF c
    <2> QED
      BY <1>1, <1>3, <1>6, <1>7, <2>1, ClientOpens
  <1>9. Typed(x) /\ x.s = t /\ x.out = w.out
    BY <1>6, SetType
  <1> HIDE DEF x
  <1>10. Delivery(x.s, s, n \cup x.out) /\ x.s.snd_nxt + 1 < SeqMod /\ x.s.parts = 0 /\ x.s.got = w.s.got
    BY <1>1, <1>2, <1>3, <1>7, <1>8, <1>9 DEF c
  <1>11. ASSUME NEW v, ClientMoved(x, s, n, v, 1) PROVE ClientDone(w, s, n, v)
    BY <1>10, <1>11 DEF ClientMoved, ClientDone
  <1>12. ClientMoved(x, s, n, y, 1)
    <2>1. ClientHeld(x.s, s, n \cup x.out)
      BY <1>10, HeldIsDelivery
    <2> QED
      BY <1>1, <1>9, <1>10, <2>1, ClientSays
  <1>13. ClientMoved(x, s, n, FloodSyn(x), 1)
    BY <1>9, <1>10, FloodSynDelivers
  <1>14. ClientMoved(x, s, n, z, 1)
    <2> HIDE DEF y
    <2>1. Typed(y) /\ Delivery(y.s, s, n \cup y.out)
      BY <1>12 DEF ClientMoved
    <2>2. Typed(z) /\ SameNumbers(y.s, z.s) /\ z.out = y.out /\ z.s.state = SK_CLOSED
      BY <2>1, CloseNumbers
    <2> HIDE DEF z
    <2>3. z.s.state = SK_SYN_SENT => y.s.state = SK_SYN_SENT
      BY <2>2 DEF SK_CLOSED, SK_SYN_SENT
    <2>4. \A j \in Nat : ClientMoved(y, s, n, z, j)
      BY <2>1, <2>2, <2>3, ClientNothing
    <2>5. ClientMoved(x, s, n, z, 1 + 0)
      BY <1>2, <1>9, <1>12, <2>1, <2>4, ClientMovesOn
    <2> QED
      BY <2>5
  <1> HIDE DEF y, z
  <1> QED
    BY <1>5, <1>11, <1>12, <1>13, <1>14 DEF r

(* tcp_ack_delay_flush.                                                    *)
LEMMA FlushAckDelivers ==
  ASSUME cfg \in Configs, NEW s \in Sockets, NEW n \in SUBSET Packets, NEW w, Typed(w),
         Delivery(w.s, s, n), w.out = {}, w.s.snd_nxt + Room < SeqMod, w.s.parts = 0
  PROVE  ClientDone(w, s, n, FlushAck(w))
  <1> DEFINE r == FlushAck(w)
             t == [w.s EXCEPT !.http_ack = FALSE]
             x == Set(w, t)
  <1>1. w.s \in Sockets /\ n \cup w.out = n /\ ACK \in Flags /\ "PUSH" \notin ACK /\ "URG" \notin ACK
    BY FlagSets DEF Typed, ACK
  <1>2. t \in Sockets /\ SameNumbers(w.s, t) /\ t.state = w.s.state
    <2>1. t \in Sockets /\ t.state = w.s.state
      BY <1>1, ZenonT(60) DEF Sockets
    <2>2. SameNumbers(w.s, t)
      BY <1>1 DEF Sockets, SameNumbers
    <2> QED
      BY <2>1, <2>2
  <1>3. r = Reply(x, "c", ACK) \/ r = x
    BY DEF FlushAck
  <1>4. w.s.snd_nxt \in Nat /\ w.s.snd_nxt + 1 < SeqMod /\ 0 \in Nat /\ 1 \in Nat
    BY <1>1, SocketNumbers, Numbers DEF Room
  <1> HIDE DEF t, r
  <1>5. Typed(x) /\ x.s = t /\ x.out = w.out /\ ClientMoved(w, s, n, x, 0)
    BY <1>1, <1>2, <1>4, ClientPuts, ZenonT(60)
  <1> HIDE DEF x
  <1>6. ClientHeld(x.s, s, n \cup x.out) /\ x.s.snd_nxt + 1 < SeqMod
    BY <1>2, <1>4, <1>5, HeldIsDelivery DEF ClientMoved, SameNumbers
  <1>7. ClientMoved(x, s, n, Reply(x, "c", ACK), 1)
    BY <1>1, <1>5, <1>6, ClientSays
  <1>8. ClientMoved(w, s, n, Reply(x, "c", ACK), 0 + 1)
    BY <1>4, <1>5, <1>7, ClientMovesOn
  <1>9. ClientDone(w, s, n, Reply(x, "c", ACK)) /\ ClientDone(w, s, n, x)
    BY <1>5, <1>8, ClientMovedIsDone
  <1> QED
    BY <1>3, <1>9 DEF r

-----------------------------------------------------------------------------
(* The inductive invariant, and what a step owes.                          *)
Delivered == Delivery(sk["c"], sk["s"], net) /\ sk["c"].parts = 0

DeliversStep ==
    /\ Delivery(sk'["c"], sk'["s"], net') /\ sk'["c"].parts = 0
    /\ sk'["s"].got # sk["s"].got => sk'["s"].id > sk["s"].id
    /\ sk'["c"].got # sk["c"].got => sk'["c"].rid = sk["c"].id /\ sk'["c"].rid > sk["c"].rid

(* What a handler starts from.                                             *)
LEMMA BeginDelivery ==
  ASSUME Inv, Delivered, NEW b \in 0 .. Enough
  PROVE  /\ cfg \in Configs /\ sk["c"] \in Sockets /\ sk["s"] \in Sockets /\ net \in SUBSET Packets
         /\ \A e \in Ends : /\ Sane(Begin(e, b)) /\ Begin(e, b).s = sk[e] /\ Begin(e, b).out = {}
         /\ Delivery(sk["c"], sk["s"], net) /\ sk["c"].parts = 0
  <1>1. b \in Nat
    BY BeginFacts
  <1>2. Sane(Begin("s", b)) /\ Sane(Begin("c", b))
    BY <1>1, BeginFacts DEF Fit, ClientFit
  <1>3. \A e \in Ends : Sane(Begin(e, b))
    BY <1>2 DEF Ends
  <1>4. \A e \in Ends : Begin(e, b).s = sk[e] /\ Begin(e, b).out = {}
    BY DEF Begin
  <1> QED
    BY <1>3, <1>4 DEF Inv, TypeOK, Ends, Delivered

(* A handler of the server that is done is a step ...                      *)
LEMMA ServerStep ==
  ASSUME Inv, Delivered, NEW b \in 0 .. Enough, NEW gone, NEW r, Ran("s", b, gone, r),
         ServerDone(sk["c"], Begin("s", b), net, r)
  PROVE  DeliversStep
  <1>1. /\ sk'["c"] = sk["c"] /\ sk'["s"] = r.s /\ net' \subseteq net \cup r.out
        /\ Begin("s", b).s = sk["s"]
    BY DEF Ran, Inv, TypeOK, Ends, Begin
  <1>2. Delivery(sk["c"], r.s, net \cup r.out)
    BY DEF ServerDone
  <1>3. Delivery(sk["c"], r.s, net')
    BY <1>1, <1>2, DeliveryShrinks
  <1> QED
    BY <1>1, <1>3 DEF ServerDone, DeliversStep, Delivered

(* ... and so is one of the client.                                        *)
LEMMA ClientStep ==
  ASSUME Inv, Delivered, NEW b \in 0 .. Enough, NEW gone, NEW r, Ran("c", b, gone, r),
         ClientDone(Begin("c", b), sk["s"], net, r)
  PROVE  DeliversStep
  <1>1. /\ sk'["s"] = sk["s"] /\ sk'["c"] = r.s /\ net' \subseteq net \cup r.out
        /\ Begin("c", b).s = sk["c"]
    BY DEF Ran, Inv, TypeOK, Ends, Begin
  <1>2. Delivery(r.s, sk["s"], net \cup r.out)
    BY DEF ClientDone
  <1>3. Delivery(r.s, sk["s"], net')
    BY <1>1, <1>2, DeliveryShrinks
  <1> QED
    BY <1>1, <1>3 DEF ClientDone, DeliversStep, Delivered

(* A segment that arrives.                                                 *)
LEMMA ReceiveDelivers ==
  ASSUME Inv, Delivered, SendWindow = 0, Unwrapped, NEW e \in Ends, Receive(e) \/ ReceiveCopy(e)
  PROVE  DeliversStep
  <1>1. PICK p \in net, b \in 0 .. Enough, gone \in SUBSET net :
           p.from = Other(e) /\ Ran(e, b, gone, Process(Begin(e, b), e, p))
    BY ReceiveRuns
  <1> DEFINE w == Begin(e, b)
             r == Process(w, e, p)
  <1>2. /\ cfg \in Configs /\ sk["c"] \in Sockets /\ sk["s"] \in Sockets /\ net \in SUBSET Packets
        /\ Delivery(sk["c"], sk["s"], net) /\ sk["c"].parts = 0
        /\ Sane(w) /\ w.s = sk[e] /\ w.out = {} /\ w.s.snd_nxt + Room < SeqMod
    BY BeginDelivery DEF Unwrapped
  <1>3. CASE e = "s"
    <2>1. p.from = "c"
      BY <1>1, <1>3 DEF Other
    <2> HIDE DEF w
    <2>2. ServerDone(sk["c"], w, net, Process(w, "s", p))
      BY <1>2, <1>3, <2>1, ServerProcessDelivers
    <2> HIDE DEF r
    <2> QED
      BY <1>1, <1>3, <2>2, ServerStep DEF w, r
  <1>4. CASE e = "c"
    <2>1. p.from = "s"
      BY <1>1, <1>4 DEF Other
    <2> HIDE DEF w
    <2>2. ClientDone(w, sk["s"], net, Process(w, "c", p))
      BY <1>2, <1>4, <2>1, ClientProcessDelivers
    <2> HIDE DEF r
    <2> QED
      BY <1>1, <1>4, <2>2, ClientStep DEF w, r
  <1> QED
    BY <1>3, <1>4 DEF Ends

(* The timers.                                                             *)
LEMMA TimersDeliver ==
  ASSUME Inv, Delivered, SendWindow = 0, Unwrapped,
         (\E e \in Ends : RetransmitTimer(e)) \/ TimeoutTimer \/ KeepaliveTimer
  PROVE  DeliversStep
  <1>1. ASSUME NEW b \in 0 .. Enough, NEW e \in Ends, sk[e].timer # "none"
        PROVE  /\ cfg \in Configs /\ sk["c"] \in Sockets /\ sk["s"] \in Sockets
               /\ net \in SUBSET Packets /\ Delivery(sk["c"], sk["s"], net) /\ sk["c"].parts = 0
               /\ Sane(Begin(e, b)) /\ Begin(e, b).s = sk[e] /\ Begin(e, b).out = {}
               /\ Begin(e, b).s.snd_nxt + Room < SeqMod /\ Begin(e, b).s.state # SK_CLOSED
    BY <1>1, BeginDelivery DEF Unwrapped, Inv, TypeOK
  <1>2. CASE \E e \in Ends : RetransmitTimer(e)
    <2>1. PICK e \in Ends : RetransmitTimer(e)
      BY <1>2
    <2>2. PICK b \in 0 .. Enough : Ran(e, b, {}, DoRetransmit(Unlink(Begin(e, b)), e))
      BY <2>1, RetransmitRuns
    <2> DEFINE w == Begin(e, b)
               r == DoRetransmit(Unlink(w), e)
    <2>3. sk[e].timer # "none"
      BY <2>1 DEF RetransmitTimer, Expired
    <2>4. /\ cfg \in Configs /\ sk["c"] \in Sockets /\ sk["s"] \in Sockets
          /\ net \in SUBSET Packets /\ Delivery(sk["c"], sk["s"], net) /\ sk["c"].parts = 0
          /\ Sane(w) /\ w.s = sk[e] /\ w.out = {}
          /\ w.s.snd_nxt + Room < SeqMod /\ w.s.state # SK_CLOSED
      BY <1>1, <2>3
    <2>5. CASE e = "s"
      <3> HIDE DEF w
      <3>1. ServerDone(sk["c"], w, net, DoRetransmit(Unlink(w), "s"))
        BY <2>4, <2>5, ServerTimersDeliver
      <3> QED
        BY <2>2, <2>5, <3>1, ServerStep DEF w
    <2>6. CASE e = "c"
      <3> HIDE DEF w
      <3>1. ClientDone(w, sk["s"], net, DoRetransmit(Unlink(w), "c"))
        BY <2>4, <2>6, ClientTimersDeliver
      <3> QED
        BY <2>2, <2>6, <3>1, ClientStep DEF w
    <2> QED
      BY <2>5, <2>6 DEF Ends
  <1>3. CASE TimeoutTimer
    <2>1. PICK b \in 0 .. Enough : Ran("s", b, {}, GiveUp(Unlink(Begin("s", b))))
      BY <1>3, TimeoutRuns
    <2> DEFINE w == Begin("s", b)
    <2>2. sk["s"].timer # "none" /\ "s" \in Ends
      BY <1>3 DEF TimeoutTimer, Expired, Ends
    <2>3. /\ cfg \in Configs /\ sk["c"] \in Sockets /\ net \in SUBSET Packets
          /\ Delivery(sk["c"], sk["s"], net) /\ Sane(w) /\ w.s = sk["s"] /\ w.out = {}
          /\ w.s.state # SK_CLOSED
      BY <1>1, <2>2
    <2> HIDE DEF w
    <2>4. ServerDone(sk["c"], w, net, GiveUp(Unlink(w)))
      BY <2>3, ServerTimersDeliver
    <2> QED
      BY <2>1, <2>4, ServerStep DEF w
  <1>4. CASE KeepaliveTimer
    <2>1. PICK b \in 0 .. Enough : Ran("c", b, {}, DoKeepalive(Unlink(Begin("c", b))))
      BY <1>4, KeepaliveRuns
    <2> DEFINE w == Begin("c", b)
    <2>2. sk["c"].timer # "none" /\ "c" \in Ends
      BY <1>4 DEF KeepaliveTimer, Expired, Ends
    <2>3. /\ cfg \in Configs /\ sk["s"] \in Sockets /\ net \in SUBSET Packets
          /\ Delivery(sk["c"], sk["s"], net) /\ Sane(w) /\ w.s = sk["c"] /\ w.out = {}
          /\ w.s.snd_nxt + Room < SeqMod /\ w.s.state # SK_CLOSED /\ sk["c"].parts = 0
      BY <1>1, <2>2
    <2> HIDE DEF w
    <2>4. ClientDone(w, sk["s"], net, DoKeepalive(Unlink(w)))
      BY <2>3, ClientTimersDeliver
    <2> QED
      BY <2>1, <2>4, ClientStep DEF w
  <1> QED
    BY <1>2, <1>3, <1>4

(* A launch, and the flush of the delayed ACKs.                            *)
LEMMA LaunchAndFlushDeliver ==
  ASSUME Inv, Delivered, Unwrapped, Launch \/ AckDelayFlush
  PROVE  DeliversStep
  <1>1. ASSUME NEW b \in 0 .. Enough
        PROVE  /\ cfg \in Configs /\ sk["s"] \in Sockets /\ net \in SUBSET Packets
               /\ Delivery(sk["c"], sk["s"], net) /\ sk["c"].parts = 0
               /\ Typed(Begin("c", b)) /\ Begin("c", b).s = sk["c"] /\ Begin("c", b).out = {}
               /\ Begin("c", b).s.snd_nxt + Room < SeqMod
    BY <1>1, BeginDelivery DEF Unwrapped, Sane, Ends
  <1>2. CASE Launch
    <2>1. PICK b \in 0 .. Enough : Ran("c", b, {}, ClientLaunch(Begin("c", b)))
      BY <1>2, LaunchRuns
    <2> DEFINE w == Begin("c", b)
    <2>2. /\ cfg \in Configs /\ sk["s"] \in Sockets /\ net \in SUBSET Packets
          /\ Delivery(sk["c"], sk["s"], net)
          /\ Typed(w) /\ w.s = sk["c"] /\ w.out = {} /\ w.s.snd_nxt + Room < SeqMod
      BY <1>1
    <2> HIDE DEF w
    <2>3. ClientDone(w, sk["s"], net, ClientLaunch(w))
      BY <2>2, ClientLaunchDelivers
    <2> QED
      BY <2>1, <2>3, ClientStep DEF w
  <1>3. CASE AckDelayFlush
    <2>1. PICK b \in 0 .. Enough : Ran("c", b, {}, FlushAck(Begin("c", b)))
      BY <1>3, FlushRuns
    <2> DEFINE w == Begin("c", b)
    <2>2. /\ cfg \in Configs /\ sk["s"] \in Sockets /\ net \in SUBSET Packets
          /\ Delivery(sk["c"], sk["s"], net) /\ sk["c"].parts = 0
          /\ Typed(w) /\ w.s = sk["c"] /\ w.out = {} /\ w.s.snd_nxt + Room < SeqMod
      BY <1>1
    <2> HIDE DEF w
    <2>3. ClientDone(w, sk["s"], net, FlushAck(w))
      BY <2>2, FlushAckDelivers
    <2> QED
      BY <2>1, <2>3, ClientStep DEF w
  <1> QED
    BY <1>2, <1>3

(* Time, and what touches no socket.                                       *)
LEMMA OthersDeliver ==
  ASSUME Inv, Delivered, Tick \/ Lose \/ DurationOver \/ Stop \/ UNCHANGED vars
  PROVE  DeliversStep
  <1>1. sk["c"] \in Sockets /\ sk["s"] \in Sockets /\ "s" \in Ends /\ "c" \in Ends
    BY DEF Inv, TypeOK, Ends
  <1>2. Delivery(sk["c"], sk["s"], net) /\ sk["c"].parts = 0
    BY DEF Delivered
  <1>3. CASE Tick
    <2> DEFINE old(e) == [sk[e] EXCEPT !.age = Older(@, AgeMax), !.quiet = Older(@, QuietMax)]
    <2>1. sk' = [e \in Ends |-> old(e)] /\ net' = net
      BY <1>3, Zenon DEF Tick
    <2>2. \A e \in Ends : SameNumbers(sk[e], old(e)) /\ old(e).state = sk[e].state
      <3>1. ASSUME NEW e \in Ends
            PROVE  SameNumbers(sk[e], old(e)) /\ old(e).state = sk[e].state
        <4>1. sk[e] \in Sockets
          BY DEF Inv, TypeOK
        <4> QED
          BY <4>1 DEF Sockets, SameNumbers
      <3> QED
        BY <3>1
    <2> HIDE DEF old
    <2>3. sk'["c"] = old("c") /\ sk'["s"] = old("s")
      BY <1>1, <2>1
    <2>4. Inv'
      BY <1>3, TickKeeps
    <2>5. sk'["c"] \in Sockets /\ sk'["s"] \in Sockets
      BY <1>1, <2>4 DEF Inv, TypeOK
    <2>6. /\ SameNumbers(sk["c"], sk'["c"]) /\ sk'["c"].state = sk["c"].state
          /\ SameNumbers(sk["s"], sk'["s"])
      BY <1>1, <2>2, <2>3
    <2>7. Delivery(sk'["c"], sk["s"], net)
      BY <1>1, <1>2, <2>5, <2>6, ClientRests
    <2>8. Delivery(sk'["c"], sk'["s"], net)
      BY <1>1, <2>5, <2>6, <2>7, ServerRests
    <2> QED
      BY <1>2, <2>1, <2>6, <2>8 DEF DeliversStep, SameNumbers
  <1>4. CASE Lose \/ DurationOver \/ Stop \/ UNCHANGED vars
    <2>1. sk' = sk /\ net' \subseteq net
      BY <1>4 DEF Lose, DurationOver, Stop, vars
    <2>2. Delivery(sk["c"], sk["s"], net')
      BY <1>2, <2>1, DeliveryShrinks
    <2> QED
      BY <1>2, <2>1, <2>2 DEF DeliversStep
  <1> QED
    BY <1>3, <1>4

(* Every step, while the numbers do not wrap.                              *)
LEMMA StepDelivers ==
  ASSUME Inv, Delivered, SendWindow = 0, Unwrapped, [Next]_vars
  PROVE  DeliversStep
  <1>1. CASE \E e \in Ends : Receive(e) \/ ReceiveCopy(e)
    BY <1>1, ReceiveDelivers
  <1>2. CASE (\E e \in Ends : RetransmitTimer(e)) \/ TimeoutTimer \/ KeepaliveTimer
    BY <1>2, TimersDeliver
  <1>3. CASE Launch \/ AckDelayFlush
    BY <1>3, LaunchAndFlushDeliver
  <1>4. CASE Tick \/ Lose \/ DurationOver \/ Stop \/ UNCHANGED vars
    BY <1>4, OthersDeliver
  <1> QED
    BY <1>1, <1>2, <1>3, <1>4, Zenon DEF Next

(* Before the first packet there is nothing to tell apart.                 *)
LEMMA InitDelivers ==
  ASSUME Init
  PROVE  Delivered
  <1>1. sk["c"] = Socket("c") /\ sk["s"] = Socket("s") /\ net = {} /\ Inv
    BY InitKeeps DEF Init, Ends
  <1>2. /\ InitSeq["c"] \in Nat /\ InitSeq["s"] \in Nat
    BY TcpAssumption DEF Ends
  <1>3. \A e \in Ends : /\ Socket(e).snd_una = 0 /\ Socket(e).snd_nxt = InitSeq[e] /\ Socket(e).flags = {}
                        /\ Socket(e).rcv_nxt = 0 /\ Socket(e).id = 0 /\ Socket(e).rid = 0
                        /\ Socket(e).parts = 0 /\ Socket(e).state = SK_CLOSED
    BY DEF Socket
  <1>4. \A e \in Ends : SegLen(e, {}) = 0
    BY DEF SegLen
  <1>5. \A e \in Ends : Data(Socket(e), e, {}) = {}
    BY <1>3 DEF Data, SentData, Pending
  <1>6. "c" \in Ends /\ "s" \in Ends
    BY DEF Ends
  <1>7. Order(sk["c"], sk["s"], {}, {})
    BY <1>1, <1>3, <1>6 DEF Order, NotServedYet, RequestsNumbered, LastRequest, LastResponse, OldBeforeOpen
  <1>8. Bounded(sk["c"], sk["s"], "c", {}) /\ Bounded(sk["s"], sk["c"], "s", {})
    <2>1. ASSUME NEW e \in Ends, NEW o \in Ends PROVE Bounded(Socket(e), Socket(o), e, {})
      <3>1. InitSeq[e] \in Nat /\ SegLen(e, {}) = 0 /\ "URG" \notin {}
        BY <1>2, <1>4 DEF Ends
      <3>2. /\ Socket(e).snd_una = 0 /\ Socket(e).snd_nxt = InitSeq[e] /\ Socket(e).flags = {}
            /\ Socket(o).rcv_nxt = 0
        BY <1>3
      <3> QED
        BY <3>1, <3>2 DEF Bounded
    <2> QED
      BY <1>1, <1>6, <2>1
  <1> QED
    BY <1>1, <1>3, <1>5, <1>6, <1>7, <1>8 DEF Delivered, Delivery

(* While the numbers do not wrap and there is no send window, no request   *)
(* and no response in flight, however old or often sent, has numbers that  *)
(* tcp_check_sequence could mistake.                                       *)
THEOREM NumbersTellApart == Spec /\ [](SendWindow = 0 /\ Unwrapped) => []Delivered
  <1>1. Init => Delivered
    BY InitDelivers
  <1>2. ASSUME Inv, Delivered, SendWindow = 0, Unwrapped, [Next]_vars PROVE Delivered'
    <2>1. DeliversStep
      BY <1>2, StepDelivers
    <2> QED
      BY <2>1 DEF DeliversStep, Delivered
  <1> QED
    BY <1>1, <1>2, HandlersKeepInv, PTL DEF Spec

(* The server serves a request once: tcp_check_sequence on one number a    *)
(* side is enough, whatever is lost, copied, delayed or sent again, and    *)
(* across connections.                                                     *)
THEOREM RequestsServedOnce == Spec /\ [](SendWindow = 0 /\ Unwrapped) => ServedOnce
  <1>1. ASSUME Inv, Delivered, SendWindow = 0, Unwrapped, [Next]_vars
        PROVE  sk'["s"].got # sk["s"].got => sk'["s"].id > sk["s"].id
    BY <1>1, StepDelivers DEF DeliversStep
  <1> QED
    BY <1>1, HandlersKeepInv, NumbersTellApart, PTL DEF Spec, ServedOnce

(* A response the client takes answers the request it sent last, which was *)
(* not answered before; never one of an earlier connection.                *)
THEOREM ResponsesAnswerLast == Spec /\ [](SendWindow = 0 /\ Unwrapped) => AnswersMyRequest
  <1>1. ASSUME Inv, Delivered, SendWindow = 0, Unwrapped, [Next]_vars
        PROVE  sk'["c"].got # sk["c"].got =>
                   /\ sk'["c"].rid = sk["c"].id
                   /\ (sk'["c"].rid > sk["c"].rid) <=> (sk["c"].parts = 0)
    BY <1>1, StepDelivers DEF DeliversStep, Delivered
  <1> QED
    BY <1>1, HandlersKeepInv, NumbersTellApart, PTL DEF Spec, AnswersMyRequest
=============================================================================
