---------------------------- MODULE SocketTable ----------------------------
(***************************************************************************)
(* The socket table of a worker (socket.h, socket.c): an array of sockets, *)
(* one per 4-tuple the worker may ever see, laid out by client address,    *)
(* client port, server port and server address, so that a lookup is one    *)
(* multiplication away.  Addresses are the last 32 bits of an IPv4 or IPv6 *)
(* address, in host order; a table st is a record                          *)
(*   cips           the client addresses, in the order they are entered    *)
(*   sipMin, sipNum the server addresses                                   *)
(*   spMin, spNum   the server ports                                       *)
(*   cpMin, cpMax   the client ports                                       *)
(***************************************************************************)
EXTENDS Integers, Sequences, FiniteSets

\* The index of st->ht: the last two bytes of the client address
Low2Byte(ip) == ip % 65536

ServerIpPortNum(st) == st.sipNum * st.spNum

\* How many sockets one call of socket_port_table_new takes from the pool
PortTableSize(st) == (st.cpMax - st.cpMin + 1) * ServerIpPortNum(st)

SocketPortTableGet(st, cp, sp, sip) ==
    (cp - st.cpMin) * ServerIpPortNum(st) + (sp - st.spMin) * st.sipNum + (sip - st.sipMin)

\* socket_port_table_init_ip_range, socket_port_table_init_ip_group: the
\* table of the i-th client address begins where the pool has got to
PortTableBase(st, i) == (i - 1) * PortTableSize(st)

Tuples(st) ==
    [cip : {st.cips[i] : i \in 1 .. Len(st.cips)}, cp : st.cpMin .. st.cpMax,
     sp : st.spMin .. st.spMin + st.spNum - 1, sip : st.sipMin .. st.sipMin + st.sipNum - 1]

\* socket_port_table_new: is the socket at index k of the pool initialised as
\* that of the 4-tuple t, while the i-th client address is entered?
SocketPortTableNew(st, i, k, t) ==
    /\ t \in Tuples(st)
    /\ t.cip = st.cips[i]
    /\ k = PortTableBase(st, i) + SocketPortTableGet(st, t.cp, t.sp, t.sip)

\* The addresses entered under an index of st->ht; the last one entered stays
Entered(st, low) == {i \in 1 .. Len(st.cips) : Low2Byte(st.cips[i]) = low}

Ht(st, low) == CHOOSE i \in Entered(st, low) : \A j \in Entered(st, low) : j <= i

\* The index in the pool, or -1 for NULL
SocketCommonLookup(st, t) ==
    IF /\ Entered(st, Low2Byte(t.cip)) # {} /\ t.cp # 0
       /\ t.sip >= st.sipMin /\ t.sip <= st.sipMin + st.sipNum - 1
       /\ t.cp >= st.cpMin /\ t.cp <= st.cpMax
       /\ t.sp >= st.spMin /\ t.sp <= st.spMin + st.spNum - 1
    THEN PortTableBase(st, Ht(st, Low2Byte(t.cip))) + SocketPortTableGet(st, t.cp, t.sp, t.sip)
    ELSE -1

\* socket_client_lookup, socket_server_lookup without rss: the socket found
\* must have the addresses of the packet
SocketLookup(st, t) ==
    LET k == SocketCommonLookup(st, t)
    IN  IF /\ k # -1
           /\ \E i \in 1 .. Len(st.cips), u \in Tuples(st) :
                /\ SocketPortTableNew(st, i, k, u)
                /\ u.cip = t.cip /\ u.sip = t.sip
        THEN k ELSE -1
-----------------------------------------------------------------------------
(* socket_table_get_socket                                                 *)

\* Without rss: the index taken is next itself; the new value of next
NextSocket(next, num, hop) ==
    LET n == IF next + 1 >= num THEN 0 ELSE next + 1
    IN  IF hop = 0 THEN n ELSE IF n + hop >= num THEN 0 ELSE n + hop

\* With rss: the indices it may take, where ok are those of the worker's own
\* and not given-away sockets.  next may be num: what is read there is not a
\* socket, and may look like one or not (undefined)
NextRss(next, num, ok) ==
    LET after == {k \in ok : k >= next}
        first == IF after # {} THEN after ELSE ok
    IN  {k \in first : \A j \in first : k <= j} \cup (IF next = num THEN {num} ELSE {})

\* next after the index k was taken with rss, with client_hop
HopRss(k, num, hop) ==
    IF hop = 0 THEN k + 1 ELSE IF k + 1 + hop >= num THEN 0 ELSE k + 1 + hop
=============================================================================
