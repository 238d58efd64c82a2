------------------------------- MODULE Setup -------------------------------
(***************************************************************************)
(* From a configuration file to workers that share the connections of a    *)
(* test: the file is read and checked, the work spaces get their templates *)
(* and socket tables (work_space.c), flow rules or the hash of the NIC     *)
(* spread the packets (flow.c), and the workers of a client take sockets   *)
(* and, with rss, take over each other's (socket.h).                       *)
(***************************************************************************)
EXTENDS Template

CONSTANTS
    Files,      \* the beginnings of the configuration files to explore
    Lines,      \* the lines that may follow
    MaxLines,   \* how many of them
    MaxTakes    \* how many sockets are taken in all

AllLines == Lines \cup UNION {Range(f) : f \in Files}

\* The arguments are what the words of a line are read as: numbers, addresses
\* and ranges of cpus where a handler reads those
NumberKeywords ==
    {"keepalive", "pipeline", "duration", "cps", "cc", "launch_num", "listen", "tx_burst", "slow_start", "wait",
     "mss", "jumbo", "lport_range", "client_port_range", "retransmit_timeout"}

WellFormed(l) ==
    /\ Len(l.a) \in Nat
    /\ \A i \in 1 .. Len(l.a) :
        /\ l.k \in NumberKeywords => l.a[i].n \in Int
        /\ l.k = "cpu" => l.a[i].lo \in Int /\ l.a[i].hi \in Int
        /\ l.k \in {"client", "server"} => IF i = 2 THEN l.a[i].n \in Int ELSE l.a[i].ip \in Nat
        /\ l.k = "change_dip" /\ i > 1 => l.a[i].n \in Int

ASSUME SetupAssumption ==
    /\ {MaxLines, MaxTakes} \subseteq Nat
    /\ Files \subseteq Seq(AllLines)
    /\ \A l \in AllLines : WellFormed(l)

VARIABLES
    file,       \* what is left of the beginning
    more,       \* lines read after it
    stage,      \* "file", "check", "accepted", "refused", "run"
    at,         \* the next check
    cfg,        \* g_config
    next,       \* socket_pool.next of every worker
    open,       \* per worker, the 4-tuples whose socket is not closed
    gone,       \* per worker, those whose laddr another worker has cleared
    hash,       \* with rss, the worker the NIC has chosen for a 4-tuple
    taking,     \* takeovers in progress: by whom, from whom, which 4-tuple
    takes

vars == <<file, more, stage, at, cfg, next, open, gone, hash, taking, takes>>
running == <<next, open, gone, hash, taking, takes>>

Workers == 0 .. cfg.cpu_num - 1
-----------------------------------------------------------------------------
(* What the configuration makes of a worker                                *)

\* socket_table_init
SocketTableInit(c, w) ==
    LET r == c.sgrp[PortOf(c, w)]
    IN  [cips   |-> IF c.server THEN FlattenSeq([g \in Groups(c.cgrp) |-> c.cgrp[g].list])
                    ELSE c.cgrp[PortOf(c, w)].list,
         sipMin |-> IF c.flow = "fdir" THEN IpRangeGet(r, QueueOf(c, w)) ELSE IpRangeGet(r, 0),
         sipNum |-> IF c.flow = "fdir" THEN 1 ELSE Len(r.list),
         spMin  |-> c.listen, spNum |-> c.listen_num,
         cpMin  |-> c.lport_min, cpMax |-> c.lport_max]

FlowInitPortFirst(c, p, q) == IpRangeGet(c.sgrp[p], 0)

\* flow_init_port: the server address whose packets a queue receives
FlowInitPort(c, p, q) == IpRangeGet(c.sgrp[p], q)

\* flow_init: which of the packets of its port does a worker receive?  With
\* flood no rule is set and the client does not look at answers.  In VXLAN
\* the rules name the tunnel's end of the queue (flow_init_vxlan), and the
\* peer is taken to send to that of the worker with the server address.
FlowInit(c, w, t) ==
    CASE c.flow = "fdir" -> ~Has(c, "flood") /\ t.sip = FlowInitPort(c, PortOf(c, w), QueueOf(c, w))
      [] c.flow # "fdir" -> TRUE

\* The 4-tuples of the test on the worker's port
PortTuples(c, w) ==
    [cip : IF c.server THEN UNION {Range(c.cgrp[g].list) : g \in Groups(c.cgrp)}
           ELSE Range(c.cgrp[PortOf(c, w)].list),
     cp : c.lport_min .. c.lport_max,
     sp : c.listen .. c.listen + c.listen_num - 1,
     sip : Range(c.sgrp[PortOf(c, w)].list)]

\* work_space_init_change_dip
InitChangeDip(c, w) ==
    c.server \/ c.dips.num = 0 \/ IpListSplit(c.dips.num, w, c.cpu_num) > 0
-----------------------------------------------------------------------------
Init ==
    /\ file \in Files
    /\ more = 0 /\ stage = "file" /\ at = 0 /\ cfg = Config0
    /\ next = <<>> /\ open = <<>> /\ gone = <<>> /\ hash = <<>> /\ taking = {} /\ takes = 0

Accept(c, then) ==
    IF c = Error THEN stage' = "refused" /\ cfg' = Config0
    ELSE stage' = then /\ cfg' = c

ReadLine(l) ==
    /\ stage = "file"
    /\ IF file # <<>> THEN l = Head(file) /\ file' = Tail(file) /\ UNCHANGED more
       ELSE more < MaxLines /\ more' = more + 1 /\ UNCHANGED file
    /\ Accept(KeywordParse(cfg, l), "file")
    /\ UNCHANGED <<at, running>>

EndOfFile ==
    /\ stage = "file" /\ file = <<>>
    /\ stage' = "check" /\ at' = 1 /\ more' = 0
    /\ UNCHANGED <<file, cfg, running>>

Check ==
    /\ stage = "check"
    /\ Accept(ConfigParse(cfg, at), IF at = Checks THEN "accepted" ELSE "check")
    /\ at' = IF at = Checks THEN 0 ELSE at + 1
    /\ UNCHANGED <<file, more, running>>

\* dpdk_init and work_space_new; of the configuration what the workers go by.
\* With a number of sockets that has wrapped, or with ports beyond a uint16_t,
\* the loops of socket_table_init write beyond the pool; what happens then is
\* undefined and not followed further
Start ==
    /\ stage = "accepted" /\ SocketsFit(cfg)
    /\ stage' = "run"
    /\ cfg' = [server |-> cfg.server, flags |-> cfg.flags \cap {"flood", "client_hop"}, flow |-> cfg.flow,
               cpu_num |-> cfg.cpu_num, ports |-> [p \in 1 .. Len(cfg.ports) |-> p],
               cgrp |-> cfg.cgrp, sgrp |-> cfg.sgrp, listen |-> cfg.listen,
               listen_num |-> cfg.listen_num, lport_min |-> cfg.lport_min, lport_max |-> cfg.lport_max]
    /\ next' = [w \in Workers |-> 0]
    /\ open' = [w \in Workers |-> {}] /\ gone' = [w \in Workers |-> {}]
    /\ UNCHANGED <<file, more, at, hash, taking, takes>>
-----------------------------------------------------------------------------
(* The workers of a client                                                 *)
\* The 4-tuple of the socket at index k of the pool, as the loops of
\* socket_port_table_new give them out
TupleAt(w, k) ==
    LET st == SocketTableInit(cfg, w)
        j  == k % PortTableSize(st)
    IN  [cip |-> st.cips[(k \div PortTableSize(st)) + 1],
         cp  |-> st.cpMin + (j \div ServerIpPortNum(st)),
         sp  |-> st.spMin + ((j % ServerIpPortNum(st)) \div st.sipNum),
         sip |-> st.sipMin + (j % st.sipNum)]

\* The worker is inside socket_client_check_rss
Taking(w) == \E x \in taking : x[1] = w

Hop == IF Has(cfg, "client_hop") THEN NETWORK_PORT_NUM - 1 ELSE 0

\* A worker picks the ports that are its own modulo the number of queues
RssOwn(w, t) == t.cp % PortQueueNum(cfg) = QueueOf(cfg, w)

RssSockets(w) ==
    {k \in 0 .. GetTotalSocketNum(cfg, w) - 1 : RssOwn(w, TupleAt(w, k)) /\ TupleAt(w, k) \notin gone[w]}

\* socket_table_get_socket for a launch
GetSocket(w) ==
    LET num == GetTotalSocketNum(cfg, w)
    IN  /\ stage = "run" /\ ~cfg.server /\ cfg.flow # "rss" /\ takes < MaxTakes /\ ~Taking(w)
        /\ open' = [open EXCEPT ![w] = @ \cup {TupleAt(w, next[w])}]
        /\ next' = [next EXCEPT ![w] = NextSocket(@, num, Hop)]
        /\ takes' = takes + 1
        /\ UNCHANGED <<file, more, stage, at, cfg, gone, hash, taking>>

\* socket_table_get_socket_rss.  Without a socket of its own the worker never
\* returns from it.  Beyond the pool it gets memory that is no socket; what
\* happens then is undefined and not followed further
GetSocketRss(w) ==
    LET num == GetTotalSocketNum(cfg, w)
    IN  /\ stage = "run" /\ ~cfg.server /\ cfg.flow = "rss" /\ takes < MaxTakes /\ ~Taking(w)
        /\ \E k \in NextRss(next[w], num, RssSockets(w)) :
             /\ k < num
             /\ open' = [open EXCEPT ![w] = @ \cup {TupleAt(w, k)}]
             /\ next' = [next EXCEPT ![w] = HopRss(k, num, Hop)]
        /\ takes' = takes + 1
        /\ UNCHANGED <<file, more, stage, at, cfg, gone, hash, taking>>

\* external: the hash of the NIC is a function of the 4-tuple
NicQueue(t, w) == t \in DOMAIN hash => hash[t] = w

\* socket_client_lookup with rss, for a packet of t at worker w, where v is
\* the worker that t belongs to: socket_client_check_rss copies its socket
\* (socket_dup) and then clears the addresses of that copy, while v runs on
RecvRss(w, v, t) ==
    /\ stage = "run" /\ cfg.flow = "rss" /\ ~cfg.server
    /\ PortOf(cfg, v) = PortOf(cfg, w) /\ RssOwn(v, t) /\ ~Taking(w)
    /\ NicQueue(t, w)
    /\ hash' = [u \in DOMAIN hash \cup {t} |-> IF u = t THEN w ELSE hash[u]]
    /\ IF t \notin gone[w] /\ v # w /\ t \notin gone[v]
       THEN /\ open' = [open EXCEPT ![w] = IF t \in open[v] THEN @ \cup {t} ELSE @ \ {t}]
            /\ taking' = taking \cup {<<w, v, t>>}
       ELSE UNCHANGED <<open, taking>>
    /\ UNCHANGED <<file, more, stage, at, cfg, next, gone, takes>>

\* The 4-tuples whose packets may come: those v has open or has passed since
\* it last began with its pool, and those the NIC has seen
Packets(v) ==
    open[v] \cup DOMAIN hash
        \cup {TupleAt(v, k) : k \in {j \in 0 .. GetTotalSocketNum(cfg, v) - 1 : j < next[v]}}

\* A socket that is copied but not disabled
ClearCopyNot(w, v, t) ==
    /\ <<w, v, t>> \in taking
    /\ taking' = taking \ {<<w, v, t>>}
    /\ UNCHANGED <<file, more, stage, at, cfg, next, open, gone, hash, takes>>

ClearCopy(w, v, t) ==
    /\ <<w, v, t>> \in taking
    /\ gone' = [gone EXCEPT ![v] = @ \cup {t}]
    /\ taking' = taking \ {<<w, v, t>>}
    /\ UNCHANGED <<file, more, stage, at, cfg, next, open, hash, takes>>

\* The exchange ends, or the timer finds that the socket was given away
SocketClose(w, t) ==
    /\ stage = "run" /\ ~Taking(w)
    /\ t \in open[w]
    /\ open' = [open EXCEPT ![w] = @ \ {t}]
    /\ UNCHANGED <<file, more, stage, at, cfg, next, gone, hash, taking, takes>>

Next ==
    \/ \E l \in Lines \cup (IF file # <<>> THEN {Head(file)} ELSE {}) : ReadLine(l)
    \/ EndOfFile \/ Check \/ Start
    \/ \E w \in Workers : GetSocket(w) \/ GetSocketRss(w)
    \/ /\ stage = "run"
       /\ \E w, v \in Workers :
            \/ \E t \in Packets(v) : RecvRss(w, v, t)
            \/ w = v /\ \E t \in open[w] : SocketClose(w, t)
    \/ \E x \in taking : ClearCopy(x[1], x[2], x[3])

Spec == Init /\ [][Next]_vars
-----------------------------------------------------------------------------
Written(st) ==
    {<<PortTableBase(st, i) + SocketPortTableGet(st, t.cp, t.sp, t.sip), i, t>> :
        i \in 1 .. Len(st.cips), t \in Tuples(st)}

(* The pool work_space_alloc makes room for (config_get_total_socket_num)  *)
(* is exactly filled by the loops of socket_table_init, if a uint32_t can  *)
(* hold their number and a uint16_t their ports: no socket is left without *)
(* a 4-tuple, none is written twice and none beyond the end.               *)
PoolExact ==
    stage = "accepted" /\ SocketsFit(cfg) =>
        \A w \in Workers :
            LET st  == SocketTableInit(cfg, w)
                num == GetTotalSocketNum(cfg, w)
                set == {x \in Written(st) : x[3].cip = st.cips[x[2]]}
            IN  Cardinality(set) = num /\ {x[1] : x \in set} = 0 .. num - 1

(* Whatever the flow rules or the hash of the NIC hand to a worker, its    *)
(* table, if it could be filled, has the socket of that 4-tuple and the    *)
(* lookup finds that one.                                                  *)
FlowHasSocket ==
    stage = "accepted" /\ SocketsFit(cfg) =>
        \A w \in Workers : \A t \in PortTuples(cfg, w) :
            FlowInit(cfg, w, t) =>
                LET st == SocketTableInit(cfg, w)
                    k  == SocketLookup(st, t)
                IN  k # -1 /\ \E i \in 1 .. Len(st.cips) : SocketPortTableNew(st, i, k, t)

(* No two workers have the same connection open at the same time, although *)
(* with rss their tables are equal, except while one takes it over from    *)
(* the other; and the worker that gets the packets of a connection still   *)
(* has its socket.                                                         *)
OneCopy ==
    stage = "run" =>
        /\ \A v, w \in Workers : v # w =>
             \A t \in (open[v] \ gone[v]) \cap (open[w] \ gone[w]) : {<<v, w, t>>, <<w, v, t>>} \cap taking # {}
        /\ \A t \in DOMAIN hash : t \notin gone[hash[t]]

\* Two ticks of the timers, in microseconds
TwoTicks(ticks) == 2000000 \div ticks

(* An accepted configuration is one the other parts are written for:       *)
(* every share of a target, period, burst and queue is positive, whatever  *)
(* overflowed on the way; a keepalive interval is two ticks or more, also  *)
(* when its product has wrapped; the sockets suffice for the share,        *)
(* pipelining only where requests are not paced, and every worker gets     *)
(* addresses of change_dip.  The ports of listen are below 65535 unless    *)
(* the int sum that is to show it overflows: then any are accepted.        *)
AcceptedSound ==
    stage = "accepted" =>
        /\ cfg.duration > 0 /\ cfg.tx_burst \in 1 .. 255 /\ cfg.rto >= 2 /\ cfg.mss > 0
        /\ cfg.queue_num * Len(cfg.ports) = cfg.cpu_num
        /\ 1 <= cfg.lport_min /\ cfg.lport_min <= cfg.lport_max /\ cfg.lport_max < NETWORK_PORT_NUM
        /\ 1 <= cfg.listen /\ 1 <= cfg.listen_num
        /\ cfg.listen + cfg.listen_num < NETWORK_PORT_NUM \/ cfg.listen + cfg.listen_num > INT_MAX
        /\ \A w \in Workers : InitChangeDip(cfg, w)
        /\ cfg.server => cfg.pipeline = 0 /\ cfg.reqnum = 0 /\ ~Has(cfg, "flood")
        /\ ~cfg.server =>
             /\ cfg.cps > 0 /\ cfg.wait > 0 /\ cfg.slow_start > 0
             /\ cfg.cc > 0 => cfg.keepalive
             /\ cfg.keepalive /\ cfg.interval > 0 => cfg.interval >= TwoTicks(cfg.ticks)
             /\ cfg.interval = 0 => cfg.reqnum = 0
             /\ cfg.pipeline > 0 => cfg.keepalive /\ (Has(cfg, "flood") \/ cfg.interval = 0)
             /\ \A w \in Workers : GetTotalSocketNum(cfg, w) >= cfg.rto * (cfg.cps \div cfg.cpu_num)

(* Every packet template of an accepted configuration was built: its       *)
(* headers agree with its length, and without VXLAN, whose headers come on *)
(* top, it is no longer than the port may send.                            *)
TemplateFits ==
    stage = "accepted" =>
        \A w \in Workers : \A m \in Templates(cfg, w) :
            /\ m # Error
            /\ m.total = m.l2 + m.l3 + m.l4 + m.data + (IF cfg.vxlan THEN VXLAN_HEADERS_SIZE ELSE 0)
            /\ m.iplen = m.l3 + m.l4 + m.data
            /\ IF cfg.protocol = "tcp" THEN 4 * m.off = m.l4 ELSE m.udplen = m.l4 + m.data
            /\ cfg.vxlan => m.outer = m.total - 14
            /\ m.l2 + m.iplen <= (IF cfg.jumbo > 0 THEN cfg.jumbo + 14 ELSE 1514)
=============================================================================
