--------------------------------- MODULE Rx ---------------------------------
(***************************************************************************)
(* The workers of one port receive: the layer-3 entries of loop.h, ARP,    *)
(* ICMP and ICMPv6 (arp.c, icmp.c, icmp6.c), the search for the gateway    *)
(* (neigh.c, work_space_update_gw), the kernel interface (kni.c), the      *)
(* slow timer with LLDP, and lcore_main around them (main.c).              *)
(*                                                                         *)
(* A handler is one step, because what it touches belongs to its worker,   *)
(* with one exception: work_space_update_gw writes port->gateway_mac and   *)
(* then the packet templates of every worker, one after the other, while   *)
(* those workers run.  TCP and UDP handlers are modelled in Tcp and Udp;   *)
(* here they only decide what becomes of the mbuf.                         *)
(***************************************************************************)
EXTENDS Mbuf

CONSTANTS
    NEIGH_SEC, POLLS,  \* neigh_check_gateway: seconds, and polls per second
    Confs,             \* the configurations to explore
    Frames,            \* the frames the NIC may deliver
    KernelFrames,      \* the frames the kernel may send
    Macs,              \* MAC addresses the gateway answers with; 0 is none
    ArpLikeIcmp,       \* those with 0x01 as second byte, see VxlanInput
    NO_MBUF

ConfType ==
    [l3 : {"ipv4", "ipv6", "vxlan"},  \* the l3_input of the loop
     inner6 : BOOLEAN,                \* cfg->af, inside VXLAN
     proto : {"tcp", "udp"},          \* cfg->protocol
     kni : BOOLEAN,                   \* port->kni
     bond4 : BOOLEAN,                 \* port_is_bond4
     ignore : BOOLEAN,                \* ws->neigh_ignore
     rst : BOOLEAN,                   \* cfg->tcp_rst
     gwmac : {0} \cup Macs]           \* gateway_mac given in the port line, or 0

(* What the handlers look at in a frame.  In VXLAN the fields describe the *)
(* inner packet if the outer headers pass vxlan_check (vx).                *)
FrameType ==
    [eth : {"ip4", "ip6", "arp", "other"},
     vx : BOOLEAN,
     flaw : {"none", "csum", "frag", "ihl", "hops", "code"},
     opts : 0 .. 2,                   \* IPv6 destination options headers
     proto : {"tcp", "udp", "icmp", "other"},
     op : {"echo", "echorep", "req", "rep", "other"}, \* ARP operation, ICMP type
     to : {"local", "range", "alien"}, \* local_ip, local_ip_range, or neither
     gw : BOOLEAN,                    \* the sender is port->gateway_ip
     mac : Macs]                      \* its MAC address

ASSUME RxAssumption ==
    /\ NEIGH_SEC \in Nat \ {0} /\ POLLS \in Nat \ {0}
    /\ 0 \notin Macs /\ ArpLikeIcmp \subseteq Macs
    /\ Confs \subseteq ConfType /\ Frames \subseteq FrameType
    /\ NO_MBUF \notin Mbufs

VARIABLES
    conf,     \* the configuration
    mem,      \* who owns the mbufs
    phase,    \* lcore_main of each worker
    poll,     \* loop counters of neigh_check_gateway
    gwmac,    \* port->gateway_mac
    dmac,     \* destination MAC in the templates (ws->tcp ... ws->udp)
    stale,    \* workers with an mbuf prepared from a template without address
    upd,      \* work_space_update_gw in progress in a worker
    exit      \* ws->exit, set for all workers

gwvars == <<phase, poll, gwmac, dmac, stale, upd, exit>>
vars == <<conf, mem, gwvars>>

NoUpdate == [at |-> -2, mac |-> 0, m |-> NO_MBUF]

Init ==
    /\ conf \in Confs
    /\ mem = AllFree
    /\ phase = [w \in Queues |-> "neigh"]
    /\ poll = [w \in Queues |-> [i |-> 0, j |-> 0]]
    /\ gwmac = conf.gwmac
    /\ dmac = [w \in Queues |-> conf.gwmac]
    /\ stale = {}
    /\ upd = [w \in Queues |-> NoUpdate]
    /\ exit = FALSE

Alive == \A w \in Queues : phase[w] # "dead"
Busy(w) == upd[w] # NoUpdate
-----------------------------------------------------------------------------
(* Which handler the layer-3 entry calls for a frame.                      *)
Unknown == IF conf.kni THEN "kni" ELSE "free"

Ipv4Input(f) ==
    CASE f.eth = "ip4" /\ f.flaw \in {"csum", "frag", "ihl"} -> "free"
      [] f.eth = "ip4" /\ f.flaw \notin {"csum", "frag", "ihl"} /\ f.proto # "other" -> f.proto
      [] f.eth = "arp" -> "arp"
      [] OTHER -> Unknown

\* ipv6_trim_options removes one destination options header; of two it gives up
Ipv6Input(f) ==
    CASE f.eth = "ip6" /\ f.flaw = "csum" -> "free"
      [] f.eth = "ip6" /\ f.flaw # "csum" /\ f.opts < 2 /\ f.proto = "icmp" -> "icmp6"
      [] f.eth = "ip6" /\ f.flaw # "csum" /\ f.opts < 2 /\ f.proto \in {"tcp", "udp"} -> f.proto
      [] OTHER -> Unknown

\* Outside the tunnel the byte of the IP protocol is looked at before the
\* Ethernet type; in an ARP packet it is the second byte of the sender's MAC
VxlanInput(f) ==
    CASE f.vx /\ f.eth # (IF conf.inner6 THEN "ip6" ELSE "ip4") -> "free"
      [] /\ f.vx /\ f.eth = (IF conf.inner6 THEN "ip6" ELSE "ip4")
         /\ f.proto \in {"tcp", "udp"} /\ (conf.inner6 => f.opts = 0) -> f.proto
      [] ~f.vx /\ ((f.eth = "ip4" /\ f.proto = "icmp") \/ (f.eth = "arp" /\ f.mac \in ArpLikeIcmp)) -> "icmp"
      [] ~f.vx /\ f.eth = "arp" /\ f.mac \notin ArpLikeIcmp -> "arp"
      [] OTHER -> Unknown

L3Input(f) ==
    CASE conf.l3 = "ipv4" -> Ipv4Input(f)
      [] conf.l3 = "ipv6" -> Ipv6Input(f)
      [] conf.l3 = "vxlan" -> VxlanInput(f)

\* work_space_is_local_addr, work_space_ip_exist, work_space_ip6_exist
IsLocalAddr(f) == f.to = "local" /\ f.eth # "arp"
IpExist(f) == f.to \in {"local", "range"}
Ip6Exist(f) == f.to \in {"local", "range"}
-----------------------------------------------------------------------------
(* The handlers, as operators on the places s.  Of the environment, taken  *)
(* is what the kernel interface accepts and slaves those with room.        *)
ArpSend(s, w, m, slaves) ==
    TxSend(IF conf.bond4 THEN BondBroadcast(s, w, slaves) ELSE s, w, m)

ArpProcessRequest(s, w, m, f, slaves) ==
    IF ~IpExist(f) \/ (conf.ignore /\ f.to # "local") THEN MbufFree(s, m)
    ELSE ArpSend(s, w, m, slaves)

ArpProcess(s, w, m, f, taken, slaves) ==
    LET t == IF conf.kni THEN KniBroadcast(s, w, TRUE, taken) ELSE s
    IN  IF f.op = "req" THEN ArpProcessRequest(t, w, m, f, slaves) ELSE MbufFree(t, m)

IcmpProcess(s, w, m, f, taken) ==
    IF f.op = "echo" THEN TxSend(s, w, m)
    ELSE IF conf.kni /\ IsLocalAddr(f) THEN KniRecv(s, w, <<m>>, TRUE, taken)
    ELSE MbufFree(s, m)

\* icmp6_send of a neighbour message
Icmp6Send(s, w, m, slaves) ==
    TxSend(IF conf.bond4 THEN BondBroadcast(s, w, slaves) ELSE s, w, m)

Icmp6NsProcess(s, w, m, f, taken, slaves) ==
    IF ~Ip6Exist(f) \/ f.flaw = "hops" THEN MbufFree(s, m)
    ELSE LET t == KniBroadcast(s, w, conf.kni, taken)
         IN  IF conf.ignore /\ f.to = "local" THEN MbufFree(t, m)
             ELSE Icmp6Send(t, w, m, slaves)

Icmp6NaProcess(s, w, m, taken) ==
    IF conf.kni THEN KniRecv(s, w, <<m>>, TRUE, taken) ELSE MbufFree(s, m)

Icmp6EchoProcess(s, w, m, f) ==
    IF Ip6Exist(f) THEN TxSend(s, w, m) ELSE MbufFree(s, m)

Icmp6Process(s, w, m, f, taken, slaves) ==
    CASE f.flaw = "code" -> MbufFree(s, m)
      [] f.flaw # "code" /\ f.op = "echo" -> Icmp6EchoProcess(s, w, m, f)
      [] f.flaw # "code" /\ f.op = "req" -> Icmp6NsProcess(s, w, m, f, taken, slaves)
      [] f.flaw # "code" /\ f.op = "rep" -> Icmp6NaProcess(s, w, m, taken)
      [] f.flaw # "code" /\ f.op = "echorep" /\ conf.kni /\ IsLocalAddr(f) ->
             KniRecv(s, w, <<m>>, TRUE, taken)
      [] OTHER -> MbufFree(s, m)

\* tcp_drop and udp_drop, before the loop runs or for the other protocol
TcpDrop(s, w, m, f, taken) ==
    IF conf.kni /\ IsLocalAddr(f) THEN KniRecv(s, w, <<m>>, TRUE, taken) ELSE MbufFree(s, m)

UdpDrop(s, w, m, f, taken) ==
    IF conf.kni /\ IsLocalAddr(f) THEN KniRecv(s, w, <<m>>, TRUE, taken)
    ELSE MbufFree2(s, w, m)

TcpReplyRst(s, w, m) ==
    IF conf.l3 = "vxlan" THEN MbufFree2(s, w, m) ELSE TxSend(s, w, m)

\* tcp_server_process and tcp_client_process; found: the socket is in the table
TcpProcess(s, w, m, f, taken, found) ==
    CASE found -> MbufFree2(s, w, m)
      [] ~found /\ conf.kni /\ IsLocalAddr(f) -> KniRecv(s, w, <<m>>, TRUE, taken)
      [] ~found /\ ~(conf.kni /\ IsLocalAddr(f)) /\ conf.rst -> TcpReplyRst(s, w, m)
      [] OTHER -> MbufFree2(s, w, m)

UdpProcess(s, w, m, f, taken, found) ==
    IF ~found /\ conf.kni /\ IsLocalAddr(f) THEN KniRecv(s, w, <<m>>, TRUE, taken)
    ELSE MbufFree(s, m)

L4Input(s, w, m, f, taken, found) ==
    LET runs == phase[w] = "run" /\ conf.proto = L3Input(f)
    IN  CASE L3Input(f) = "tcp" /\ runs -> TcpProcess(s, w, m, f, taken, found)
          [] L3Input(f) = "tcp" /\ ~runs -> TcpDrop(s, w, m, f, taken)
          [] L3Input(f) = "udp" /\ runs -> UdpProcess(s, w, m, f, taken, found)
          [] L3Input(f) = "udp" /\ ~runs -> UdpDrop(s, w, m, f, taken)

Handle(s, w, m, f, taken, slaves, found) ==
    CASE L3Input(f) = "free" -> MbufFree(s, m)
      [] L3Input(f) = "kni" -> KniRecv(s, w, <<m>>, TRUE, taken)
      [] L3Input(f) = "arp" -> ArpProcess(s, w, m, f, taken, slaves)
      [] L3Input(f) = "icmp" -> IcmpProcess(s, w, m, f, taken)
      [] L3Input(f) = "icmp6" -> Icmp6Process(s, w, m, f, taken, slaves)
      [] L3Input(f) \in {"tcp", "udp"} -> L4Input(s, w, m, f, taken, found)
-----------------------------------------------------------------------------
(* Receiving                                                               *)

\* The worker takes a frame: the NIC has filled an mbuf of the queue's pool
Receives(w) ==
    Alive /\ ~Busy(w) /\ phase[w] \in {"neigh", "run"} /\ CanAlloc(mem, w)

\* arp_process_reply and icmp6_na_process: the gateway answers and is not known
Learns(f) ==
    /\ gwmac = 0 /\ f.gw /\ f.op = "rep" /\ f.flaw # "code"
    /\ L3Input(f) \in {"arp", "icmp6"}

\* server_recv_mbuf, client_recv_mbuf: one frame of the burst
Recv(w, f) ==
    /\ Receives(w)
    /\ ~Learns(f)
    /\ \E taken \in 0 .. 1, slaves \in SUBSET (1 .. PCI_NUM), found \in BOOLEAN :
         /\ ~conf.kni => taken = 0
         /\ ~conf.bond4 => slaves = {}
         /\ found => L3Input(f) = conf.proto
         /\ LET m == NextMbuf(mem, w)
            IN  mem' = Handle(Take(mem, m), w, m, f, taken, slaves, found)
    /\ UNCHANGED <<conf, gwvars>>

\* The handler of the gateway's answer as far as the call of work_space_update_gw
RecvGateway(w, f) ==
    /\ Receives(w)
    /\ Learns(f)
    /\ LET m == NextMbuf(mem, w)
       IN  /\ \E taken \in 0 .. 1 :
                mem' = IF conf.kni /\ L3Input(f) = "arp"
                       THEN KniBroadcast(Take(mem, m), w, TRUE, taken) ELSE Take(mem, m)
           /\ upd' = [upd EXCEPT ![w] = [at |-> -1, mac |-> f.mac, m |-> m]]
    /\ UNCHANGED <<conf, phase, poll, gwmac, dmac, stale, exit>>

\* work_space_update_gw: the port first (at = -1), then worker after worker
UpdatePort(w) ==
    /\ Alive /\ Busy(w) /\ upd[w].at = -1
    /\ gwmac' = upd[w].mac
    /\ upd' = [upd EXCEPT ![w].at = 0]
    /\ UNCHANGED <<conf, mem, phase, poll, dmac, stale, exit>>

UpdateWorkerOwn(w) ==
    /\ Alive /\ Busy(w) /\ upd[w].at \in Queues
    /\ dmac' = [dmac EXCEPT ![w] = upd[w].mac]
    /\ upd' = [upd EXCEPT ![w].at = @ + 1]
    /\ UNCHANGED <<conf, mem, phase, poll, gwmac, stale, exit>>

UpdateWorker(w) ==
    /\ Alive /\ Busy(w) /\ upd[w].at \in Queues
    /\ dmac' = [dmac EXCEPT ![upd[w].at] = upd[w].mac]
    /\ upd' = [upd EXCEPT ![w].at = @ + 1]
    /\ UNCHANGED <<conf, mem, phase, poll, gwmac, stale, exit>>

\* The rest of the handler: an advertisement goes on to the kernel interface
UpdateEnd(w) ==
    /\ Alive /\ Busy(w) /\ upd[w].at = QUEUE_NUM
    /\ \E taken \in 0 .. 1 :
         mem' = IF conf.l3 = "ipv6" THEN Icmp6NaProcess(mem, w, upd[w].m, taken)
                ELSE MbufFree(mem, upd[w].m)
    /\ upd' = [upd EXCEPT ![w] = NoUpdate]
    /\ UNCHANGED <<conf, phase, poll, gwmac, dmac, stale, exit>>

\* Packets leave a transmit queue or a slave, and the kernel frees what it took
TxOut(w) ==
    /\ Alive /\ phase[w] # "closed"
    /\ \E m \in Mbufs :
         /\ mem.tx[w][m] > 0
         /\ mem' = MbufFree([mem EXCEPT !.tx[w][m] = @ - 1], m)
    /\ UNCHANGED <<conf, gwvars>>

NicDone ==
    /\ Alive
    /\ \E m \in Mbufs :
         /\ mem.nic[m] > 0
         /\ mem' = MbufFree([mem EXCEPT !.nic[m] = @ - 1], m)
    /\ UNCHANGED <<conf, gwvars>>

KernelDone ==
    /\ Alive
    /\ \E m \in Mbufs :
         /\ mem.fifo[m] > 0
         /\ mem' = MbufFree([mem EXCEPT !.fifo[m] = @ - 1], m)
    /\ UNCHANGED <<conf, gwvars>>
-----------------------------------------------------------------------------
(* Looking for the gateway                                                 *)

\* arp_request_gw2, icmp6_ns_request: one request, if there is an mbuf
RequestGw2(s, slaves) ==
    IF ~CanAlloc(s, 0) THEN s
    ELSE LET m == NextMbuf(s, 0) IN ArpSend(Take(s, m), 0, m, slaves)

\* arp_request_gw also announces the local range (here one address)
ArpRequestGw(s, slaves) ==
    IF conf.ignore THEN RequestGw2(s, slaves)
    ELSE RequestGw2(RequestGw2(s, slaves), slaves)

Icmp6NsRequest(s, slaves) == RequestGw2(s, slaves)

\* neigh_resolve_gateway_mac_address: only queue 0 asks
Resolve(s, w, slaves) ==
    IF w # 0 THEN s
    ELSE IF conf.l3 = "ipv6" THEN Icmp6NsRequest(s, slaves) ELSE ArpRequestGw(s, slaves)

\* neigh_check_gateway: the start of a second
NeighSecond(w) ==
    /\ Alive /\ ~Busy(w) /\ phase[w] = "neigh" /\ poll[w].j = 0
    /\ \E slaves \in SUBSET (1 .. PCI_NUM) :
         /\ ~conf.bond4 => slaves = {}
         /\ mem' = Resolve(mem, w, slaves)
    /\ poll' = [poll EXCEPT ![w].j = 1]
    /\ UNCHANGED <<conf, phase, gwmac, dmac, stale, upd, exit>>

\* The gateway is known: lcore_main sets ws->start and calls ws->run_loop
NeighFound(w) ==
    /\ Alive /\ ~Busy(w) /\ phase[w] = "neigh" /\ poll[w].j > 0
    /\ gwmac # 0
    /\ phase' = [phase EXCEPT ![w] = "run"]
    /\ UNCHANGED <<conf, mem, poll, gwmac, dmac, stale, upd, exit>>

\* It is not: the next poll, the next second, or exit(-1)
NeighPoll(w) ==
    /\ Alive /\ ~Busy(w) /\ phase[w] = "neigh" /\ poll[w].j > 0
    /\ gwmac = 0
    /\ IF poll[w].j < POLLS
       THEN poll' = [poll EXCEPT ![w].j = @ + 1] /\ UNCHANGED phase
       ELSE IF poll[w].i < NEIGH_SEC - 1
       THEN poll' = [poll EXCEPT ![w] = [i |-> @.i + 1, j |-> 0]] /\ UNCHANGED phase
       ELSE phase' = [phase EXCEPT ![w] = "dead"] /\ UNCHANGED poll
    /\ UNCHANGED <<conf, mem, gwmac, dmac, stale, upd, exit>>
-----------------------------------------------------------------------------
(* Running                                                                 *)

\* A TCP or UDP packet: mbuf_cache_alloc copies the template only into an
\* mbuf that was not prepared before, so an address once copied stays: also
\* the zero of a worker let through while the update has not reached it
SendData(w) ==
    /\ Alive /\ phase[w] = "run" /\ ~Busy(w) /\ dmac[w] = 0
    /\ stale' = stale \cup {w}
    /\ UNCHANGED <<conf, mem, phase, poll, gwmac, dmac, upd, exit>>

\* kni_send: what the kernel wrote (external: rte_kni_rx_burst), on queue 0
KniSend(s, f, slaves) ==
    IF ~CanAlloc(s, 0) THEN s
    ELSE LET m     == NextMbuf(s, 0)
             neigh == f.eth = "arp" \/ (f.eth = "ip6" /\ f.proto = "icmp" /\ f.op \in {"req", "rep"})
         IN  TxSend(IF conf.bond4 /\ neigh THEN BondBroadcast(Take(s, m), 0, slaves)
                    ELSE Take(s, m), 0, m)

\* lldp_send: two packets per slave, as long as there are mbufs
LldpSend(s, w) ==
    LET packets == Several(s, w, 2 * PCI_NUM)
    IN  [s EXCEPT !.avail = Change(@, packets, -1), !.tx[w] = Change(@, packets, 1)]

\* slow_timer_run without the exit: kernel interface, then LLDP every 100 ms
SlowTimerRun(w) ==
    /\ Alive /\ phase[w] = "run" /\ ~Busy(w) /\ (conf.kni \/ conf.bond4)
    /\ \E taken \in 0 .. 1, slaves \in SUBSET (1 .. PCI_NUM),
          out \in {<<>>} \cup {<<f>> : f \in KernelFrames}, ms100 \in BOOLEAN :
         /\ ~conf.kni => taken = 0 /\ out = <<>>
         /\ ~conf.bond4 => slaves = {} /\ ~ms100
         /\ LET s0 == IF conf.kni THEN KniRecv(mem, w, <<>>, TRUE, taken) ELSE mem
                s1 == IF conf.kni /\ w = 0 /\ out # <<>> THEN KniSend(s0, out[1], slaves) ELSE s0
            IN  mem' = IF conf.bond4 /\ ms100 THEN LldpSend(s1, w) ELSE s1
    /\ UNCHANGED <<conf, gwvars>>

\* The control thread ends the test; it waits for ws->start of all workers first
ExitAllEarly ==
    /\ Alive /\ ~exit /\ \E w \in Queues : phase[w] = "run"
    /\ exit' = TRUE
    /\ UNCHANGED <<conf, mem, phase, poll, gwmac, dmac, stale, upd>>

ExitAll ==
    /\ Alive /\ ~exit /\ \A w \in Queues : phase[w] # "neigh"
    /\ exit' = TRUE
    /\ UNCHANGED <<conf, mem, phase, poll, gwmac, dmac, stale, upd>>

\* The loop breaks on ws->exit; work_space_close flushes the batch and frees ws
Close(w) ==
    /\ Alive /\ exit /\ phase[w] = "run" /\ ~Busy(w)
    /\ mem' = MbufFree2Flush(mem, w)
    /\ phase' = [phase EXCEPT ![w] = "closed"]
    /\ UNCHANGED <<conf, poll, gwmac, dmac, stale, upd, exit>>

Next ==
    \/ \E w \in Queues :
         \/ \E f \in Frames : Recv(w, f) \/ RecvGateway(w, f)
         \/ UpdatePort(w) \/ UpdateWorker(w) \/ UpdateEnd(w)
         \/ NeighSecond(w) \/ NeighFound(w) \/ NeighPoll(w)
         \/ SendData(w) \/ SlowTimerRun(w) \/ Close(w) \/ TxOut(w)
    \/ NicDone \/ KernelDone \/ ExitAll

Spec == Init /\ [][Next]_vars

TypeOK ==
    /\ conf \in ConfType /\ mem \in Places
    /\ \A w \in Queues :
         /\ Len(mem.batch[w]) < MBUF_FREE_POOL_SIZE
         /\ phase[w] \in {"neigh", "run", "closed", "dead"}
         /\ poll[w].i \in 0 .. NEIGH_SEC - 1 /\ poll[w].j \in 0 .. POLLS
         /\ dmac[w] \in {0} \cup Macs
         /\ upd[w].at \in -2 .. QUEUE_NUM /\ upd[w].mac \in {0} \cup Macs
    /\ gwmac \in {0} \cup Macs
    /\ exit \in BOOLEAN /\ stale \subseteq Queues
    /\ Len(mem.ring) <= KNI_RING_SIZE

(* Every mbuf is in exactly one place at every moment, whichever handlers, *)
(* copies, rings and batches it went through: none is lost, freed twice or *)
(* sent after it was given away.                                           *)
OneOwner ==
    \A m \in Mbufs :
        LET own(w) == Private(mem, w, m) + (IF upd[w].m = m THEN 1 ELSE 0)
        IN  \/ Shared(mem, m) = 1 /\ \A w \in Queues : own(w) = 0
            \/ /\ Shared(mem, m) = 0
               /\ \E w \in Queues : own(w) = 1 /\ \A v \in Queues \ {w} : own(v) = 0

(* Once the gateway is known and no update is under way, the templates of  *)
(* every worker of the port carry its address, although only the worker    *)
(* that received the answer wrote them.                                    *)
GatewayEverywhere ==
    gwmac # 0 /\ (\A w \in Queues : ~Busy(w)) => \A w \in Queues : dmac[w] # 0

(* work_space_update_gw writes into every work space it finds in           *)
(* g_work_space_all, which is never cleared: no worker has freed its work  *)
(* space while another one is still updating.                              *)
UpdatesLive == (\E w \in Queues : Busy(w)) => \A w \in Queues : phase[w] # "closed"
=============================================================================
