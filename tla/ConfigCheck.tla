---------------------------- MODULE ConfigCheck ----------------------------
(* The checks of config_parse, made once the file has been read.           *)
EXTENDS Config, Functions, SocketTable

CONSTANTS
    LOG_DIR_EXISTS,  \* opendir finds LOG_DIR
    UINT32_NUM       \* how many values a uint32_t has: 2^32

ASSUME CheckAssumption == UINT32_NUM \in Nat \ {0}

Has(c, f) == f \in c.flags
Groups(grp) == 1 .. Len(grp)

\* config_port_queue_num, config_port_get
PortQueueNum(c) == c.cpu_num \div Len(c.ports)
PortOf(c, id) == id \div PortQueueNum(c) + 1
QueueOf(c, id) == id % PortQueueNum(c)

(* The maximum segment size, and the defaults set before the checks        *)
MssMax(c) ==
    (IF c.jumbo > 0 THEN c.jumbo ELSE 1500) - (IF c.af = AF_INET6 THEN 60 ELSE 40)

CheckMss(c) == OkIf(c.mss <= MssMax(c), [c EXCEPT !.mss = IF @ = 0 THEN MssMax(c) ELSE @])

Or(v, default) == IF v = 0 THEN default ELSE v

ParseDefaults(c) ==
    [c EXCEPT !.rto = Or(@, 2), !.log_level = Or(@, 4), !.duration = Or(@, 60),
              !.protocol = IF @ = "" THEN "tcp" ELSE @]

ListenDefault(c) ==
    IF c.listen = 0 \/ c.listen_num = 0 THEN [c EXCEPT !.listen = LISTEN_DEFAULT, !.listen_num = 1] ELSE c

TicksPerSecFlat(us) == 10000

\* ticks_per_sec for the keepalive interval in microseconds
TicksPerSec(us) ==
    CASE us = 1 -> 2000000
      [] us = 2 -> 1000000
      [] us < 10 /\ us \notin {1, 2} -> 500000
      [] us \in 10 .. 49 -> 200000
      [] us \in 50 .. 99 -> 100000
      [] us \in 100 .. 499 -> 20000
      [] OTHER -> 10000

CheckKeepalive(c) ==
    CASE c.server -> [c EXCEPT !.reqnum = 0]
      [] ~c.server /\ ~c.keepalive -> OkIf(c.cc = 0, c)
      [] ~c.server /\ c.keepalive ->
             OkIf(~(Has(c, "flood") /\ c.interval = 0), [c EXCEPT !.ticks = TicksPerSec(c.interval)])

CheckPipeline(c) ==
    OkIf(\/ c.pipeline = 0
         \/ /\ ~c.server /\ c.protocol # "tcp" /\ c.keepalive
            /\ Has(c, "flood") \/ c.interval = 0,
         c)

\* Lengths of the defaults: "dperf" and "/"
CheckHttp(c) ==
    OkIf(/\ ~( /\ (c.payload # <<>> /\ c.payload[1] # 0) \/ Has(c, "payload_file")
               /\ ~c.server /\ c.http /\ ~c.post /\ c.path # 0)
         /\ c.server \/ ~c.http => c.host = 0 /\ c.path = 0,
         [c EXCEPT !.host = Or(@, 5), !.path = Or(@, 1), !.stats_http = (@ \/ c.http)])

CheckWait(c) ==
    IF c.server THEN OkIf(c.wait = 0, c) ELSE [c EXCEPT !.wait = Or(@, 3)]

CheckSlowStart(c) ==
    IF c.server THEN OkIf(c.slow_start = 0, c) ELSE [c EXCEPT !.slow_start = Or(@, 30)]
-----------------------------------------------------------------------------
(* Addresses                                                               *)
Members(grp) == UNION {{g} \X (1 .. Len(grp[g].list)) : g \in Groups(grp)}

\* The last two bytes index the socket table
CheckClientAddr(c) ==
    OkIf(\A x, y \in Members(c.cgrp) :
            x # y => Low2Byte(c.cgrp[x[1]].list[x[2]]) # Low2Byte(c.cgrp[y[1]].list[y[2]]),
         c)

\* config_ip_range_overlap
Overlap(r0, r1) == r0.pre = r1.pre /\ Range(r0.list) \cap Range(r1.list) # {}

CheckServerAddr(c) ==
    OkIf(\A g, h \in Groups(c.sgrp) : g # h => ~Overlap(c.sgrp[g], c.sgrp[h]), c)

\* config_check_address_conflict_port
ConflictPort(c, grp, local) ==
    \E p \in 1 .. Len(c.ports), g \in Groups(grp) :
        LET addr == IF local THEN c.ports[p].local ELSE c.ports[p].gw
        IN  IF addr.af = AF_INET6 THEN IpRangeExistIpv6(grp[g], addr) ELSE IpRangeExist(grp[g], addr.ip)

CheckAddressConflict(c) ==
    OkIf(/\ \A g \in Groups(c.cgrp), h \in Groups(c.sgrp) : ~Overlap(c.cgrp[g], c.sgrp[h])
         /\ IF c.server
            THEN ~ConflictPort(c, c.cgrp, TRUE) /\ ~ConflictPort(c, c.sgrp, FALSE)
            ELSE ~ConflictPort(c, c.sgrp, TRUE) /\ ~ConflictPort(c, c.cgrp, FALSE),
         c)

CheckLocalAddr(c) ==
    OkIf(\A p, q \in 1 .. Len(c.ports) : p # q => c.ports[p].local # c.ports[q].local, c)
-----------------------------------------------------------------------------
(* Payload                                                                 *)
PayloadOf(c, i) == IF i <= Len(c.payload) THEN c.payload[i] ELSE 0

SetPayloadSize(c, size) == [c EXCEPT !.payload = [i \in 1 .. c.cpu_num |-> size]]

\* The sizes up to the first 0 count
PayloadNum(c) == CHOOSE n \in 0 .. Len(c.payload) :
    (\A i \in 1 .. n : c.payload[i] # 0) /\ PayloadOf(c, n + 1) = 0

CheckPayloadSizeNum(c) ==
    IF PayloadNum(c) > 1 THEN OkIf(c.server /\ PayloadNum(c) = c.cpu_num, c)
    ELSE SetPayloadSize(c, PayloadOf(c, 1))

\* config_read_payload_file refuses every path that is set
CheckPayloadFile(c) == OkIf(~Has(c, "payload_file"), c)

PacketHeaderSize(c) ==
    (IF c.vxlan THEN VXLAN_HEADERS_SIZE ELSE 0) + 14 + (IF c.af = AF_INET6 THEN 40 ELSE 20)
        + (IF c.protocol = "tcp" THEN 20 ELSE 8)

PacketPayloadSize(c) == (IF c.jumbo > 0 THEN c.jumbo + 14 ELSE 1514) - PacketHeaderSize(c)

RoundUp(size, mss) == ((size + mss - 1) \div mss) * mss

\* A server of TCP sends more than one segment; all others must fit into one
CheckPayloadSize(c) ==
    LET W     == 1 .. c.cpu_num
        segs  == c.protocol = "tcp" /\ c.server
        large == segs /\ \E i \in W : PayloadOf(c, i) > c.mss
    IN  OkIf(segs \/ \A i \in W : PayloadOf(c, i) <= PacketPayloadSize(c),
             [c EXCEPT !.payload = [i \in W |-> IF segs /\ PayloadOf(c, i) > c.mss
                                                THEN RoundUp(PayloadOf(c, i), c.mss) ELSE PayloadOf(c, i)],
                       !.send_window = IF large THEN Or(@, 4) ELSE 0])

\* No payload is read from a file, so a size decides; the second worker's
\* choice replaces the first one's, and from the third on it must agree
StatsHttp(c, i) == PayloadOf(c, i) = 0 \/ PayloadOf(c, i) >= HTTP_DATA_MIN_SIZE
CheckStatsHttp(c) ==
    OkIf(\A i \in 3 .. c.cpu_num : StatsHttp(c, i) = StatsHttp(c, i - 1),
         [c EXCEPT !.stats_http = IF c.cpu_num > 0 THEN StatsHttp(c, c.cpu_num) ELSE @])

CheckPayload(c) ==
    LET c1 == CheckPayloadSizeNum(c)
        c2 == IF c1 = Error THEN Error ELSE CheckPayloadFile(c1)
        c3 == IF c2 = Error THEN Error ELSE CheckPayloadSize(c2)
    IN  IF c3 = Error THEN Error ELSE IF c3.protocol = "tcp" THEN CheckStatsHttp(c3) ELSE c3
-----------------------------------------------------------------------------
(* Ports, tunnels and queues                                               *)
CheckPortPci(p, q) == Range(p.pci) \cap Range(q.pci) = {}

CheckPort(c) ==
    IF c.cpu_num = 0 \/ Len(c.ports) = 0 THEN Error
    ELSE OkIf(/\ c.cpu_num % Len(c.ports) = 0
              /\ \A p, q \in 1 .. Len(c.ports) : p # q => CheckPortPci(c.ports[p], c.ports[q]),
              [c EXCEPT !.queue_num = PortQueueNum(c)])

CheckVxlan(c) ==
    IF c.vxlans = <<>> THEN c
    ELSE OkIf(/\ Len(c.vxlans) = Len(c.ports)
              /\ \A p \in 1 .. Len(c.vxlans) :
                    /\ Len(c.vxlans[p].local.list) = c.queue_num
                    /\ Len(c.vxlans[p].remote.list) \in {1, c.queue_num},
              [c EXCEPT !.vxlan = TRUE])

CheckVlan(c) ==
    OkIf(c.vlan_id = 0 \/ (c.vxlans = <<>> /\ \A p \in 1 .. Len(c.ports) : ~c.ports[p].bond), c)

CheckAf(c) ==
    OkIf(\A p \in 1 .. Len(c.ports) :
            IF c.vxlan THEN c.ports[p].local.af = AF_INET
            ELSE (c.af = AF_INET6) = (c.ports[p].local.af = AF_INET6),
         c)

\* Port i gets the i-th client and server range
SetPortIpRange(c) ==
    OkIf(/\ c.cgrp # <<>> /\ Len(c.sgrp) = Len(c.ports)
         /\ c.server \/ Len(c.cgrp) = Len(c.ports),
         c)

CheckFlow(c) ==
    IF c.cpu_num = Len(c.ports) /\ ~Has(c, "flow_isolate") THEN [c EXCEPT !.flow = "none"]
    ELSE OkIf(IF c.flow = "rss" THEN ~c.vxlan
              ELSE \A p \in 1 .. Len(c.ports) : Len(c.sgrp[p].list) = c.queue_num,
              [c EXCEPT !.flow = IF @ = "rss" THEN @ ELSE "fdir"])

CheckChangeDip(c) ==
    OkIf(\/ c.dips.num = 0
         \/ /\ ~c.server /\ Has(c, "flood") /\ ~c.vxlan
            /\ (c.dips.af = AF_INET6) = (c.af = AF_INET6)
            /\ c.dips.num >= c.cpu_num,
         c)

TxBurstDefault(c) == [c EXCEPT !.tx_burst = Or(@, 8)]

CheckLogdir(c) == OkIf(Has(c, "daemon") => LOG_DIR_EXISTS, c)

CheckLportRange(c) == [c EXCEPT !.lport_min = Or(@, 1), !.lport_max = Or(@, NETWORK_PORT_NUM - 1)]
-----------------------------------------------------------------------------
(* The number of sockets, and whether they are enough                      *)

\* config_client_ip_range_socket_num
ClientIpRangeSocketNum(c, r) == Len(r.list) * c.listen_num * (c.lport_max - c.lport_min + 1)

GetTotalSocketNumShare(c, id) ==
    (ClientIpRangeSocketNum(c, c.cgrp[IF c.server THEN 1 ELSE PortOf(c, id)])
        * (IF c.flow = "fdir" THEN 1 ELSE Len(c.sgrp[PortOf(c, id)].list))) % UINT32_NUM

\* A server has the clients of all ranges
AllRangesSocketNum(c) == FoldLeft(LAMBDA s, r : s + ClientIpRangeSocketNum(c, r), 0, c.cgrp)

SocketNum(c, id) ==
    LET p   == PortOf(c, id)
        num == IF c.server THEN AllRangesSocketNum(c) ELSE ClientIpRangeSocketNum(c, c.cgrp[p])
    IN  IF c.flow = "fdir" THEN num ELSE num * Len(c.sgrp[p].list)

\* The number is a uint32_t, and nothing checks that it is enough
GetTotalSocketNum(c, id) == SocketNum(c, id) % UINT32_NUM

\* Nor that the server's ports fit into the uint16_t fields of socket_table
SocketsFit(c) ==
    /\ c.listen + c.listen_num < NETWORK_PORT_NUM
    /\ \A id \in 0 .. c.cpu_num - 1 : SocketNum(c, id) < UINT32_NUM

CheckTarget(c) ==
    LET c1 == IF c.server THEN [c EXCEPT !.cc = 0, !.cps = 0, !.flags = @ \ {"flood"}]
              ELSE [c EXCEPT !.cps = Or(@, DEFAULT_CPS)]
    IN  OkIf(/\ c.server \/ c.cps # 0 \/ c.cc # 0
             /\ \A id \in 0 .. c.cpu_num - 1 :
                  /\ GetTotalSocketNum(c, id) >= c1.cc \div c.cpu_num
                  /\ GetTotalSocketNum(c, id) >= (c1.cps \div c.cpu_num) * c.rto,
             c1)

CheckFastClose(c) == OkIf(Has(c, "fast_close") => ~c.server /\ c.protocol # "udp", c)

CheckFlowIsolate(c) ==
    OkIf(Has(c, "flow_isolate") => c.flow # "rss" /\ \A p \in 1 .. Len(c.ports) : c.ports[p].mac, c)

\* The order of config_parse
Checks == 24
ConfigParse(c, i) ==
    CASE i = 1 -> CheckMss(ParseDefaults(c))
      [] i = 2 -> CheckKeepalive(ListenDefault(c))
      [] i = 3 -> CheckPipeline(c)
      [] i = 4 -> CheckHttp(c)
      [] i = 5 -> CheckWait(c)
      [] i = 6 -> CheckSlowStart(c)
      [] i = 7 -> CheckClientAddr(c)
      [] i = 8 -> CheckServerAddr(c)
      [] i = 9 -> CheckAddressConflict(c)
      [] i = 10 -> CheckLocalAddr(c)
      [] i = 11 -> CheckPayload(c)
      [] i = 12 -> CheckPort(c)
      [] i = 13 -> CheckVxlan(c)
      [] i = 14 -> CheckVlan(c)
      [] i = 15 -> CheckAf(c)
      [] i = 16 -> SetPortIpRange(c)
      [] i = 17 -> CheckFlow(c)
      [] i = 18 -> CheckChangeDip(c)
      [] i = 19 -> TxBurstDefault(c)
      [] i = 20 -> CheckLogdir(c)
      [] i = 21 -> CheckLportRange(c)
      [] i = 22 -> CheckTarget(c)
      [] i = 23 -> CheckFastClose(c)
      [] i = 24 -> CheckFlowIsolate(c)
=============================================================================
