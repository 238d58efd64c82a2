------------------------------- MODULE Config -------------------------------
(***************************************************************************)
(* The configuration file (config.c, config_keyword.c, ip_range.h,         *)
(* ip_list.c): every keyword's handler, and the checks of config_parse in  *)
(* their order.  A handler or a check maps the configuration c to the next *)
(* one or to Error, where dperf ends.                                      *)
(*                                                                         *)
(* A line is [k |-> keyword, a |-> arguments].  An argument is             *)
(*   a number  [n, u]: the value strtol or atof reads and what follows it, *)
(*             its unit ("" is none); n < 0 is no number, and a fraction   *)
(*             stands for the whole number it gives with its unit          *)
(*   an address [af, pre, ip]: pre the first 12 bytes, ip the last 4; af 0 *)
(*             is no address                                               *)
(*   a string  only as far as a handler tells strings apart.               *)
(* Numbers have the width they have in C; a sum or a product of ints that  *)
(* overflows is taken to wrap, as it does in the code compilers make of it.*)
(***************************************************************************)
EXTENDS Integers, Sequences, FiniteSets, SequencesExt

CONSTANTS
    Error,
    NETWORK_PORT_NUM,   \* 65536
    LISTEN_DEFAULT,     \* 80
    DEFAULT_CPS,        \* 1000
    THREAD_NUM_MAX, NETIF_PORT_MAX, IP_RANGE_NUM_MAX, IP_LIST_NUM_MAX,
    INT_MAX,            \* 2^31 - 1
    UINT64_NUM,         \* how many values a uint64_t has: 2^64
    FLOAT_OVERFLOW      \* the int made of a double that is too large for one:
                        \* INT_MIN on x86, INT_MAX on ARM

AF_INET == 4
AF_INET6 == 6
MBUF_DATA_SIZE == 10240
VXLAN_HEADERS_SIZE == 50
HTTP_DATA_MIN_SIZE == 85
PAYLOAD_SIZE_MAX == 1073741824
VNI_MAX == 16777215
JUMBO_MTU_MIN == 9000
JUMBO_MTU_MAX == 9710
SLOW_START_MAX == 600
TX_BURST_MAX == 1024
VLAN_ID_MAX == 4094
KILO == 1000
MEGA == 1000000

ASSUME ConfigAssumption ==
    /\ {LISTEN_DEFAULT, DEFAULT_CPS, THREAD_NUM_MAX, NETIF_PORT_MAX, IP_RANGE_NUM_MAX, IP_LIST_NUM_MAX}
          \subseteq Nat \ {0}
    /\ NETWORK_PORT_NUM \in Nat /\ NETWORK_PORT_NUM > LISTEN_DEFAULT + 1
    /\ INT_MAX \in Nat /\ INT_MAX >= 32767 /\ INT_MAX >= NETWORK_PORT_NUM
    /\ UINT64_NUM \in Nat /\ UINT64_NUM >= 2 * (INT_MAX + 1)
    /\ FLOAT_OVERFLOW \in {-INT_MAX - 1, INT_MAX}

\* g_config before the file is read
Config0 ==
    [server |-> FALSE, flags |-> {}, keepalive |-> FALSE, interval |-> 0, reqnum |-> 0,
     pipeline |-> 0, cpu_num |-> 0, ports |-> <<>>, queue_num |-> 0, listen |-> 0, listen_num |-> 0,
     cgrp |-> <<>>, sgrp |-> <<>>, af |-> 0, dips |-> [af |-> 0, num |-> 0], duration |-> 0,
     cps |-> 0, cc |-> 0, launch_num |-> 0, tx_burst |-> 0, slow_start |-> 0, wait |-> 0,
     payload |-> <<>>, send_window |-> 0, mss |-> 0, protocol |-> "", http |-> FALSE,
     vxlans |-> <<>>, vxlan |-> FALSE, vlan_id |-> 0, tos |-> 0, jumbo |-> 0, flow |-> "none",
     tcp_rst |-> TRUE, host |-> 0, path |-> 0, post |-> FALSE, lport_min |-> 0, lport_max |-> 0,
     log_level |-> 0, rto |-> 0, ticks |-> 0, stats_http |-> FALSE]

OkIf(cond, c) == IF cond THEN c ELSE Error
-----------------------------------------------------------------------------
(* Numbers                                                                 *)


\* What is left of a whole number in an int
ToInt(v) == ((v + INT_MAX + 1) % (2 * (INT_MAX + 1))) - (INT_MAX + 1)

\* external: atoi ignores what follows the digits and keeps the low bits of
\* the long that strtol returns
Atoi(x) == ToInt(x.n)

\* A double of no sign that is stored in an int
FloatToInt(v) == IF v <= INT_MAX THEN v ELSE FLOAT_OVERFLOW

NumberRate(u) == CASE u = "k" -> KILO [] u = "m" -> MEGA [] OTHER -> 1

\* config_parse_number: -1 for an error.  Where k and m are allowed
\* (rate_enable) the number is read by atof (float_enable), else by atoi
ParseNumber(x, rate) ==
    LET val == IF rate THEN FloatToInt(x.n * NumberRate(x.u)) ELSE Atoi(x)
    IN  IF x.n < 0 \/ x.u \notin (IF rate THEN {"", "k", "m"} ELSE {""}) \/ val < 0 THEN -1 ELSE val

\* config_parse_hex: 0x is read by strtol into a long
ParseHex(x, min, max) ==
    LET val == IF x.u = "0x" THEN x.n ELSE Atoi(x)
    IN  IF val \in min .. max THEN val ELSE -1
-----------------------------------------------------------------------------
(* Address ranges                                                          *)
LastByte(ip) == ip % 256

IpRangeInit(addr, num) ==
    OkIf(addr.ip # 0 /\ num > 0 /\ LastByte(addr.ip) + num - 1 < 255,
         [af |-> addr.af, pre |-> addr.pre, list |-> [i \in 1 .. num |-> addr.ip + i - 1]])

\* ip_range_add: may addr join the range, when list is what it has so far?
\* Only one address of a range may have a given last byte
IpRangeAdd(r, list, addr) ==
    /\ Len(list) < 255
    /\ addr.pre = r.pre /\ addr.ip \div 65536 = list[1] \div 65536
    /\ LastByte(addr.ip) \notin {0, 255}
    /\ \A i \in 1 .. Len(list) : LastByte(list[i]) # LastByte(addr.ip)

\* ip_range_get takes the index modulo the length of the range
IpRangeGet(r, idx) == r.list[(idx % Len(r.list)) + 1]

IpRangeExist(r, ip) == \E i \in 1 .. Len(r.list) : r.list[i] = ip
IpRangeExistIpv6(r, addr) == addr.pre = r.pre /\ IpRangeExist(r, addr.ip)

\* config_parse_ip_range: a range and, on a client line, further addresses
ParseIpRange(a, split) ==
    IF Len(a) < 2 \/ (~split /\ Len(a) # 2) \/ a[1].af = 0 THEN Error
    ELSE LET r    == IpRangeInit(a[1], ParseNumber(a[2], FALSE))
             list == r.list \o [i \in 1 .. Len(a) - 2 |-> a[i + 2].ip]
         IN  IF r = Error THEN Error
             ELSE OkIf(\A i \in 1 .. Len(a) - 2 :
                          /\ a[i + 2].af = r.af /\ IpRangeInit(a[i + 2], 1) # Error
                          /\ IpRangeAdd(r, SubSeq(list, 1, Len(r.list) + i - 1), a[i + 2]),
                       [r EXCEPT !.list = list])

\* config_set_af
SetAf(c, r) == OkIf(r # Error /\ c.af \in {0, r.af}, [c EXCEPT !.af = r.af])

\* config_parse_ip_group
ParseIpGroup(c, a, grp, split) ==
    LET r == ParseIpRange(a, split)
    IN  IF Len(grp) >= IP_RANGE_NUM_MAX THEN Error ELSE SetAf(c, r)

ParseClient(c, a) ==
    LET c1 == ParseIpGroup(c, a, c.cgrp, TRUE)
    IN  OkIf(c1 # Error, [c1 EXCEPT !.cgrp = Append(c.cgrp, ParseIpRange(a, TRUE))])

ParseServer(c, a) ==
    LET c1 == ParseIpGroup(c, a, c.sgrp, FALSE)
    IN  OkIf(c1 # Error, [c1 EXCEPT !.sgrp = Append(c.sgrp, ParseIpRange(a, FALSE))])

\* ip_list_add, for num addresses: all of one family, and not too many
IpListAdd(l, af, num) ==
    OkIf(num = 0 \/ ((l.num = 0 \/ l.af = af) /\ l.num + num <= IP_LIST_NUM_MAX),
         [af |-> IF l.num = 0 /\ num > 0 THEN af ELSE l.af, num |-> l.num + num])

\* A bad step or number is ignored
ParseChangeDip(c, a) ==
    IF Len(a) # 3 \/ a[1].af = 0 THEN Error
    ELSE IF Atoi(a[2]) <= 0 \/ Atoi(a[3]) < 0 THEN c
    ELSE LET l == IpListAdd(c.dips, a[1].af, Atoi(a[3]))
         IN  OkIf(l # Error, [c EXCEPT !.dips = l])

\* ip_list_split: how many of num addresses a worker gets
IpListSplit(num, start, step) == Cardinality({i \in 0 .. num - 1 : i >= start /\ (i - start) % step = 0})
-----------------------------------------------------------------------------
(* Keywords without a value: twice is an error                             *)
SetFlag(c, a, f) == OkIf(Len(a) = 0 /\ f \notin c.flags, [c EXCEPT !.flags = @ \cup {f}])

ParseDaemon(c) == OkIf("daemon" \notin c.flags, [c EXCEPT !.flags = @ \cup {"daemon"}])
ParseFlood(c, a) == SetFlag(c, a, "flood")
ParsePayloadRandom(c, a) == SetFlag(c, a, "payload_random")
ParseQuiet(c, a) == SetFlag(c, a, "quiet")
ParseClientHop(c, a) == SetFlag(c, a, "client_hop")
ParseSimd512(c, a) == SetFlag(c, a, "simd512")
ParseFastClose(c, a) == SetFlag(c, a, "fast_close")
ParseClearScreen(c, a) == SetFlag(c, a, "clear_screen")
ParseDisableAck(c, a) == SetFlag(c, a, "disable_ack")
ParseNeighIgnore(c, a) == SetFlag(c, a, "neigh_ignore")
ParseFlowIsolate(c, a) == SetFlag(c, a, "flow_isolate")

\* These have a string, which is good or not
SetString(c, good, f) == OkIf(good /\ f \notin c.flags, [c EXCEPT !.flags = @ \cup {f}])

ParseSocketMem(c, a) == SetString(c, Len(a) = 1 /\ a[1] = "good", "socket_mem")
ParsePayloadFile(c, a) == SetString(c, Len(a) = 1 /\ a[1] = "good", "payload_file")
ParseKni(c, a) == SetString(c, Len(a) = 0 \/ (Len(a) = 1 /\ a[1] = "good"), "kni")

\* host and path are lengths; the path must begin with a slash
ParseHttpHost(c, a) == OkIf(Len(a) = 1 /\ c.host = 0 /\ a[1].len < 128, [c EXCEPT !.host = a[1].len])
ParseHttpPath(c, a) ==
    OkIf(Len(a) = 1 /\ c.path = 0 /\ a[1].len < 256 /\ a[1].slash, [c EXCEPT !.path = a[1].len])
-----------------------------------------------------------------------------
(* Keywords with values: a value of 0 counts as not set                    *)

KeepaliveRate(u) == CASE u = "us" -> 1 [] u = "ms" -> KILO [] u = "s" -> MEGA

\* config_parse_keepalive_request_interval: microseconds, or -1.  The product
\* is an int, which may overflow, and the field a uint64_t, in which a
\* negative one is huge
KeepaliveInterval(x) ==
    LET val == Atoi(x)
    IN  IF \/ x.n < 0 \/ x.u \notin {"us", "ms", "s"} \/ val < 0
           \/ x.u = "us" /\ ((val >= 10 /\ val % 10 # 0) \/ (val \in 2 .. 9 /\ val % 2 # 0))
        THEN -1 ELSE ToInt(val * KeepaliveRate(x.u)) % UINT64_NUM

KeepaliveNum(x) == IF ParseNumber(x, TRUE) <= 32767 THEN ParseNumber(x, TRUE) ELSE -1

ParseKeepalive(c, a) ==
    IF Len(a) \notin {1, 2} \/ c.keepalive THEN Error
    ELSE LET us  == KeepaliveInterval(a[1])
             num == IF Len(a) = 2 THEN KeepaliveNum(a[2]) ELSE c.reqnum
         IN  OkIf(us >= 0 /\ num >= 0 /\ ~(us = 0 /\ num # 0),
                  [c EXCEPT !.keepalive = TRUE, !.interval = us, !.reqnum = num])

ParsePipeline(c, a) ==
    OkIf(Len(a) = 1 /\ c.pipeline = 0 /\ Atoi(a[1]) \in 0 .. 100, [c EXCEPT !.pipeline = Atoi(a[1])])

\* client twice is no error
ParseMode(c, a) ==
    OkIf(Len(a) = 1 /\ ~c.server /\ a[1] \in {"client", "server"}, [c EXCEPT !.server = (a[1] = "server")])

\* An argument is a range of cpus, and none may be named twice.  The loop over
\* a range that ends at INT_MAX only ends when there are too many
ParseCpu(c, a) ==
    LET lo(i) == ToInt(a[i].lo)
        hi(i) == ToInt(a[i].hi)
        cpus  == UNION {lo(i) .. hi(i) : i \in 1 .. Len(a)}
    IN  OkIf(/\ Len(a) > 0 /\ c.cpu_num = 0
             /\ \A i \in 1 .. Len(a) : 0 <= lo(i) /\ lo(i) <= hi(i) /\ hi(i) < INT_MAX
             /\ Cardinality(cpus) <= THREAD_NUM_MAX
             /\ \A i, j \in 1 .. Len(a) : i < j => (lo(i) .. hi(i)) \cap (lo(j) .. hi(j)) = {},
             [c EXCEPT !.cpu_num = Cardinality(cpus)])

\* config_parse_bond: slaves, none of them twice
ParseBond(x) == x.good /\ \A i, j \in 1 .. Len(x.pci) : i # j => x.pci[i] # x.pci[j]

ParsePort(c, a) ==
    IF Len(a) \notin {3, 4} \/ Len(c.ports) >= NETIF_PORT_MAX THEN Error
    ELSE OkIf(/\ IF a[1].bond THEN ParseBond(a[1]) ELSE a[1].good
              /\ a[2].af # 0 /\ a[3].af = a[2].af /\ a[2] # a[3]
              /\ Len(a) = 4 => a[4] = "good",
              [c EXCEPT !.ports = Append(c.ports, [pci |-> a[1].pci, bond |-> a[1].bond, local |-> a[2],
                                                  gw |-> a[3], mac |-> Len(a) = 4])])

\* The sum is an int, which overflows for a port or a number near INT_MAX
ParseListen(c, a) ==
    IF Len(a) # 2 \/ c.listen_num # 0 THEN Error
    ELSE LET l == ParseNumber(a[1], FALSE)
             n == ParseNumber(a[2], FALSE)
         IN  OkIf(l > 0 /\ n > 0 /\ ToInt(l + n) < NETWORK_PORT_NUM - 1, [c EXCEPT !.listen = l, !.listen_num = n])

\* config_parse_duration: an unknown unit counts as seconds
DurationRate(u) == CASE u = "m" -> 60 [] u = "h" -> 3600 [] u = "d" -> 86400 [] OTHER -> 1
ParseDuration(c, a) ==
    LET val == FloatToInt(a[1].n * DurationRate(a[1].u))
    IN  OkIf(Len(a) = 1 /\ c.duration = 0 /\ a[1].n >= 0 /\ val > 0, [c EXCEPT !.duration = val])

ParseCps(c, a) ==
    OkIf(Len(a) = 1 /\ c.cps = 0 /\ ParseNumber(a[1], TRUE) >= 0, [c EXCEPT !.cps = ParseNumber(a[1], TRUE)])

ParseCc(c, a) ==
    OkIf(Len(a) = 1 /\ c.cc = 0 /\ ParseNumber(a[1], TRUE) > 0, [c EXCEPT !.cc = ParseNumber(a[1], TRUE)])

ParseLaunchNum(c, a) ==
    OkIf(Len(a) = 1 /\ c.launch_num = 0 /\ ParseNumber(a[1], FALSE) >= 0,
         [c EXCEPT !.launch_num = ParseNumber(a[1], FALSE)])

\* The field has 8 bits
ParseTxBurst(c, a) ==
    OkIf(Len(a) = 1 /\ c.tx_burst = 0 /\ ParseNumber(a[1], FALSE) \in 1 .. TX_BURST_MAX,
         [c EXCEPT !.tx_burst = ParseNumber(a[1], FALSE) % 256])

ParseSlowStart(c, a) ==
    OkIf(Len(a) = 1 /\ c.slow_start = 0 /\ ParseNumber(a[1], FALSE) \in 10 .. SLOW_START_MAX,
         [c EXCEPT !.slow_start = ParseNumber(a[1], FALSE)])

ParseWait(c, a) ==
    OkIf(Len(a) = 1 /\ c.wait = 0 /\ ParseNumber(a[1], FALSE) > 0, [c EXCEPT !.wait = ParseNumber(a[1], FALSE)])

\* payload_size[] of the workers; at most 1 GB
ParsePayloadSize(c, a) ==
    OkIf(/\ Len(a) > 0 /\ (c.payload = <<>> \/ c.payload[1] = 0)
         /\ \A i \in 1 .. Len(a) : ParseNumber(a[i], TRUE) \in 0 .. PAYLOAD_SIZE_MAX,
         [c EXCEPT !.payload = [i \in 1 .. Len(a) |-> ParseNumber(a[i], TRUE)]
                               \o SubSeq(c.payload, Len(a) + 1, Len(c.payload))])

ParseSendWindow(c, a) ==
    OkIf(Len(a) = 1 /\ c.send_window = 0 /\ ParseNumber(a[1], TRUE) \in 2 .. 16,
         [c EXCEPT !.send_window = ParseNumber(a[1], TRUE)])

ParsePacketSize(c, a) == OkIf(Len(a) = 1, c)

ParseMss(c, a) ==
    OkIf(Len(a) = 1 /\ c.mss = 0 /\ ParseNumber(a[1], FALSE) > 0, [c EXCEPT !.mss = ParseNumber(a[1], FALSE)])

ParseProtocol(c, a) ==
    OkIf(Len(a) = 1 /\ c.protocol = "" /\ a[1] \in {"tcp", "udp", "http"},
         [c EXCEPT !.protocol = IF a[1] = "udp" THEN "udp" ELSE "tcp", !.http = (a[1] = "http")])

\* vni, two MAC addresses (good or not), local and remote tunnel addresses
ParseVxlan(c, a) ==
    IF Len(a) # 7 \/ Len(c.vxlans) >= NETIF_PORT_MAX THEN Error
    ELSE LET l == ParseIpRange(<<a[4], a[5]>>, FALSE)
             r == ParseIpRange(<<a[6], a[7]>>, FALSE)
         IN  IF Atoi(a[1]) \notin 1 .. VNI_MAX \/ a[2] # "good" \/ a[3] # "good" THEN Error
             ELSE IF l = Error \/ r = Error THEN Error
             ELSE OkIf(l.af = AF_INET /\ r.af = AF_INET,
                       [c EXCEPT !.vxlans = Append(c.vxlans, [local |-> l, remote |-> r])])

ParseVlan(c, a) ==
    OkIf(Len(a) = 1 /\ c.vlan_id = 0 /\ Atoi(a[1]) \in 1 .. VLAN_ID_MAX, [c EXCEPT !.vlan_id = Atoi(a[1])])

ParseTos(c, a) ==
    OkIf(Len(a) = 1 /\ c.tos = 0 /\ ParseHex(a[1], 0, 255) >= 0, [c EXCEPT !.tos = ParseHex(a[1], 0, 255)])

\* jumbo is the MTU, 0 without
ParseJumbo(c, a) ==
    OkIf(Len(a) <= 1 /\ (Len(a) = 1 => Atoi(a[1]) \in JUMBO_MTU_MIN .. JUMBO_MTU_MAX) /\ c.jumbo = 0,
         [c EXCEPT !.jumbo = IF Len(a) = 1 THEN Atoi(a[1]) ELSE JUMBO_MTU_MAX])

ParseRss(c) == [c EXCEPT !.flow = "rss"]

\* The default is already true, and true counts as set
ParseTcpRst(c, a) ==
    OkIf(Len(a) = 1 /\ ~c.tcp_rst /\ Atoi(a[1]) \in {0, 1}, [c EXCEPT !.tcp_rst = (Atoi(a[1]) = 1)])

ParseHttpMethod(c, a) ==
    OkIf(Len(a) = 1 /\ ~c.post /\ a[1] \in {"GET", "POST"}, [c EXCEPT !.post = (a[1] = "POST")])

ParseClientPortRange(c, a) ==
    IF Len(a) \notin {1, 2} \/ c.lport_min # 0 \/ c.lport_max # 0 THEN Error
    ELSE LET max == IF Len(a) = 2 THEN Atoi(a[2]) ELSE NETWORK_PORT_NUM - 1
         IN  OkIf({Atoi(a[1]), max} \subseteq 1 .. NETWORK_PORT_NUM - 1 /\ Atoi(a[1]) <= max,
                  [c EXCEPT !.lport_min = Atoi(a[1]), !.lport_max = max])

ParseLportRange(c, a) == ParseClientPortRange(c, a)

ParseLogLevel(c, a) ==
    OkIf(Len(a) = 1 /\ c.log_level = 0 /\ a[1] \in {"error", "warn", "info", "debug"},
         [c EXCEPT !.log_level = CASE a[1] = "error" -> 4 [] a[1] = "warn" -> 5
                                   [] a[1] = "info" -> 7 [] a[1] = "debug" -> 8])

ParseRetransmitTimeout(c, a) ==
    OkIf(Len(a) = 1 /\ c.rto = 0 /\ Atoi(a[1]) \in 2 .. 300, [c EXCEPT !.rto = Atoi(a[1])])

\* g_config_keywords
KeywordCall(c, k, a) ==
    CASE k = "daemon" -> ParseDaemon(c)
      [] k = "keepalive" -> ParseKeepalive(c, a)
      [] k = "pipeline" -> ParsePipeline(c, a)
      [] k = "mode" -> ParseMode(c, a)
      [] k = "cpu" -> ParseCpu(c, a)
      [] k = "socket_mem" -> ParseSocketMem(c, a)
      [] k = "port" -> ParsePort(c, a)
      [] k = "duration" -> ParseDuration(c, a)
      [] k = "cps" -> ParseCps(c, a)
      [] k = "cc" -> ParseCc(c, a)
      [] k = "flood" -> ParseFlood(c, a)
      [] k = "launch_num" -> ParseLaunchNum(c, a)
      [] k = "client" -> ParseClient(c, a)
      [] k = "server" -> ParseServer(c, a)
      [] k = "change_dip" -> ParseChangeDip(c, a)
      [] k = "listen" -> ParseListen(c, a)
      [] k = "payload_random" -> ParsePayloadRandom(c, a)
      [] k = "payload_size" -> ParsePayloadSize(c, a)
      [] k = "payload_file" -> ParsePayloadFile(c, a)
      [] k = "send_window" -> ParseSendWindow(c, a)
      [] k = "packet_size" -> ParsePacketSize(c, a)
      [] k = "mss" -> ParseMss(c, a)
      [] k = "protocol" -> ParseProtocol(c, a)
      [] k = "tx_burst" -> ParseTxBurst(c, a)
      [] k = "slow_start" -> ParseSlowStart(c, a)
      [] k = "wait" -> ParseWait(c, a)
      [] k = "vxlan" -> ParseVxlan(c, a)
      [] k = "vlan" -> ParseVlan(c, a)
      [] k = "kni" -> ParseKni(c, a)
      [] k = "tos" -> ParseTos(c, a)
      [] k = "jumbo" -> ParseJumbo(c, a)
      [] k = "rss" -> ParseRss(c)
      [] k = "quiet" -> ParseQuiet(c, a)
      [] k = "tcp_rst" -> ParseTcpRst(c, a)
      [] k = "http_host" -> ParseHttpHost(c, a)
      [] k = "http_path" -> ParseHttpPath(c, a)
      [] k = "http_method" -> ParseHttpMethod(c, a)
      [] k = "lport_range" -> ParseLportRange(c, a)
      [] k = "client_port_range" -> ParseClientPortRange(c, a)
      [] k = "client_hop" -> ParseClientHop(c, a)
      [] k = "simd512" -> ParseSimd512(c, a)
      [] k = "fast_close" -> ParseFastClose(c, a)
      [] k = "clear_screen" -> ParseClearScreen(c, a)
      [] k = "log_level" -> ParseLogLevel(c, a)
      [] k = "disable_ack" -> ParseDisableAck(c, a)
      [] k = "retransmit_timeout" -> ParseRetransmitTimeout(c, a)
      [] k = "neigh_ignore" -> ParseNeighIgnore(c, a)
      [] k = "flow_isolate" -> ParseFlowIsolate(c, a)
      [] OTHER -> Error   \* config_keyword_lookup finds nothing

\* config_keyword_parse: a comment or an empty line is skipped, a line with
\* other than printable characters is an error
KeywordParse(c, l) ==
    CASE l.k = "#" -> c
      [] l.k = "binary" -> Error
      [] OTHER -> KeywordCall(c, l.k, l.a)
=============================================================================
