------------------------------ MODULE Template ------------------------------
(***************************************************************************)
(* The packet templates of a worker (mbuf_cache.c, http.c, vxlan.c): the   *)
(* headers and the payload every packet is copied from.  A template is     *)
(* abstracted to its lengths: what mbuf_data records (l2, l3, l4, data,    *)
(* total) and what the headers say (iplen: the IP header and what follows, *)
(* off: th_off, udplen: the length in the UDP header, outer: the total     *)
(* length in the outer IP header of VXLAN).                                *)
(***************************************************************************)
EXTENDS ConfigCheck

\* config_set_payload, http_set_payload_server: the response of a worker
HttpSetPayloadServer(c, size) ==
    CASE size = 0 -> HTTP_DATA_MIN_SIZE + 14
      [] size \in 1 .. HTTP_DATA_MIN_SIZE - 1 -> size
      [] size >= HTTP_DATA_MIN_SIZE ->
             LET len == IF size > c.mss THEN c.mss ELSE size
             IN  IF len > HTTP_DATA_MIN_SIZE THEN len ELSE HTTP_DATA_MIN_SIZE

\* http_set_payload_client: a GET pads its path, a POST its body
HttpSetPayloadClient(c, size) ==
    LET extra == c.host + c.path - 6
        pad   == IF size > HTTP_DATA_MIN_SIZE + extra THEN size - HTTP_DATA_MIN_SIZE - extra ELSE 0
    IN  CASE size = 0 -> HTTP_DATA_MIN_SIZE + extra
          [] size \in 1 .. HTTP_DATA_MIN_SIZE - 1 -> size
          [] size >= HTTP_DATA_MIN_SIZE /\ c.post -> HTTP_DATA_MIN_SIZE + extra + pad
          [] size >= HTTP_DATA_MIN_SIZE /\ ~c.post ->
                 HTTP_DATA_MIN_SIZE - 1 + (IF pad > 0 THEN pad ELSE 1) + (c.host - 5)

\* http_set_payload, udp_set_payload
PayloadLen(c, id) ==
    CASE c.protocol = "udp" -> c.payload[id + 1]
      [] c.protocol = "tcp" /\ c.server -> HttpSetPayloadServer(c, c.payload[id + 1])
      [] c.protocol = "tcp" /\ ~c.server -> HttpSetPayloadClient(c, c.payload[id + 1])
-----------------------------------------------------------------------------
Empty == [l2 |-> 0, l3 |-> 0, l4 |-> 0, data |-> 0, total |-> 0, iplen |-> 0, off |-> 0,
          udplen |-> 0, outer |-> 0]

MbufDataPush(m, len) ==
    IF m = Error THEN Error ELSE OkIf(m.total + len <= MBUF_DATA_SIZE, [m EXCEPT !.total = @ + len])

\* mbuf_data_ip_tot_len_add
IpTotLenAdd(m, len) == IF m = Error THEN Error ELSE [m EXCEPT !.iplen = @ + len]

PushL2(m) == MbufDataPush([m EXCEPT !.l2 = 14], 14)

\* The length in an IPv6 header leaves the header out, so its 40 bytes are
\* added to iplen here
PushIpv6(m) == MbufDataPush([m EXCEPT !.l3 = 40, !.iplen = 40], 40)
PushIpv4(m) == MbufDataPush([m EXCEPT !.l3 = 20, !.iplen = 20], 20)
PushIp(c, m) == IF c.af = AF_INET6 THEN PushIpv6(m) ELSE PushIpv4(m)

PushTcp(m) == IpTotLenAdd(MbufDataPush([m EXCEPT !.l4 = 20, !.off = 5], 20), 20)

PushTcpOptShort(m, len) == MbufDataPush([m EXCEPT !.off = @ + 1, !.l4 = @ + len], len)

\* th_off counts 4-byte words, and an option here is one word
PushTcpOpt(m, len) ==
    IF len % 4 # 0 THEN Error
    ELSE IpTotLenAdd(MbufDataPush([m EXCEPT !.off = @ + 1, !.l4 = @ + len], len), len)

PushTcpMss(m) == PushTcpOpt(m, 4)
PushTcpWscale(m) == IF m = Error THEN Error ELSE PushTcpOpt(m, 4)

PushUdp(m) == MbufDataPush(IpTotLenAdd([m EXCEPT !.l4 = 8, !.udplen = 8], 8), 8)

PushData(m, len) ==
    IF m = Error \/ len = 0 THEN m
    ELSE IpTotLenAdd(MbufDataPush([m EXCEPT !.data = len], len), len)

\* vxlan_encapsulate: 50 bytes before the packet
VxlanEncapsulate(m) == MbufDataPush([m EXCEPT !.outer = 20 + 8 + 8 + m.total], VXLAN_HEADERS_SIZE)

MbufCacheInit(c, m) == IF m = Error THEN Error ELSE IF c.vxlan THEN VxlanEncapsulate(m) ELSE m

MbufCacheInitTcp(c, mss, len) ==
    LET m == PushTcp(PushIp(c, PushL2(Empty)))
    IN  MbufCacheInit(c, PushData(IF mss > 0 THEN PushTcpWscale(PushTcpMss(m)) ELSE m, len))

MbufCacheInitUdp(c, len) ==
    LET m == PushData(PushUdp(PushIp(c, PushL2(Empty))), len)
    IN  MbufCacheInit(c, IF m = Error THEN Error ELSE [m EXCEPT !.udplen = m.l4 + m.data])

\* tcp_init and udp_init of worker id
TcpInit(c, id) ==
    {MbufCacheInitTcp(c, 0, 0), MbufCacheInitTcp(c, c.mss, 0), MbufCacheInitTcp(c, 0, PayloadLen(c, id))}

UdpInit(c, id) == {MbufCacheInitUdp(c, PayloadLen(c, id))}

Templates(c, id) == IF c.protocol = "tcp" THEN TcpInit(c, id) ELSE UdpInit(c, id)
=============================================================================
