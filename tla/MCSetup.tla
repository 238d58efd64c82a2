------------------------------ MODULE MCSetup ------------------------------
(* Configuration files for TLC.                                            *)
EXTENDS Setup

L(k, a) == [k |-> k, a |-> a]
N(n) == [n |-> n, u |-> ""]
U(n, u) == [n |-> n, u |-> u]
A(ip) == [af |-> 4, pre |-> 0, ip |-> ip]
A6(ip) == [af |-> 6, pre |-> 1, ip |-> ip]
Ip(h, b, l) == h * 65536 + b * 256 + l
Pci(s) == [bond |-> FALSE, good |-> TRUE, pci |-> <<s>>]
BAD == [af |-> 0, pre |-> 0, ip |-> 0]
IntMin == -8388608

\* 1.0.0.x are clients, 2.0.0.x servers, 3.0.x.x ports and gateways
Port1 == L("port", <<Pci("p1"), A(Ip(3, 0, 1)), A(Ip(3, 0, 2))>>)
Port2 == L("port", <<Pci("p2"), A(Ip(3, 1, 1)), A(Ip(3, 1, 2))>>)
Port1Mac == L("port", <<Pci("p1"), A(Ip(3, 0, 1)), A(Ip(3, 0, 2)), "good">>)
Port1V6 == L("port", <<Pci("p1"), A6(Ip(3, 0, 1)), A6(Ip(3, 0, 2))>>)
Bond == L("port", <<[bond |-> TRUE, good |-> TRUE, pci |-> <<"p3", "p4">>], A(Ip(3, 2, 1)), A(Ip(3, 2, 2))>>)

Client(num) == L("client", <<A(Ip(1, 0, 1)), N(num)>>)
Client2 == L("client", <<A(Ip(1, 1, 1)), N(1)>>)
Server(num) == L("server", <<A(Ip(2, 0, 1)), N(num)>>)
Server2 == L("server", <<A(Ip(2, 1, 1)), N(1)>>)
Cpu(num) == L("cpu", <<[lo |-> 0, hi |-> num - 1]>>)
Vxlan(num) == L("vxlan", <<N(7), "good", "good", A(Ip(4, 0, 1)), N(num), A(Ip(4, 1, 1)), N(num)>>)

MCFiles ==
    {<<L("mode", <<"client">>), Cpu(1), Port1, Client(2), Server(1), L("cps", <<N(2)>>)>>,
     <<Cpu(2), Port1Mac, Client(1), Server(2), L("cps", <<N(3)>>), L("client_port_range", <<N(3)>>)>>,
     <<Cpu(2), Port1, Client(1), Server(1), L("cps", <<N(2)>>), L("rss", <<>>)>>,
     <<L("mode", <<"server">>), Cpu(2), Port1, Port2, Client(1), Client2, Server(2), Server2>>,
     <<Cpu(2), Port1, L("client", <<A6(Ip(1, 0, 1)), N(1)>>), L("server", <<A6(Ip(2, 0, 1)), N(2)>>),
       Vxlan(2), L("protocol", <<"udp">>), L("keepalive", <<U(1, "ms")>>), L("cps", <<N(2)>>)>>,
     <<Cpu(1), Port1V6, L("client", <<A6(Ip(1, 0, 254)), N(1), A6(Ip(1, 1, 1))>>),
       L("server", <<A6(Ip(2, 0, 1)), N(1)>>), L("keepalive", <<U(2, "s"), N(9)>>), L("cc", <<N(2)>>)>>}

MCLines ==
    {L("#", <<>>), L("binary", <<>>), L("colour", <<>>), L("daemon", <<>>), L("flood", <<>>),
     L("keepalive", <<U(2, "us")>>), L("keepalive", <<U(3, "us")>>), L("keepalive", <<U(70, "us"), U(40, "k")>>),
     L("keepalive", <<U(0, "us")>>), L("keepalive", <<U(0, "us"), N(1)>>), L("keepalive", <<U(1, "h")>>),
     L("keepalive", <<U(9, "s")>>), L("keepalive", <<U(8388618, "us")>>),
     L("pipeline", <<N(2)>>), L("pipeline", <<N(101)>>), L("mode", <<"server">>), L("mode", <<"peer">>),
     Cpu(1), L("cpu", <<[lo |-> 8388607, hi |-> 8388607]>>), L("socket_mem", <<"good">>), Port1, Port2, Bond,
     L("port", <<Pci("p5"), A(Ip(2, 0, 1)), A(Ip(3, 0, 9))>>), L("port", <<Pci("p5"), A(7), A6(7)>>),
     L("duration", <<U(2, "m")>>), L("duration", <<N(0)>>), L("duration", <<U(100, "d")>>),
     L("cps", <<U(1, "k")>>), L("cps", <<U(9, "m")>>), L("cc", <<N(2)>>), L("cc", <<N(64)>>),
     L("launch_num", <<N(3)>>), Client2, Server2, L("client", <<A(Ip(5, 0, 1)), N(1)>>),
     L("client", <<A(Ip(5, 2, 254)), N(2)>>), L("client", <<A(Ip(5, 3, 1)), N(1), A(Ip(5, 4, 2))>>),
     L("client", <<A(Ip(5, 3, 1)), N(1), A(Ip(5, 4, 1))>>), L("client", <<BAD, N(1)>>),
     L("client", <<A(Ip(1, 2, 3)), N(1), A(Ip(1, 2, 255))>>), L("server", <<A(Ip(5, 0, 0)), N(1)>>),
     L("server", <<A(Ip(5, 0, 1)), N(1), A(Ip(5, 0, 2))>>),
     L("change_dip", <<A(9), N(1), N(3)>>), L("change_dip", <<A(9), N(0), N(3)>>),
     L("listen", <<N(8388607), N(1)>>), L("listen", <<N(1), N(8388607)>>), L("listen", <<N(16777218), N(1)>>),
     L("listen", <<N(2), N(1)>>), L("listen", <<N(1), N(2)>>), L("listen", <<N(2), N(2)>>),
     L("payload_random", <<>>), L("payload_size", <<N(1460)>>), L("payload_size", <<N(1473)>>),
     L("payload_size", <<U(2, "k"), N(80)>>), L("payload_size", <<N(0), N(90)>>), L("payload_file", <<"good">>),
     L("send_window", <<N(17)>>), L("send_window", <<N(16)>>), L("packet_size", <<N(64)>>),
     L("mss", <<N(1461)>>), L("mss", <<N(1200)>>), L("protocol", <<"udp">>), L("protocol", <<"http">>),
     L("tx_burst", <<N(256)>>), L("tx_burst", <<N(1025)>>), L("slow_start", <<N(10)>>), L("wait", <<N(1)>>),
     Vxlan(1), Vxlan(2), L("vlan", <<N(5)>>), L("vlan", <<N(4095)>>), L("kni", <<>>), L("tos", <<N(16)>>), L("tos", <<U(16777217, "0x")>>), L("jumbo", <<>>),
     L("jumbo", <<N(9001)>>), L("rss", <<>>), L("quiet", <<>>), L("tcp_rst", <<N(0)>>),
     L("http_host", <<[len |-> 100]>>), L("http_path", <<[len |-> 40, slash |-> TRUE]>>),
     L("http_method", <<"POST">>), L("lport_range", <<N(2), N(3)>>), L("client_port_range", <<N(3), N(2)>>),
     L("client_hop", <<>>), L("simd512", <<>>), L("fast_close", <<>>), L("clear_screen", <<>>),
     L("log_level", <<"info">>), L("disable_ack", <<>>), L("retransmit_timeout", <<N(3)>>),
     L("neigh_ignore", <<>>), L("flow_isolate", <<>>)}
=============================================================================
