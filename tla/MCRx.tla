-------------------------------- MODULE MCRx --------------------------------
(* Two workers of one port for TLC.                                        *)
EXTENDS Rx

Plain == [eth |-> "ip4", vx |-> FALSE, flaw |-> "none", opts |-> 0, proto |-> "tcp",
          op |-> "other", to |-> "range", gw |-> FALSE, mac |-> 1]

Base == [l3 |-> "ipv4", inner6 |-> FALSE, proto |-> "tcp", kni |-> FALSE, bond4 |-> FALSE,
         ignore |-> FALSE, rst |-> FALSE, gwmac |-> 0]

MCConfs ==
    {[Base EXCEPT !.kni = TRUE],
     [Base EXCEPT !.bond4 = TRUE, !.ignore = TRUE, !.rst = TRUE],
     [Base EXCEPT !.l3 = "ipv6", !.proto = "udp", !.kni = TRUE, !.ignore = TRUE],
     [Base EXCEPT !.l3 = "vxlan", !.inner6 = TRUE, !.rst = TRUE, !.gwmac = 2]}

Arp == [Plain EXCEPT !.eth = "arp"]
V6 == [Plain EXCEPT !.eth = "ip6"]
Icmp6 == [V6 EXCEPT !.proto = "icmp"]

MCFrames ==
    {Plain, [Plain EXCEPT !.flaw = "frag"], [Plain EXCEPT !.proto = "udp", !.to = "local"],
     [Plain EXCEPT !.proto = "icmp", !.op = "echo"], [Plain EXCEPT !.proto = "icmp", !.to = "local"],
     [Plain EXCEPT !.proto = "other"],
     [Arp EXCEPT !.op = "req"], [Arp EXCEPT !.op = "req", !.mac = 2, !.to = "local"],
     [Arp EXCEPT !.op = "rep", !.gw = TRUE],
     [V6 EXCEPT !.vx = TRUE], [V6 EXCEPT !.vx = TRUE, !.opts = 1], [V6 EXCEPT !.opts = 2],
     [Icmp6 EXCEPT !.op = "req", !.to = "local"], [Icmp6 EXCEPT !.op = "rep", !.gw = TRUE],
     [Icmp6 EXCEPT !.op = "echorep", !.to = "local"]}

MCKernelFrames == {[Arp EXCEPT !.op = "req"]}
=============================================================================
