---------------------------- MODULE SetupProofs ----------------------------
(***************************************************************************)
(* For every configuration file: what config_parse accepts is sound, the   *)
(* workers started with it never have the same connection open, the pool of *)
(* a client's worker is exactly filled by its table, and a packet that is  *)
(* handed to the worker finds its socket there.                            *)
(***************************************************************************)
EXTENDS Setup, FiniteSetTheorems, FunctionTheorems, SequenceTheorems, TLAPS

Fields ==
    {"server", "flags", "keepalive", "interval", "reqnum", "pipeline", "cpu_num", "ports",
     "queue_num", "listen", "listen_num", "cgrp", "sgrp", "af", "dips", "duration", "cps", "cc",
     "launch_num", "tx_burst", "slow_start", "wait", "payload", "send_window", "mss", "protocol",
     "http", "vxlans", "vxlan", "vlan_id", "tos", "jumbo", "flow", "tcp_rst", "host", "path", "post",
     "lport_min", "lport_max", "log_level", "rto", "ticks", "stats_http"}

NatFields ==
    {"reqnum", "pipeline", "cpu_num", "listen", "listen_num", "duration", "cps", "cc", "slow_start",
     "wait", "mss", "lport_min", "lport_max"}

(* The fields whose values must fit together.                              *)
Paired == {"interval", "reqnum", "listen", "listen_num", "lport_min", "lport_max"}

(* A keepalive interval in microseconds, as the file may have it.          *)
Interval(us) == us \in Nat /\ (us < 10 => us \in {0, 1, 2, 4, 6, 8})

AddressList(l) == l \in Seq(Nat) /\ Len(l) > 0

Consecutive(l) == \A i \in 1 .. Len(l) : l[i] = l[1] + i - 1

Sequence(s) == \E S : s \in Seq(S)

AddressGroup(grp) == Sequence(grp) /\ \A g \in 1 .. Len(grp) : AddressList(grp[g].list)

(* What the handler of a keyword may set a field to.                       *)
FieldOk(f, v) ==
    /\ f \in NatFields => v \in Nat
    /\ f = "tx_burst" => v \in 0 .. 255
    /\ f = "jumbo" => v \in Nat /\ (v # 0 => v > 60)
    /\ f = "rto" => v \in Nat /\ v # 1
    /\ f \in {"server", "keepalive"} => v \in BOOLEAN
    /\ f = "dips" => v.num \in Nat
    /\ f = "ports" => Sequence(v)
    /\ f = "cgrp" => AddressGroup(v)
    /\ f = "sgrp" => AddressGroup(v) /\ \A g \in 1 .. Len(v) : Consecutive(v[g].list)
    /\ f = "flow" => v \in {"none", "rss", "fdir"}
    /\ f = "interval" => Interval(v)

Pacing(interval, reqnum) == interval = 0 => reqnum = 0

Listening(port, num) == port # 0 /\ num # 0 => port + num < NETWORK_PORT_NUM \/ port + num > INT_MAX

LocalPorts(min, max) == (min = 0 <=> max = 0) /\ min <= max /\ max < NETWORK_PORT_NUM

(* g_config after any lines of any file.                                   *)
Parsed(c) ==
    /\ DOMAIN c = Fields
    /\ \A f \in Fields : FieldOk(f, c[f])
    /\ Pacing(c.interval, c.reqnum)
    /\ Listening(c.listen, c.listen_num)
    /\ LocalPorts(c.lport_min, c.lport_max)

(* The arguments of a line that are numbers.                               *)
Numbered(a) == Len(a) \in Nat /\ \A i \in 1 .. Len(a) : a[i].n \in Int
-----------------------------------------------------------------------------
(* The value of one field.                                                 *)
LEMMA FieldFacts ==
  ASSUME NEW c, Parsed(c)
  PROVE  /\ \A f \in NatFields : c[f] \in Nat
         /\ c.cpu_num \in Nat /\ c.listen \in Nat /\ c.listen_num \in Nat /\ c.duration \in Nat
         /\ c.cps \in Nat /\ c.cc \in Nat /\ c.slow_start \in Nat /\ c.wait \in Nat /\ c.mss \in Nat
         /\ c.lport_min \in Nat /\ c.lport_max \in Nat /\ c.reqnum \in Nat /\ c.pipeline \in Nat
         /\ c.tx_burst \in 0 .. 255 /\ c.jumbo \in Nat /\ (c.jumbo # 0 => c.jumbo > 60)
         /\ c.rto \in Nat /\ c.rto # 1 /\ c.server \in BOOLEAN /\ c.keepalive \in BOOLEAN
         /\ c.dips.num \in Nat /\ Sequence(c.ports) /\ AddressGroup(c.cgrp) /\ AddressGroup(c.sgrp)
         /\ \A g \in 1 .. Len(c.sgrp) : Consecutive(c.sgrp[g].list)
         /\ c.flow \in {"none", "rss", "fdir"} /\ Interval(c.interval)
  <1>1. \A f \in Fields : FieldOk(f, c[f])
    BY DEF Parsed
  <1>2. ASSUME NEW f \in NatFields PROVE c[f] \in Nat
    <2>1. f \in Fields
      BY DEF Fields, NatFields
    <2> QED
      BY <1>1, <2>1 DEF FieldOk
  <1>3. /\ c.cpu_num \in Nat /\ c.listen \in Nat /\ c.listen_num \in Nat /\ c.duration \in Nat
        /\ c.cps \in Nat /\ c.cc \in Nat /\ c.slow_start \in Nat /\ c.wait \in Nat /\ c.mss \in Nat
        /\ c.lport_min \in Nat /\ c.lport_max \in Nat /\ c.reqnum \in Nat /\ c.pipeline \in Nat
    BY <1>2 DEF NatFields
  <1>4. /\ FieldOk("tx_burst", c.tx_burst) /\ FieldOk("jumbo", c.jumbo) /\ FieldOk("rto", c.rto)
        /\ FieldOk("server", c.server) /\ FieldOk("keepalive", c.keepalive) /\ FieldOk("dips", c.dips)
        /\ FieldOk("ports", c.ports) /\ FieldOk("cgrp", c.cgrp) /\ FieldOk("sgrp", c.sgrp)
        /\ FieldOk("flow", c.flow) /\ FieldOk("interval", c.interval)
    BY <1>1 DEF Fields
  <1>5. /\ c.tx_burst \in 0 .. 255 /\ c.jumbo \in Nat /\ (c.jumbo # 0 => c.jumbo > 60)
        /\ c.rto \in Nat /\ c.rto # 1
    BY <1>4 DEF FieldOk
  <1>6. c.server \in BOOLEAN /\ c.keepalive \in BOOLEAN
    BY <1>4 DEF FieldOk
  <1>7. /\ c.dips.num \in Nat /\ Sequence(c.ports) /\ AddressGroup(c.cgrp) /\ AddressGroup(c.sgrp)
        /\ \A g \in 1 .. Len(c.sgrp) : Consecutive(c.sgrp[g].list)
        /\ c.flow \in {"none", "rss", "fdir"} /\ Interval(c.interval)
    BY <1>4 DEF FieldOk
  <1> QED
    BY <1>2, <1>3, <1>5, <1>6, <1>7

(* One field is set, and what it must fit together with is not.            *)
LEMMA SetOne ==
  ASSUME NEW c, Parsed(c), NEW f \in Fields \ Paired, NEW v, FieldOk(f, v)
  PROVE  Parsed([c EXCEPT ![f] = v])
  <1> DEFINE d == [c EXCEPT ![f] = v]
  <1>1. DOMAIN c = Fields /\ \A g \in Fields : FieldOk(g, c[g])
    BY DEF Parsed
  <1>2. DOMAIN d = Fields /\ d[f] = v /\ \A g \in Fields : g # f => d[g] = c[g]
    BY <1>1, Zenon
  <1>3. \A g \in Paired : g \in Fields /\ g # f
    BY DEF Fields, Paired
  <1> HIDE DEF d
  <1>4. \A g \in Fields : FieldOk(g, d[g])
    <2> TAKE g \in Fields
    <2>1. CASE g = f
      BY <1>2, <2>1, Zenon
    <2>2. CASE g # f
      BY <1>1, <1>2, <2>2, Zenon
    <2> QED BY <2>1, <2>2
  <1>5. /\ d["interval"] = c["interval"] /\ d["reqnum"] = c["reqnum"] /\ d["listen"] = c["listen"]
        /\ d["listen_num"] = c["listen_num"] /\ d["lport_min"] = c["lport_min"]
        /\ d["lport_max"] = c["lport_max"]
    BY <1>2, <1>3 DEF Paired
  <1>6. /\ d.interval = c.interval /\ d.reqnum = c.reqnum /\ d.listen = c.listen
        /\ d.listen_num = c.listen_num /\ d.lport_min = c.lport_min /\ d.lport_max = c.lport_max
    BY <1>5, Zenon
  <1>7. Parsed(d)
    BY <1>2, <1>4, <1>6, Zenon DEF Parsed
  <1> QED
    BY <1>7 DEF d

(* A sequence with one more element.                                       *)
LEMMA Longer ==
  ASSUME NEW s, Sequence(s), NEW x
  PROVE  /\ Sequence(Append(s, x)) /\ Len(s) \in Nat /\ Len(Append(s, x)) = Len(s) + 1
         /\ \A i \in 1 .. Len(s) : Append(s, x)[i] = s[i]
         /\ Append(s, x)[Len(s) + 1] = x
  <1>1. PICK S : s \in Seq(S)
    BY DEF Sequence
  <1>2. s \in Seq(S \cup {x})
    BY <1>1, SeqMonotonic
  <1>3. Append(s, x) \in Seq(S \cup {x})
    BY <1>2
  <1> QED
    BY <1>2, <1>3, AppendProperties DEF Sequence

(* Before any line is read.                                                *)
LEMMA ParsedFirst == Parsed(Config0)
  BY ConfigAssumption
   DEF Parsed, Config0, Fields, NatFields, FieldOk, Interval, AddressGroup, Sequence, Pacing, Listening,
       LocalPorts
-----------------------------------------------------------------------------
(* The fields no other part depends on.                                    *)
Free ==
    {"flags", "queue_num", "af", "launch_num", "payload", "send_window", "protocol", "http", "vxlans",
     "vxlan", "vlan_id", "tos", "tcp_rst", "host", "path", "post", "log_level", "ticks", "stats_http"}

(* Setting one of them.                                                    *)
LEMMA SetFree ==
  ASSUME NEW c, Parsed(c), NEW f \in Free, NEW v
  PROVE  Parsed([c EXCEPT ![f] = v])
  <1>1. f \in Fields \ Paired
    BY DEF Free, Fields, Paired
  <1>2. /\ f \notin NatFields /\ f # "tx_burst" /\ f # "jumbo" /\ f # "rto" /\ f \notin {"server", "keepalive"}
        /\ f # "dips" /\ f # "ports" /\ f # "cgrp" /\ f # "sgrp" /\ f # "flow" /\ f # "interval"
    BY DEF Free, NatFields
  <1>3. FieldOk(f, v)
    BY <1>2, Zenon DEF FieldOk
  <1> QED
    BY <1>1, <1>3, SetOne

(* Setting a plain number.                                                 *)
LEMMA SetNumber ==
  ASSUME NEW c, Parsed(c), NEW f \in NatFields \ Paired, NEW v \in Nat
  PROVE  Parsed([c EXCEPT ![f] = v])
  <1>1. f \in Fields \ Paired
    BY DEF Fields, NatFields, Paired
  <1>2. /\ f # "tx_burst" /\ f # "jumbo" /\ f # "rto" /\ f \notin {"server", "keepalive"}
        /\ f # "dips" /\ f # "ports" /\ f # "cgrp" /\ f # "sgrp" /\ f # "flow" /\ f # "interval"
    BY DEF NatFields
  <1>3. FieldOk(f, v)
    BY <1>2, Zenon DEF FieldOk
  <1> QED
    BY <1>1, <1>3, SetOne

(* A number of a width differs from the number it is made of by a multiple *)
(* of that width.                                                          *)
LEMMA SignedWrap ==
  ASSUME NEW v \in Int, NEW m \in Nat \ {0}
  PROVE  /\ ((v + m) % (2 * m)) - m \in -m .. m - 1
         /\ \E q \in Int : ((v + m) % (2 * m)) - m = v - 2 * (m * q)
         /\ v \in 0 .. m - 1 => ((v + m) % (2 * m)) - m = v
  <1> DEFINE w == 2 * m
             a == v + m
             q == a \div w
             r == a % w
  <1>1. w \in Nat \ {0} /\ a \in Int
    OBVIOUS
  <1>2. q \in Int /\ r \in 0 .. w - 1 /\ a = w * q + r
    <2> HIDE DEF w, a
    <2> QED BY <1>1
  <1>3. w * q = 2 * (m * q)
    <2> HIDE DEF q
    <2> QED BY <1>2
  <1> HIDE DEF q, r
  <1>4. r - m = v - 2 * (m * q) /\ r - m \in -m .. m - 1
    <2> DEFINE p == m * q
    <2>1. p \in Int
      BY <1>2
    <2> HIDE DEF p
    <2> QED
      BY <1>2, <1>3, <2>1 DEF p
  <1>5. ASSUME v \in 0 .. m - 1 PROVE r - m = v
    <2>1. a \in 0 .. w - 1
      BY <1>5
    <2>2. a % w = a
      <3> HIDE DEF a, w
      <3> QED BY <1>1, <2>1
    <2> QED
      BY <1>5, <2>2 DEF r
  <1> QED
    BY <1>2, <1>4, <1>5 DEF r

(* What an int holds.                                                      *)
LEMMA IntOf ==
  ASSUME NEW v \in Int
  PROVE  /\ ToInt(v) \in Int /\ -INT_MAX - 1 <= ToInt(v) /\ ToInt(v) <= INT_MAX
         /\ \E q \in Int : ToInt(v) = v - 2 * q
         /\ v \in 0 .. INT_MAX => ToInt(v) = v
  <1> DEFINE m == INT_MAX + 1
  <1>1. m \in Nat \ {0} /\ m - 1 = INT_MAX /\ INT_MAX \in Nat
    BY ConfigAssumption
  <1>2. ToInt(v) = ((v + m) % (2 * m)) - m
    BY <1>1 DEF ToInt
  <1> HIDE DEF m
  <1>3. /\ ToInt(v) \in -m .. m - 1
        /\ \E q \in Int : ToInt(v) = v - 2 * (m * q)
        /\ v \in 0 .. m - 1 => ToInt(v) = v
    BY <1>1, <1>2, SignedWrap
  <1>4. ToInt(v) \in Int /\ -INT_MAX - 1 <= ToInt(v) /\ ToInt(v) <= INT_MAX
    BY <1>1, <1>3
  <1>5. \E q \in Int : ToInt(v) = v - 2 * q
    <2>1. PICK q \in Int : ToInt(v) = v - 2 * (m * q)
      BY <1>3
    <2>2. m * q \in Int
      BY <1>1
    <2> QED
      BY <2>1, <2>2
  <1> QED
    BY <1>1, <1>3, <1>4, <1>5

(* A double that is stored in an int gives one.                            *)
LEMMA FloatInt ==
  ASSUME NEW v \in Int
  PROVE  FloatToInt(v) \in Int
  BY ConfigAssumption DEF FloatToInt

(* What config_parse_number returns is a number.                           *)
LEMMA NumberInt ==
  ASSUME NEW x, x.n \in Int, NEW rate \in BOOLEAN
  PROVE  ParseNumber(x, rate) \in Int
  <1> DEFINE p == ParseNumber(x, rate)
             u == NumberRate(x.u)
             f == FloatToInt(x.n * u)
             i == Atoi(x)
  <1>1. p = f \/ p = i \/ p = -1
    BY Zenon DEF ParseNumber
  <1>2. u = KILO \/ u = MEGA \/ u = 1
    BY SMT DEF NumberRate
  <1>3. u \in Int
    <2> HIDE DEF u
    <2> QED BY <1>2 DEF KILO, MEGA
  <1>4. x.n * u \in Int
    <2> HIDE DEF u
    <2> QED BY <1>3
  <1>5. f \in Int
    <2> HIDE DEF u
    <2> QED BY <1>4, FloatInt
  <1>6. i \in Int
    BY IntOf DEF Atoi
  <1> HIDE DEF p, f, i
  <1>7. p \in Int
    BY <1>1, <1>5, <1>6
  <1> QED
    BY <1>7 DEF p

(* The handlers of keywords whose field is free.                           *)
LEMMA FreeHandlers ==
  ASSUME NEW c, Parsed(c), NEW a, NEW r, r # Error,
         \/ \E f : r = SetFlag(c, a, f)
         \/ \E f, good : r = SetString(c, good, f)
         \/ r = ParsePacketSize(c, a) \/ r = ParseProtocol(c, a)
         \/ r = ParseDaemon(c)
         \/ r = ParseHttpHost(c, a)
         \/ r = ParseHttpPath(c, a)
         \/ r = ParsePayloadSize(c, a)
         \/ r = ParseSendWindow(c, a)
         \/ r = ParseVlan(c, a)
         \/ r = ParseTos(c, a)
         \/ r = ParseTcpRst(c, a)
         \/ r = ParseHttpMethod(c, a)
         \/ r = ParseLogLevel(c, a)
         \/ r = ParseLaunchNum(c, a)
         \/ r = ParseVxlan(c, a)
  PROVE  Parsed(r)
  <1>1. ASSUME NEW f \in Free, NEW v, r = [c EXCEPT ![f] = v] PROVE Parsed(r)
    BY <1>1, SetFree
  <1>2. CASE \E f : r = SetFlag(c, a, f)
    <2>1. \E v : r = [c EXCEPT !["flags"] = v]
      BY <1>2, Zenon DEF SetFlag, OkIf
    <2> QED
      BY <1>1, <2>1 DEF Free
  <1>3. CASE \E f, good : r = SetString(c, good, f)
    <2>1. \E v : r = [c EXCEPT !["flags"] = v]
      BY <1>3, Zenon DEF SetString, OkIf
    <2> QED
      BY <1>1, <2>1 DEF Free
  <1>4. CASE r = ParsePacketSize(c, a)
    BY <1>4 DEF ParsePacketSize, OkIf
  <1>5. CASE r = ParseProtocol(c, a)
    <2>1. \E v, w : r = [c EXCEPT !["protocol"] = v, !["http"] = w]
      BY <1>5, Zenon DEF ParseProtocol, OkIf
    <2>2. PICK v, w : r = [[c EXCEPT !["protocol"] = v] EXCEPT !["http"] = w]
      BY <2>1
    <2>3. Parsed([c EXCEPT !["protocol"] = v])
      BY SetFree DEF Free
    <2> QED
      BY <2>2, <2>3, SetFree DEF Free
  <1>6. CASE r = ParseDaemon(c)
    <2>1. \E v : r = [c EXCEPT !["flags"] = v]
      BY <1>6, Zenon DEF ParseDaemon, OkIf
    <2> QED
      BY <1>1, <2>1 DEF Free
  <1>7. CASE r = ParseHttpHost(c, a)
    <2>1. \E v : r = [c EXCEPT !["host"] = v]
      BY <1>7, Zenon DEF ParseHttpHost, OkIf
    <2> QED
      BY <1>1, <2>1 DEF Free
  <1>8. CASE r = ParseHttpPath(c, a)
    <2>1. \E v : r = [c EXCEPT !["path"] = v]
      BY <1>8, Zenon DEF ParseHttpPath, OkIf
    <2> QED
      BY <1>1, <2>1 DEF Free
  <1>9. CASE r = ParsePayloadSize(c, a)
    <2>1. \E v : r = [c EXCEPT !["payload"] = v]
      BY <1>9, Zenon DEF ParsePayloadSize, OkIf
    <2> QED
      BY <1>1, <2>1 DEF Free
  <1>10. CASE r = ParseSendWindow(c, a)
    <2>1. \E v : r = [c EXCEPT !["send_window"] = v]
      BY <1>10, Zenon DEF ParseSendWindow, OkIf
    <2> QED
      BY <1>1, <2>1 DEF Free
  <1>11. CASE r = ParseVlan(c, a)
    <2>1. \E v : r = [c EXCEPT !["vlan_id"] = v]
      BY <1>11, Zenon DEF ParseVlan, OkIf
    <2> QED
      BY <1>1, <2>1 DEF Free
  <1>12. CASE r = ParseTos(c, a)
    <2>1. \E v : r = [c EXCEPT !["tos"] = v]
      BY <1>12, Zenon DEF ParseTos, OkIf
    <2> QED
      BY <1>1, <2>1 DEF Free
  <1>13. CASE r = ParseTcpRst(c, a)
    <2>1. \E v : r = [c EXCEPT !["tcp_rst"] = v]
      BY <1>13, Zenon DEF ParseTcpRst, OkIf
    <2> QED
      BY <1>1, <2>1 DEF Free
  <1>14. CASE r = ParseHttpMethod(c, a)
    <2>1. \E v : r = [c EXCEPT !["post"] = v]
      BY <1>14, Zenon DEF ParseHttpMethod, OkIf
    <2> QED
      BY <1>1, <2>1 DEF Free
  <1>15. CASE r = ParseLogLevel(c, a)
    <2>1. \E v : r = [c EXCEPT !["log_level"] = v]
      BY <1>15, Zenon DEF ParseLogLevel, OkIf
    <2> QED
      BY <1>1, <2>1 DEF Free
  <1>16. CASE r = ParseLaunchNum(c, a)
    <2>1. \E v : r = [c EXCEPT !["launch_num"] = v]
      BY <1>16, Zenon DEF ParseLaunchNum, OkIf
    <2> QED
      BY <1>1, <2>1 DEF Free
  <1>17. CASE r = ParseVxlan(c, a)
    <2>1. \E v : r = [c EXCEPT !["vxlans"] = v]
      BY <1>17, Zenon DEF ParseVxlan, OkIf
    <2> QED
      BY <1>1, <2>1 DEF Free
  <1> QED
    BY <1>2, <1>3, <1>4, <1>5, <1>6, <1>7, <1>8, <1>9, <1>10, <1>11, <1>12, <1>13, <1>14, <1>15, <1>16, <1>17, Zenon

(* The handlers that set a plain number.                                   *)
LEMMA NumberHandlers ==
  ASSUME NEW c, Parsed(c), NEW a, Numbered(a), NEW r, r # Error,
         \/ r = ParseCps(c, a)
         \/ r = ParseCc(c, a)
         \/ r = ParseSlowStart(c, a)
         \/ r = ParseWait(c, a)
         \/ r = ParseMss(c, a)
         \/ r = ParsePipeline(c, a)
         \/ r = ParseDuration(c, a)
  PROVE  Parsed(r)
  <1>1. ASSUME NEW f \in NatFields \ Paired, NEW v \in Nat, r = [c EXCEPT ![f] = v] PROVE Parsed(r)
    BY <1>1, SetNumber
  <1>2. Len(a) = 1 => a[1].n \in Int
    BY DEF Numbered
  <1>3. CASE r = ParseCps(c, a)
    <2> DEFINE n == ParseNumber(a[1], TRUE)
    <2>1. Len(a) = 1 /\ n >= 0 /\ r = [c EXCEPT !["cps"] = n]
      BY <1>3, Zenon DEF ParseCps, OkIf
    <2>2. n \in Int
      BY <1>2, <2>1, NumberInt
    <2> HIDE DEF n
    <2>3. n \in Nat
      BY <2>1, <2>2
    <2> QED
      BY <1>1, <2>1, <2>3 DEF NatFields, Paired
  <1>4. CASE r = ParseCc(c, a)
    <2> DEFINE n == ParseNumber(a[1], TRUE)
    <2>1. Len(a) = 1 /\ n > 0 /\ r = [c EXCEPT !["cc"] = n]
      BY <1>4, Zenon DEF ParseCc, OkIf
    <2>2. n \in Int
      BY <1>2, <2>1, NumberInt
    <2> HIDE DEF n
    <2>3. n \in Nat
      BY <2>1, <2>2
    <2> QED
      BY <1>1, <2>1, <2>3 DEF NatFields, Paired
  <1>5. CASE r = ParseSlowStart(c, a)
    <2> DEFINE n == ParseNumber(a[1], FALSE)
    <2>1. Len(a) = 1 /\ n \in 10 .. SLOW_START_MAX /\ r = [c EXCEPT !["slow_start"] = n]
      BY <1>5, Zenon DEF ParseSlowStart, OkIf
    <2>2. n \in Int
      BY <1>2, <2>1, NumberInt
    <2> HIDE DEF n
    <2>3. n \in Nat
      BY <2>1, <2>2
    <2> QED
      BY <1>1, <2>1, <2>3 DEF NatFields, Paired
  <1>6. CASE r = ParseWait(c, a)
    <2> DEFINE n == ParseNumber(a[1], FALSE)
    <2>1. Len(a) = 1 /\ n > 0 /\ r = [c EXCEPT !["wait"] = n]
      BY <1>6, Zenon DEF ParseWait, OkIf
    <2>2. n \in Int
      BY <1>2, <2>1, NumberInt
    <2> HIDE DEF n
    <2>3. n \in Nat
      BY <2>1, <2>2
    <2> QED
      BY <1>1, <2>1, <2>3 DEF NatFields, Paired
  <1>7. CASE r = ParseMss(c, a)
    <2> DEFINE n == ParseNumber(a[1], FALSE)
    <2>1. Len(a) = 1 /\ n > 0 /\ r = [c EXCEPT !["mss"] = n]
      BY <1>7, Zenon DEF ParseMss, OkIf
    <2>2. n \in Int
      BY <1>2, <2>1, NumberInt
    <2> HIDE DEF n
    <2>3. n \in Nat
      BY <2>1, <2>2
    <2> QED
      BY <1>1, <2>1, <2>3 DEF NatFields, Paired
  <1>8. CASE r = ParsePipeline(c, a)
    <2> DEFINE n == Atoi(a[1])
    <2>1. Len(a) = 1 /\ n \in 0 .. 100 /\ r = [c EXCEPT !["pipeline"] = n]
      BY <1>8, Zenon DEF ParsePipeline, OkIf
    <2>2. n \in Int
      BY <1>2, <2>1, IntOf DEF Atoi
    <2> HIDE DEF n
    <2>3. n \in Nat
      BY <2>1, <2>2
    <2> QED
      BY <1>1, <2>1, <2>3 DEF NatFields, Paired
  <1>9. CASE r = ParseDuration(c, a)
    <2> DEFINE u == DurationRate(a[1].u)
               n == FloatToInt(a[1].n * u)
    <2>1. Len(a) = 1 /\ n > 0 /\ r = [c EXCEPT !["duration"] = n]
      BY <1>9, Zenon DEF ParseDuration, OkIf
    <2>2. u = 60 \/ u = 3600 \/ u = 86400 \/ u = 1
      BY SMT DEF DurationRate
    <2> HIDE DEF u
    <2>3. a[1].n * u \in Int
      BY <1>2, <2>1, <2>2
    <2>4. n \in Int
      BY <2>3, FloatInt
    <2> HIDE DEF n
    <2>5. n \in Nat
      BY <2>1, <2>4
    <2> QED
      BY <1>1, <2>1, <2>5 DEF NatFields, Paired
  <1> QED
    BY <1>3, <1>4, <1>5, <1>6, <1>7, <1>8, <1>9, Zenon

(* The handlers that set a number or a choice with a range of its own.     *)
LEMMA ChoiceHandlers ==
  ASSUME NEW c, Parsed(c), NEW a, NEW r, r # Error,
         \/ Numbered(a) /\ r = ParseTxBurst(c, a)
         \/ Numbered(a) /\ r = ParseJumbo(c, a)
         \/ Numbered(a) /\ r = ParseRetransmitTimeout(c, a)
         \/ r = ParseMode(c, a)
         \/ r = ParseRss(c)
         \/ r = ParsePort(c, a)
  PROVE  Parsed(r)
  <1>1. ASSUME NEW f \in Fields \ Paired, NEW v, FieldOk(f, v), r = [c EXCEPT ![f] = v] PROVE Parsed(r)
    BY <1>1, SetOne
  <1>2. CASE Numbered(a) /\ r = ParseTxBurst(c, a)
    <2> DEFINE n == ParseNumber(a[1], FALSE)
    <2>1. Len(a) = 1 /\ n \in 1 .. TX_BURST_MAX /\ r = [c EXCEPT !["tx_burst"] = n % 256]
      BY <1>2, Zenon DEF ParseTxBurst, OkIf
    <2> HIDE DEF n
    <2>2. n % 256 \in 0 .. 255
      BY <2>1 DEF TX_BURST_MAX
    <2>3. FieldOk("tx_burst", n % 256)
      BY <2>2 DEF FieldOk, NatFields
    <2> QED
      BY <1>1, <2>1, <2>3 DEF Fields, Paired
  <1>3. CASE Numbered(a) /\ r = ParseJumbo(c, a)
    <2> DEFINE n == IF Len(a) = 1 THEN Atoi(a[1]) ELSE JUMBO_MTU_MAX
    <2>1. (Len(a) = 1 => Atoi(a[1]) \in JUMBO_MTU_MIN .. JUMBO_MTU_MAX) /\ r = [c EXCEPT !["jumbo"] = n]
      BY <1>3, Zenon DEF ParseJumbo, OkIf
    <2>2. n \in Nat /\ n > 60
      BY <2>1 DEF JUMBO_MTU_MIN, JUMBO_MTU_MAX
    <2> HIDE DEF n
    <2>3. FieldOk("jumbo", n)
      BY <2>2 DEF FieldOk, NatFields
    <2> QED
      BY <1>1, <2>1, <2>3 DEF Fields, Paired
  <1>4. CASE Numbered(a) /\ r = ParseRetransmitTimeout(c, a)
    <2> DEFINE n == Atoi(a[1])
    <2>1. n \in 2 .. 300 /\ r = [c EXCEPT !["rto"] = n]
      BY <1>4, Zenon DEF ParseRetransmitTimeout, OkIf
    <2> HIDE DEF n
    <2>2. n \in Nat /\ n # 1
      BY <2>1
    <2>3. FieldOk("rto", n)
      BY <2>2 DEF FieldOk, NatFields
    <2> QED
      BY <1>1, <2>1, <2>3 DEF Fields, Paired
  <1>5. CASE r = ParseMode(c, a)
    <2>1. r = [c EXCEPT !["server"] = (a[1] = "server")]
      BY <1>5, Zenon DEF ParseMode, OkIf
    <2>2. FieldOk("server", (a[1] = "server"))
      BY DEF FieldOk, NatFields
    <2> QED
      BY <1>1, <2>1, <2>2, Zenon DEF Fields, Paired
  <1>6. CASE r = ParseRss(c)
    <2>1. r = [c EXCEPT !["flow"] = "rss"]
      BY <1>6, Zenon DEF ParseRss
    <2>2. FieldOk("flow", "rss")
      BY DEF FieldOk, NatFields
    <2> QED
      BY <1>1, <2>1, <2>2 DEF Fields, Paired
  <1>7. CASE r = ParsePort(c, a)
    <2>1. \E x : r = [c EXCEPT !["ports"] = Append(c.ports, x)]
      BY <1>7, Zenon DEF ParsePort, OkIf
    <2>2. PICK x : r = [c EXCEPT !["ports"] = Append(c.ports, x)]
      BY <2>1
    <2>3. FieldOk("ports", Append(c.ports, x))
      <3>1. Sequence(Append(c.ports, x))
        BY FieldFacts, Longer
      <3> QED
        BY <3>1, Zenon DEF FieldOk, NatFields
    <2> QED
      BY <1>1, <2>2, <2>3 DEF Fields, Paired
  <1> QED
    BY <1>2, <1>3, <1>4, <1>5, <1>6, <1>7, Zenon

(* The arguments of client and server.                                     *)
Addressed(a) == Len(a) \in Nat /\ \A i \in 1 .. Len(a) : IF i = 2 THEN a[i].n \in Int ELSE a[i].ip \in Nat

(* A range of addresses that is accepted is not empty, and those of a      *)
(* server line are different.                                              *)
LEMMA RangeParsed ==
  ASSUME NEW a, Addressed(a), NEW split \in BOOLEAN, ParseIpRange(a, split) # Error
  PROVE  /\ AddressList(ParseIpRange(a, split).list)
         /\ ~split => Consecutive(ParseIpRange(a, split).list)
  <1> DEFINE num  == ParseNumber(a[2], FALSE)
             q    == IpRangeInit(a[1], num)
             l    == q.list
             m    == [i \in 1 .. Len(a) - 2 |-> a[i + 2].ip]
             r    == ParseIpRange(a, split)
  <1>1. /\ ~(Len(a) < 2 \/ (~split /\ Len(a) # 2) \/ a[1].af = 0) /\ q # Error
        /\ r = [q EXCEPT !.list = l \o m]
    BY Zenon DEF ParseIpRange, OkIf
  <1>2. Len(a) \in Nat /\ Len(a) >= 2
    BY <1>1 DEF Addressed
  <1>3. a[1].ip \in Nat /\ a[2].n \in Int
    BY <1>2 DEF Addressed
  <1>4. num \in Int
    BY <1>3, NumberInt
  <1>5. num > 0 /\ q = [af |-> a[1].af, pre |-> a[1].pre, list |-> [i \in 1 .. num |-> a[1].ip + i - 1]]
    <2> HIDE DEF num
    <2> QED BY <1>1 DEF IpRangeInit, OkIf
  <1> HIDE DEF num
  <1>6. l = [i \in 1 .. num |-> a[1].ip + i - 1] /\ r.list = l \o m
    <2>1. r.list = l \o m
      BY <1>1, <1>5
    <2> QED
      BY <1>5, <2>1
  <1> HIDE DEF q, r
  <1>7. l \in Seq(Nat) /\ Len(l) = num
    <2>1. num \in Nat /\ \A i \in 1 .. num : a[1].ip + i - 1 \in Nat
      BY <1>3, <1>4, <1>5
    <2> QED
      BY <1>6, <2>1
  <1>8. m \in Seq(Nat) /\ Len(m) = Len(a) - 2
    <2>1. Len(a) - 2 \in Nat /\ \A i \in 1 .. Len(a) - 2 : a[i + 2].ip \in Nat
      BY <1>2 DEF Addressed
    <2> QED
      BY <2>1
  <1> DEFINE mm == m
  <1> HIDE DEF mm, l
  <1>9. mm \in Seq(Nat) /\ Len(mm) = Len(a) - 2 /\ r.list = l \o mm
    BY <1>6, <1>8 DEF mm
  <1>10. /\ l \o mm \in Seq(Nat) /\ Len(l \o mm) = Len(l) + Len(mm)
         /\ \A i \in 1 .. Len(l) + Len(mm) : (l \o mm)[i] = IF i <= Len(l) THEN l[i] ELSE mm[i - Len(l)]
    BY <1>7, <1>9, ConcatProperties
  <1>11. AddressList(r.list)
    BY <1>2, <1>4, <1>5, <1>7, <1>9, <1>10 DEF AddressList
  <1>12. ASSUME ~split PROVE Consecutive(r.list)
    <2>1. Len(l \o mm) = num /\ \A i \in 1 .. num : (l \o mm)[i] = a[1].ip + i - 1
      <3>1. Len(mm) = 0
        BY <1>1, <1>9, <1>12
      <3>2. \A i \in 1 .. num : l[i] = a[1].ip + i - 1
        BY <1>6
      <3> QED
        BY <1>4, <1>7, <1>10, <3>1, <3>2
    <2> DEFINE z == l \o mm
    <2>2. Len(z) = num /\ \A i \in 1 .. num : z[i] = a[1].ip + i - 1
      BY <2>1
    <2> HIDE DEF z
    <2>3. z[1] = a[1].ip
      BY <1>3, <1>4, <1>5, <2>2
    <2>4. Consecutive(z)
      BY <2>2, <2>3, Zenon DEF Consecutive
    <2> QED
      BY <1>9, <2>4, Zenon DEF z
  <1> QED
    BY <1>11, <1>12 DEF r

(* One more range in a group.                                              *)
LEMMA GroupLonger ==
  ASSUME NEW grp, AddressGroup(grp), NEW x, AddressList(x.list)
  PROVE  AddressGroup(Append(grp, x))
  <1>1. Sequence(grp) /\ \A g \in 1 .. Len(grp) : AddressList(grp[g].list)
    BY DEF AddressGroup
  <1>2. /\ Sequence(Append(grp, x)) /\ Len(grp) \in Nat /\ Len(Append(grp, x)) = Len(grp) + 1
        /\ \A i \in 1 .. Len(grp) : Append(grp, x)[i] = grp[i]
        /\ Append(grp, x)[Len(grp) + 1] = x
    BY <1>1, Longer
  <1>3. \A g \in 1 .. Len(grp) + 1 : g \in 1 .. Len(grp) \/ g = Len(grp) + 1
    BY <1>2
  <1> QED
    BY <1>1, <1>2, <1>3, Zenon DEF AddressGroup

(* The handlers of client and server.                                      *)
LEMMA AddressHandlers ==
  ASSUME NEW c, Parsed(c), NEW a, Addressed(a), NEW r, r # Error,
         r = ParseClient(c, a) \/ r = ParseServer(c, a)
  PROVE  Parsed(r)
  <1>1. AddressGroup(c.cgrp) /\ AddressGroup(c.sgrp) /\ \A g \in 1 .. Len(c.sgrp) : Consecutive(c.sgrp[g].list)
    BY FieldFacts
  <1>2. ASSUME NEW x PROVE Parsed([c EXCEPT !["af"] = x])
    BY SetFree DEF Free
  <1>3. CASE r = ParseClient(c, a)
    <2> DEFINE x == ParseIpRange(a, TRUE)
    <2>1. x # Error /\ r = [[c EXCEPT !["af"] = x.af] EXCEPT !["cgrp"] = Append(c.cgrp, x)]
      <3> DEFINE d == ParseIpGroup(c, a, c.cgrp, TRUE)
      <3>1. d # Error /\ r = [d EXCEPT !["cgrp"] = Append(c.cgrp, x)]
        BY <1>3, Zenon DEF ParseClient, OkIf
      <3>2. x # Error /\ d = [c EXCEPT !["af"] = x.af]
        BY <3>1, Zenon DEF ParseIpGroup, SetAf, OkIf
      <3> QED
        BY <3>1, <3>2, Zenon
    <2>2. AddressList(x.list)
      BY <2>1, RangeParsed
    <2>3. AddressGroup(Append(c.cgrp, x))
      BY <1>1, <2>2, GroupLonger
    <2> HIDE DEF x
    <2>4. FieldOk("cgrp", Append(c.cgrp, x))
      BY <2>3, Zenon DEF FieldOk, NatFields
    <2> QED
      BY <1>2, <2>1, <2>4, SetOne DEF Fields, Paired
  <1>4. CASE r = ParseServer(c, a)
    <2> DEFINE x == ParseIpRange(a, FALSE)
               grp == Append(c.sgrp, x)
    <2>1. x # Error /\ r = [[c EXCEPT !["af"] = x.af] EXCEPT !["sgrp"] = grp]
      <3> DEFINE d == ParseIpGroup(c, a, c.sgrp, FALSE)
      <3>1. d # Error /\ r = [d EXCEPT !["sgrp"] = grp]
        BY <1>4, Zenon DEF ParseServer, OkIf
      <3>2. x # Error /\ d = [c EXCEPT !["af"] = x.af]
        BY <3>1, Zenon DEF ParseIpGroup, SetAf, OkIf
      <3> QED
        BY <3>1, <3>2, Zenon
    <2>2. AddressList(x.list) /\ Consecutive(x.list)
      BY <2>1, RangeParsed
    <2> HIDE DEF x
    <2>3. AddressGroup(grp)
      BY <1>1, <2>2, GroupLonger
    <2>4. \A g \in 1 .. Len(grp) : Consecutive(grp[g].list)
      <3>1. /\ Len(c.sgrp) \in Nat /\ Len(grp) = Len(c.sgrp) + 1
            /\ \A i \in 1 .. Len(c.sgrp) : grp[i] = c.sgrp[i]
            /\ grp[Len(c.sgrp) + 1] = x
        BY <1>1, Longer DEF AddressGroup
      <3>2. \A g \in 1 .. Len(grp) : g \in 1 .. Len(c.sgrp) \/ g = Len(c.sgrp) + 1
        BY <3>1
      <3> QED
        BY <1>1, <2>2, <3>1, <3>2, Zenon
    <2> HIDE DEF grp
    <2>5. FieldOk("sgrp", grp)
      BY <2>3, <2>4, Zenon DEF FieldOk, NatFields
    <2> QED
      BY <1>2, <2>1, <2>5, SetOne DEF Fields, Paired
  <1> QED
    BY <1>3, <1>4

(* Two fields that fit together are set.                                   *)
LEMMA SetTwo ==
  ASSUME NEW c, Parsed(c), NEW f \in Fields, NEW g \in Fields \ {f}, NEW v, NEW w, FieldOk(f, v), FieldOk(g, w),
         NEW d, d = [[c EXCEPT ![f] = v] EXCEPT ![g] = w],
         Pacing(d.interval, d.reqnum), Listening(d.listen, d.listen_num), LocalPorts(d.lport_min, d.lport_max)
  PROVE  Parsed(d)
  <1>1. DOMAIN c = Fields /\ \A x \in Fields : FieldOk(x, c[x])
    BY DEF Parsed
  <1>2. DOMAIN d = Fields /\ d[f] = v /\ d[g] = w /\ \A x \in Fields : x # f /\ x # g => d[x] = c[x]
    BY <1>1, Zenon
  <1>3. \A x \in Fields : FieldOk(x, d[x])
    <2> TAKE x \in Fields
    <2>1. CASE x = f
      BY <1>2, <2>1, Zenon
    <2>2. CASE x = g
      BY <1>2, <2>2, Zenon
    <2>3. CASE x # f /\ x # g
      BY <1>1, <1>2, <2>3, Zenon
    <2> QED BY <2>1, <2>2, <2>3
  <1> QED
    BY <1>2, <1>3, Zenon DEF Parsed

(* The pairs of a configuration.                                           *)
LEMMA PairFacts ==
  ASSUME NEW c, Parsed(c)
  PROVE  /\ DOMAIN c = Fields
         /\ Pacing(c.interval, c.reqnum) /\ Listening(c.listen, c.listen_num)
         /\ LocalPorts(c.lport_min, c.lport_max)
  BY DEF Parsed

(* A plain number may be any.                                              *)
LEMMA NumberOk ==
  ASSUME NEW f \in NatFields, NEW v \in Nat
  PROVE  f \in Fields /\ FieldOk(f, v)
  <1>1. f \in Fields
    BY DEF Fields, NatFields
  <1>2. /\ f # "tx_burst" /\ f # "jumbo" /\ f # "rto" /\ f \notin {"server", "keepalive"}
        /\ f # "dips" /\ f # "ports" /\ f # "cgrp" /\ f # "sgrp" /\ f # "flow" /\ f # "interval"
    BY DEF NatFields
  <1> QED
    BY <1>1, <1>2, Zenon DEF FieldOk

(* listen                                                                  *)
LEMMA ListenHandler ==
  ASSUME NEW c, Parsed(c), NEW a, Numbered(a), NEW r, r # Error, r = ParseListen(c, a)
  PROVE  Parsed(r)
  <1> DEFINE l == ParseNumber(a[1], FALSE)
             n == ParseNumber(a[2], FALSE)
  <1>1. Len(a) = 2 /\ l > 0 /\ n > 0 /\ ToInt(l + n) < NETWORK_PORT_NUM - 1
        /\ r = [[c EXCEPT !["listen"] = l] EXCEPT !["listen_num"] = n]
    BY Zenon DEF ParseListen, OkIf
  <1>2. a[1].n \in Int /\ a[2].n \in Int
    BY <1>1 DEF Numbered
  <1>3. l \in Int /\ n \in Int
    BY <1>2, NumberInt
  <1> HIDE DEF l, n
  <1>4. l \in Nat /\ n \in Nat
    BY <1>1, <1>3
  <1>5. /\ "listen" \in Fields /\ "listen_num" \in Fields \ {"listen"}
        /\ FieldOk("listen", l) /\ FieldOk("listen_num", n)
    BY <1>4, NumberOk DEF NatFields
  <1>6. DOMAIN c = Fields
    BY PairFacts
  <1>7. /\ r.listen = l /\ r.listen_num = n /\ r.interval = c.interval /\ r.reqnum = c.reqnum
        /\ r.lport_min = c.lport_min /\ r.lport_max = c.lport_max
    BY <1>1, <1>6 DEF Fields
  <1>8. Listening(l, n)
    <2>1. l + n \in 0 .. INT_MAX => ToInt(l + n) = l + n
      BY <1>4, IntOf
    <2> QED
      BY <1>1, <1>4, <2>1, ConfigAssumption DEF Listening
  <1>9. /\ Pacing(r.interval, r.reqnum) /\ Listening(r.listen, r.listen_num)
        /\ LocalPorts(r.lport_min, r.lport_max)
    BY <1>7, <1>8, PairFacts, Zenon
  <1> QED
    BY <1>1, <1>5, <1>9, SetTwo, Zenon

(* client_port_range, lport_range                                          *)
LEMMA PortRangeHandler ==
  ASSUME NEW c, Parsed(c), NEW a, Numbered(a), NEW r, r # Error, r = ParseClientPortRange(c, a)
  PROVE  Parsed(r)
  <1> DEFINE l == Atoi(a[1])
             m == IF Len(a) = 2 THEN Atoi(a[2]) ELSE NETWORK_PORT_NUM - 1
  <1>1. /\ {l, m} \subseteq 1 .. NETWORK_PORT_NUM - 1 /\ l <= m
        /\ r = [[c EXCEPT !["lport_min"] = l] EXCEPT !["lport_max"] = m]
    BY Zenon DEF ParseClientPortRange, OkIf
  <1> HIDE DEF l, m
  <1>2. l \in Nat /\ m \in Nat /\ l > 0 /\ m > 0 /\ m < NETWORK_PORT_NUM
    BY <1>1, ConfigAssumption
  <1>3. /\ "lport_min" \in Fields /\ "lport_max" \in Fields \ {"lport_min"}
        /\ FieldOk("lport_min", l) /\ FieldOk("lport_max", m)
    BY <1>2, NumberOk DEF NatFields
  <1>4. DOMAIN c = Fields
    BY PairFacts
  <1>5. /\ r.listen = c.listen /\ r.listen_num = c.listen_num /\ r.interval = c.interval
        /\ r.reqnum = c.reqnum /\ r.lport_min = l /\ r.lport_max = m
    BY <1>1, <1>4 DEF Fields
  <1>6. LocalPorts(l, m)
    BY <1>1, <1>2 DEF LocalPorts
  <1>7. /\ Pacing(r.interval, r.reqnum) /\ Listening(r.listen, r.listen_num)
        /\ LocalPorts(r.lport_min, r.lport_max)
    BY <1>5, <1>6, PairFacts, Zenon
  <1> QED
    BY <1>1, <1>3, <1>7, SetTwo, Zenon

(* The interval in microseconds.                                           *)
LEMMA IntervalUnits ==
  ASSUME NEW x, x.n \in Int, KeepaliveInterval(x) # -1
  PROVE  /\ x.u \in {"us", "ms", "s"} /\ ~(Atoi(x) < 0)
         /\ KeepaliveInterval(x) = ToInt(Atoi(x) * KeepaliveRate(x.u)) % UINT64_NUM
         /\ x.u = "us" /\ Atoi(x) \in 2 .. 9 => Atoi(x) % 2 = 0
  BY Zenon DEF KeepaliveInterval

(* An int in a uint64_t: a negative one becomes huge.                      *)
LEMMA SignExtended ==
  ASSUME NEW v \in Int, -INT_MAX - 1 <= v, v <= INT_MAX
  PROVE  /\ v % UINT64_NUM \in Nat
         /\ v % UINT64_NUM < 10 => v % UINT64_NUM = v
  <1> DEFINE m == UINT64_NUM
             r == v % m
             q == v \div m
  <1>1. m \in Nat \ {0} /\ m >= 2 * (INT_MAX + 1) /\ INT_MAX \in Nat /\ INT_MAX >= 32767
    BY ConfigAssumption
  <1> HIDE DEF m
  <1>2. q \in Int /\ r \in 0 .. m - 1 /\ v = m * q + r
    BY <1>1
  <1> HIDE DEF q, r
  <1>3. ASSUME q <= -1, r < 10 PROVE FALSE
    <2>1. m * q <= -m
      <3>1. m * (q + 1) <= 0
        BY <1>1, <1>2, <1>3
      <3>2. m * (q + 1) = m * q + m /\ m * q \in Int
        BY <1>1, <1>2
      <3> QED
        BY <1>1, <3>1, <3>2
    <2> DEFINE p == m * q
    <2>2. p \in Int
      BY <1>1, <1>2
    <2> HIDE DEF p
    <2> QED
      BY <1>1, <1>2, <1>3, <2>1, <2>2 DEF p
  <1>4. ASSUME q >= 1 PROVE FALSE
    <2>1. m * q >= m
      <3>1. m * (q - 1) >= 0
        BY <1>1, <1>2, <1>4
      <3>2. m * (q - 1) = m * q - m /\ m * q \in Int
        BY <1>1, <1>2
      <3> QED
        BY <1>1, <3>1, <3>2
    <2> DEFINE p == m * q
    <2>2. p \in Int
      BY <1>1, <1>2
    <2> HIDE DEF p
    <2> QED
      BY <1>1, <1>2, <2>1, <2>2 DEF p
  <1>5. q = 0 => r = v
    BY <1>1, <1>2
  <1>6. r < 10 => r = v
    BY <1>2, <1>3, <1>4, <1>5
  <1> QED
    BY <1>2, <1>6 DEF r, m

(* A keepalive interval that is accepted: below 10 microseconds it is even *)
(* or 1, because a product with an even rate stays even when it wraps.     *)
LEMMA IntervalParsed ==
  ASSUME NEW x, x.n \in Int, KeepaliveInterval(x) >= 0
  PROVE  Interval(KeepaliveInterval(x))
  <1> DEFINE val == Atoi(x)
             u   == KeepaliveRate(x.u)
             v   == ToInt(val * u)
             us  == KeepaliveInterval(x)
  <1>1. KeepaliveInterval(x) # -1
    OBVIOUS
  <1>2. /\ x.u \in {"us", "ms", "s"} /\ ~(val < 0) /\ us = v % UINT64_NUM
        /\ x.u = "us" /\ val \in 2 .. 9 => val % 2 = 0
    BY <1>1, IntervalUnits, Zenon
  <1>3. val \in Int /\ val <= INT_MAX
    BY IntOf DEF Atoi
  <1>4. \/ x.u = "us" /\ u = 1
        \/ u = 1000 \/ u = 1000000
    BY <1>2, SMT DEF KeepaliveRate, KILO, MEGA
  <1> HIDE DEF val, u
  <1>5. val * u \in Int
    BY <1>3, <1>4
  <1>6. /\ v \in Int /\ -INT_MAX - 1 <= v /\ v <= INT_MAX
        /\ \E q \in Int : v = val * u - 2 * q
        /\ val * u \in 0 .. INT_MAX => v = val * u
    BY <1>5, IntOf
  <1> HIDE DEF v, us
  <1>7. us \in Nat /\ (us < 10 => us = v)
    BY <1>2, <1>6, SignExtended
  <1>8. ASSUME us < 10 PROVE us \in {0, 1, 2, 4, 6, 8}
    <2>1. CASE x.u = "us" /\ u = 1
      <3>1. v = val
        BY <1>2, <1>3, <1>6, <2>1, ConfigAssumption
      <3> QED
        BY <1>2, <1>3, <1>7, <1>8, <2>1, <3>1
    <2>2. CASE u = 1000 \/ u = 1000000
      <3>1. PICK q \in Int : v = val * u - 2 * q
        BY <1>6
      <3>2. \E k \in Int : v = 2 * k
        <4>1. CASE u = 1000
          <5>1. v = 2 * (500 * val - q) /\ 500 * val - q \in Int
            BY <1>3, <3>1, <4>1
          <5> QED
            BY <5>1
        <4>2. CASE u = 1000000
          <5>1. v = 2 * (500000 * val - q) /\ 500000 * val - q \in Int
            BY <1>3, <3>1, <4>2
          <5> QED
            BY <5>1
        <4> QED
          BY <2>2, <4>1, <4>2
      <3> QED
        BY <1>7, <1>8, <3>2
    <2> QED
      BY <1>4, <2>1, <2>2
  <1>9. Interval(us)
    BY <1>7, <1>8 DEF Interval
  <1> QED
    BY <1>9, Zenon DEF us

(* keepalive                                                               *)
LEMMA KeepaliveHandler ==
  ASSUME NEW c, Parsed(c), NEW a, Numbered(a), NEW r, r # Error, r = ParseKeepalive(c, a)
  PROVE  Parsed(r)
  <1> DEFINE us == KeepaliveInterval(a[1])
             n  == IF Len(a) = 2 THEN KeepaliveNum(a[2]) ELSE c.reqnum
             b  == [c EXCEPT !["keepalive"] = TRUE]
  <1>1. /\ Len(a) \in {1, 2} /\ us >= 0 /\ n >= 0 /\ ~(us = 0 /\ n # 0)
        /\ r = [[b EXCEPT !["interval"] = us] EXCEPT !["reqnum"] = n]
    BY Zenon DEF ParseKeepalive, OkIf
  <1>2. a[1].n \in Int /\ (Len(a) = 2 => a[2].n \in Int)
    BY <1>1 DEF Numbered
  <1>3. Interval(us)
    BY <1>1, <1>2, IntervalParsed
  <1>4. n \in Nat
    <2>1. ASSUME Len(a) = 2 PROVE KeepaliveNum(a[2]) \in Int
      <3> DEFINE p == ParseNumber(a[2], TRUE)
      <3>1. p \in Int
        BY <1>2, <2>1, NumberInt
      <3>2. KeepaliveNum(a[2]) = IF p <= 32767 THEN p ELSE -1
        BY Z3 DEF KeepaliveNum
      <3> HIDE DEF p
      <3> QED
        BY <3>1, <3>2
    <2>2. c.reqnum \in Nat
      BY FieldFacts
    <2> QED
      BY <1>1, <2>1, <2>2
  <1>5. Parsed(b)
    <2>1. FieldOk("keepalive", TRUE)
      BY DEF FieldOk, NatFields
    <2> QED
      BY <2>1, SetOne DEF Fields, Paired
  <1> HIDE DEF us, n, b
  <1>6. /\ "interval" \in Fields /\ "reqnum" \in Fields \ {"interval"}
        /\ FieldOk("interval", us) /\ FieldOk("reqnum", n)
    <2>1. FieldOk("interval", us)
      BY <1>3, Zenon DEF FieldOk, NatFields
    <2> QED
      BY <1>4, <2>1, NumberOk DEF NatFields, Fields
  <1>7. DOMAIN b = Fields
    BY <1>5, PairFacts
  <1>8. /\ r.listen = b.listen /\ r.listen_num = b.listen_num /\ r.interval = us
        /\ r.reqnum = n /\ r.lport_min = b.lport_min /\ r.lport_max = b.lport_max
    BY <1>1, <1>7 DEF Fields
  <1>9. Pacing(us, n)
    BY <1>1 DEF Pacing
  <1>10. /\ Pacing(r.interval, r.reqnum) /\ Listening(r.listen, r.listen_num)
         /\ LocalPorts(r.lport_min, r.lport_max)
    BY <1>5, <1>8, <1>9, PairFacts, Zenon
  <1> QED
    BY <1>1, <1>5, <1>6, <1>10, SetTwo, Zenon

(* cpu                                                                     *)
LEMMA CpuHandler ==
  ASSUME NEW c, Parsed(c), NEW a, Len(a) \in Nat, NEW r, r # Error, r = ParseCpu(c, a),
         \A i \in 1 .. Len(a) : a[i].lo \in Int /\ a[i].hi \in Int
  PROVE  Parsed(r)
  <1> DEFINE F    == {ToInt(a[i].lo) .. ToInt(a[i].hi) : i \in 1 .. Len(a)}
             cpus == UNION F
  <1>1. r = [c EXCEPT !["cpu_num"] = Cardinality(cpus)]
    BY Zenon DEF ParseCpu, OkIf
  <1>2. IsFiniteSet(F)
    <2> DEFINE I == [i \in 1 .. Len(a) |-> ToInt(a[i].lo) .. ToInt(a[i].hi)]
    <2>1. IsFiniteSet(1 .. Len(a))
      BY FS_Interval
    <2> HIDE DEF I, F
    <2>3. I \in Surjection(1 .. Len(a), F)
      <3>1. I \in [1 .. Len(a) -> F] /\ \A t \in F : \E i \in 1 .. Len(a) : I[i] = t
        BY Zenon DEF I, F
      <3> QED
        BY <3>1 DEF Surjection
    <2> QED
      BY <2>1, <2>3, FS_Surjection
  <1>3. \A s \in F : IsFiniteSet(s)
    <2> TAKE s \in F
    <2>1. PICK i \in 1 .. Len(a) : s = ToInt(a[i].lo) .. ToInt(a[i].hi)
      BY Zenon
    <2>2. ToInt(a[i].lo) \in Int /\ ToInt(a[i].hi) \in Int
      BY IntOf
    <2>3. IsFiniteSet(ToInt(a[i].lo) .. ToInt(a[i].hi))
      BY <2>2, FS_Interval
    <2> QED
      BY <2>1, <2>3, Zenon
  <1> HIDE DEF F
  <1>4. Cardinality(cpus) \in Nat
    BY <1>2, <1>3, FS_UNION, FS_CardinalityType
  <1> HIDE DEF cpus
  <1>5. "cpu_num" \in NatFields \ Paired
    BY DEF NatFields, Paired
  <1> DEFINE n == Cardinality(cpus)
  <1>6. r = [c EXCEPT !["cpu_num"] = n] /\ n \in Nat
    BY <1>1, <1>4
  <1> HIDE DEF n
  <1>7. Parsed([c EXCEPT !["cpu_num"] = n])
    BY <1>5, <1>6, SetNumber
  <1> QED
    BY <1>6, <1>7

(* change_dip                                                              *)
LEMMA ChangeDipHandler ==
  ASSUME NEW c, Parsed(c), NEW a, NEW r, r # Error, r = ParseChangeDip(c, a),
         Len(a) = 3 => a[2].n \in Int /\ a[3].n \in Int
  PROVE  Parsed(r)
  <1> DEFINE n == Atoi(a[3])
             l == IpListAdd(c.dips, a[1].af, n)
  <1>1. \/ r = c
        \/ Len(a) = 3 /\ ~(n < 0) /\ l # Error /\ r = [c EXCEPT !["dips"] = l]
    BY Zenon DEF ParseChangeDip, OkIf
  <1>2. CASE r = c
    BY <1>2
  <1>3. CASE Len(a) = 3 /\ ~(n < 0) /\ l # Error /\ r = [c EXCEPT !["dips"] = l]
    <2>1. n \in Int
      BY <1>3, IntOf DEF Atoi
    <2> HIDE DEF n
    <2>2. l.num = c.dips.num + n
      BY <1>3 DEF IpListAdd, OkIf
    <2>3. c.dips.num \in Nat
      BY FieldFacts
    <2>4. l.num \in Nat
      BY <1>3, <2>1, <2>2, <2>3
    <2> HIDE DEF l
    <2>5. FieldOk("dips", l)
      BY <2>4, Zenon DEF FieldOk, NatFields
    <2>6. "dips" \in Fields \ Paired
      BY DEF Fields, Paired
    <2>7. Parsed([c EXCEPT !["dips"] = l])
      BY <2>5, <2>6, SetOne
    <2> QED
      BY <1>3, <2>7
  <1> QED
    BY <1>1, <1>2, <1>3

(* Whatever line is read, the configuration stays one that lines may make. *)
LEMMA KeywordKeeps ==
  ASSUME NEW c, Parsed(c), NEW l, WellFormed(l), NEW r, r # Error, r = KeywordCall(c, l.k, l.a)
  PROVE  Parsed(r)
  <1> DEFINE k == l.k
             a == l.a
  <1>1. r = KeywordCall(c, k, a) /\ Len(a) \in Nat
    BY DEF WellFormed
  <1>2. k \in NumberKeywords => Numbered(a)
    BY DEF WellFormed, Numbered
  <1>3. k = "cpu" => \A i \in 1 .. Len(a) : a[i].lo \in Int /\ a[i].hi \in Int
    BY DEF WellFormed
  <1>4. k \in {"client", "server"} => Addressed(a)
    BY DEF WellFormed, Addressed
  <1>5. k = "change_dip" /\ Len(a) = 3 => a[2].n \in Int /\ a[3].n \in Int
    BY DEF WellFormed
  <1> HIDE DEF k, a
  <1>6. CASE k \in {"flood", "payload_random", "quiet", "client_hop", "simd512", "fast_close",
                 "clear_screen", "disable_ack", "neigh_ignore", "flow_isolate"}
    <2>1. \E f : r = SetFlag(c, a, f)
      BY <1>1, <1>6, ZenonT(60)
      DEF KeywordCall, ParseFlood, ParsePayloadRandom, ParseQuiet, ParseClientHop, ParseSimd512,
          ParseFastClose, ParseClearScreen, ParseDisableAck, ParseNeighIgnore, ParseFlowIsolate
    <2> QED
      BY <2>1, FreeHandlers, Zenon
  <1>7. CASE k \in {"socket_mem", "payload_file", "kni"}
    <2>1. \E f, good : r = SetString(c, good, f)
      BY <1>1, <1>7, ZenonT(60) DEF KeywordCall, ParseSocketMem, ParsePayloadFile, ParseKni
    <2> QED
      BY <2>1, FreeHandlers, Zenon
  <1>8. CASE k \in {"packet_size", "protocol", "daemon", "http_host", "http_path", "payload_size",
                 "send_window", "vlan", "tos", "tcp_rst", "http_method", "log_level",
                 "launch_num", "vxlan"}
    <2>1. \/ r = ParsePacketSize(c, a)
          \/ r = ParseProtocol(c, a)
          \/ r = ParseDaemon(c)
          \/ r = ParseHttpHost(c, a)
          \/ r = ParseHttpPath(c, a)
          \/ r = ParsePayloadSize(c, a)
          \/ r = ParseSendWindow(c, a)
          \/ r = ParseVlan(c, a)
          \/ r = ParseTos(c, a)
          \/ r = ParseTcpRst(c, a)
          \/ r = ParseHttpMethod(c, a)
          \/ r = ParseLogLevel(c, a)
          \/ r = ParseLaunchNum(c, a)
          \/ r = ParseVxlan(c, a)
      BY <1>1, <1>8, ZenonT(60) DEF KeywordCall
    <2> QED
      BY <2>1, FreeHandlers, Zenon
  <1>9. CASE k \in {"cps", "cc", "slow_start", "wait", "mss", "pipeline", "duration"}
    <2>1. \/ r = ParseCps(c, a)
          \/ r = ParseCc(c, a)
          \/ r = ParseSlowStart(c, a)
          \/ r = ParseWait(c, a)
          \/ r = ParseMss(c, a)
          \/ r = ParsePipeline(c, a)
          \/ r = ParseDuration(c, a)
      BY <1>1, <1>9, ZenonT(60) DEF KeywordCall
    <2>2. Numbered(a)
      BY <1>2, <1>9 DEF NumberKeywords
    <2> QED
      BY <2>1, <2>2, NumberHandlers, Zenon
  <1>10. CASE k \in {"tx_burst", "jumbo", "retransmit_timeout"}
    <2>1. \/ r = ParseTxBurst(c, a)
          \/ r = ParseJumbo(c, a)
          \/ r = ParseRetransmitTimeout(c, a)
      BY <1>1, <1>10, ZenonT(60) DEF KeywordCall
    <2>2. Numbered(a)
      BY <1>2, <1>10 DEF NumberKeywords
    <2> QED
      BY <2>1, <2>2, ChoiceHandlers, Zenon
  <1>11. CASE k \in {"mode", "rss", "port"}
    <2>1. \/ r = ParseMode(c, a)
          \/ r = ParseRss(c)
          \/ r = ParsePort(c, a)
      BY <1>1, <1>11, ZenonT(60) DEF KeywordCall
    <2> QED
      BY <2>1, ChoiceHandlers, Zenon
  <1>12. CASE k \in {"client", "server"}
    <2>1. \/ r = ParseClient(c, a)
          \/ r = ParseServer(c, a)
      BY <1>1, <1>12, ZenonT(60) DEF KeywordCall
    <2> QED
      BY <1>4, <1>12, <2>1, AddressHandlers, Zenon
  <1>13. CASE k \in {"listen", "lport_range", "client_port_range", "keepalive"}
    <2>1. \/ r = ParseListen(c, a)
          \/ r = ParseClientPortRange(c, a)
          \/ r = ParseKeepalive(c, a)
      BY <1>1, <1>13, ZenonT(60) DEF KeywordCall, ParseLportRange
    <2>2. Numbered(a)
      BY <1>2, <1>13 DEF NumberKeywords
    <2> QED
      BY <2>1, <2>2, ListenHandler, PortRangeHandler, KeepaliveHandler, Zenon
  <1>14. CASE k = "cpu"
    BY <1>1, <1>3, <1>14, CpuHandler, Zenon DEF KeywordCall
  <1>15. CASE k = "change_dip"
    BY <1>1, <1>5, <1>15, ChangeDipHandler, Zenon DEF KeywordCall
  <1>16. CASE k \notin {"flood", "payload_random", "quiet", "client_hop", "simd512", "fast_close",
                   "clear_screen", "disable_ack", "neigh_ignore", "flow_isolate", "socket_mem",
                   "payload_file", "kni", "packet_size", "protocol", "daemon", "http_host",
                   "http_path", "payload_size", "send_window", "vlan", "tos", "tcp_rst",
                   "http_method", "log_level", "launch_num", "vxlan", "cps", "cc", "slow_start",
                   "wait", "mss", "pipeline", "duration", "tx_burst", "jumbo", "retransmit_timeout",
                   "mode", "rss", "port", "client", "server", "listen", "lport_range",
                   "client_port_range", "keepalive", "cpu", "change_dip"}
    <2>1. r = Error
      BY <1>1, <1>16, ZenonT(60) DEF KeywordCall
    <2> QED
      BY <2>1
  <1> QED
    BY <1>6, <1>7, <1>8, <1>9, <1>10, <1>11, <1>12, <1>13, <1>14, <1>15, <1>16, Zenon
-----------------------------------------------------------------------------
(* What the checks establish, each under the name of its subject.          *)
Basics(c) == c.mss > 0 /\ c.rto >= 2 /\ c.duration > 0

Listens(c) == c.listen > 0 /\ c.listen_num > 0 /\ Listening(c.listen, c.listen_num)

Keeps(c) ==
    /\ c.server => c.reqnum = 0
    /\ ~c.server /\ c.cc > 0 => c.keepalive
    /\ ~c.server /\ c.keepalive /\ c.interval > 0 => c.interval >= TwoTicks(c.ticks)

Pipes(c) == c.pipeline > 0 => ~c.server /\ c.keepalive /\ ("flood" \in c.flags \/ c.interval = 0)

Waits(c) == ~c.server => c.wait > 0

Slows(c) == ~c.server => c.slow_start > 0

(* The last two bytes of the clients' addresses differ.                    *)
GroupApart(grp) ==
    \A x, y \in Members(grp) :
        x # y => Low2Byte(grp[x[1]].list[x[2]]) # Low2Byte(grp[y[1]].list[y[2]])

Apart(c) == GroupApart(c.cgrp)

Queues(c) ==
    /\ c.cpu_num > 0 /\ Len(c.ports) > 0 /\ c.queue_num \in Nat \ {0}
    /\ c.queue_num * Len(c.ports) = c.cpu_num

Ranges(c) ==
    /\ Len(c.cgrp) > 0 /\ Len(c.sgrp) = Len(c.ports)
    /\ ~c.server => Len(c.cgrp) = Len(c.ports)

Flows(c) ==
    /\ c.flow = "none" => c.cpu_num = Len(c.ports)
    /\ c.flow = "fdir" => \A p \in 1 .. Len(c.ports) : Len(c.sgrp[p].list) = c.queue_num

Dips(c) == c.dips.num = 0 \/ c.dips.num >= c.cpu_num

Bursts(c) == c.tx_burst \in 1 .. 255

Locals(c) == 1 <= c.lport_min /\ c.lport_min <= c.lport_max /\ c.lport_max < NETWORK_PORT_NUM

Targets(c) ==
    /\ c.server => "flood" \notin c.flags
    /\ ~c.server =>
         /\ c.cps > 0
         /\ \A w \in 0 .. c.cpu_num - 1 : GetTotalSocketNum(c, w) >= c.rto * (c.cps \div c.cpu_num)

(* The configuration before check i of config_parse.                       *)
Checked(c, i) ==
    /\ i > 1 => Basics(c)
    /\ i > 2 => Listens(c) /\ Keeps(c)
    /\ i > 3 => Pipes(c)
    /\ i > 5 => Waits(c)
    /\ i > 6 => Slows(c)
    /\ i > 7 => Apart(c)
    /\ i > 12 => Queues(c)
    /\ i > 16 => Ranges(c)
    /\ i > 17 => Flows(c)
    /\ i > 18 => Dips(c)
    /\ i > 19 => Bursts(c)
    /\ i > 21 => Locals(c)
    /\ i > 22 => Targets(c)

(* The fields these are about.                                             *)
CoreFields ==
    {"mss", "rto", "duration", "listen", "listen_num", "server", "reqnum", "cc", "keepalive",
     "interval", "ticks", "pipeline", "flags", "wait", "slow_start", "cpu_num", "ports", "queue_num",
     "cgrp", "sgrp", "flow", "dips", "tx_burst", "lport_min", "lport_max", "cps"}

(* Two configurations agree on those outside S.                            *)
Agree(c, r, S) == \A f \in CoreFields \ S : r[f] = c[f]

(* What a step that leaves a subject's fields alone keeps.                 *)
LEMMA Carry ==
  ASSUME NEW c, NEW r, NEW S, Agree(c, r, S)
  PROVE  /\ {"mss", "rto", "duration"} \cap S = {} /\ Basics(c) => Basics(r)
         /\ {"listen", "listen_num"} \cap S = {} /\ Listens(c) => Listens(r)
         /\ {"server", "reqnum", "cc", "keepalive", "interval", "ticks"} \cap S = {} /\ Keeps(c) => Keeps(r)
         /\ {"pipeline", "server", "keepalive", "flags", "interval"} \cap S = {} /\ Pipes(c) => Pipes(r)
         /\ {"server", "wait"} \cap S = {} /\ Waits(c) => Waits(r)
         /\ {"server", "slow_start"} \cap S = {} /\ Slows(c) => Slows(r)
         /\ {"cgrp"} \cap S = {} /\ Apart(c) => Apart(r)
         /\ {"cpu_num", "ports", "queue_num"} \cap S = {} /\ Queues(c) => Queues(r)
         /\ {"server", "cgrp", "sgrp", "ports"} \cap S = {} /\ Ranges(c) => Ranges(r)
         /\ {"flow", "cpu_num", "ports", "sgrp", "queue_num"} \cap S = {} /\ Flows(c) => Flows(r)
         /\ {"dips", "cpu_num"} \cap S = {} /\ Dips(c) => Dips(r)
         /\ {"tx_burst"} \cap S = {} /\ Bursts(c) => Bursts(r)
         /\ {"lport_min", "lport_max"} \cap S = {} /\ Locals(c) => Locals(r)
  <1>1. ASSUME {"mss", "rto", "duration"} \cap S = {}, Basics(c) PROVE Basics(r)
    <2>1. r["mss"] = c["mss"] /\ r["rto"] = c["rto"] /\ r["duration"] = c["duration"]
      BY <1>1 DEF Agree, CoreFields
    <2>2. r.mss = c.mss /\ r.rto = c.rto /\ r.duration = c.duration
      BY <2>1, Zenon
    <2> QED
      BY <1>1, <2>2, Zenon DEF Basics
  <1>2. ASSUME {"listen", "listen_num"} \cap S = {}, Listens(c) PROVE Listens(r)
    <2>1. r["listen"] = c["listen"] /\ r["listen_num"] = c["listen_num"]
      BY <1>2 DEF Agree, CoreFields
    <2>2. r.listen = c.listen /\ r.listen_num = c.listen_num
      BY <2>1, Zenon
    <2> QED
      BY <1>2, <2>2, Zenon DEF Listens
  <1>3. ASSUME {"server", "reqnum", "cc", "keepalive", "interval", "ticks"} \cap S = {}, Keeps(c) PROVE Keeps(r)
    <2>1. /\ r["server"] = c["server"] /\ r["reqnum"] = c["reqnum"] /\ r["cc"] = c["cc"]
          /\ r["keepalive"] = c["keepalive"] /\ r["interval"] = c["interval"] /\ r["ticks"] = c["ticks"]
      BY <1>3 DEF Agree, CoreFields
    <2>2. /\ r.server = c.server /\ r.reqnum = c.reqnum /\ r.cc = c.cc /\ r.keepalive = c.keepalive
          /\ r.interval = c.interval /\ r.ticks = c.ticks
      BY <2>1, Zenon
    <2> QED
      BY <1>3, <2>2, Zenon DEF Keeps
  <1>4. ASSUME {"pipeline", "server", "keepalive", "flags", "interval"} \cap S = {}, Pipes(c) PROVE Pipes(r)
    <2>1. /\ r["pipeline"] = c["pipeline"] /\ r["server"] = c["server"]
          /\ r["keepalive"] = c["keepalive"] /\ r["flags"] = c["flags"] /\ r["interval"] = c["interval"]
      BY <1>4 DEF Agree, CoreFields
    <2>2. /\ r.pipeline = c.pipeline /\ r.server = c.server /\ r.keepalive = c.keepalive
          /\ r.flags = c.flags /\ r.interval = c.interval
      BY <2>1, Zenon
    <2> QED
      BY <1>4, <2>2, Zenon DEF Pipes
  <1>5. ASSUME {"server", "wait"} \cap S = {}, Waits(c) PROVE Waits(r)
    <2>1. r["server"] = c["server"] /\ r["wait"] = c["wait"]
      BY <1>5 DEF Agree, CoreFields
    <2>2. r.server = c.server /\ r.wait = c.wait
      BY <2>1, Zenon
    <2> QED
      BY <1>5, <2>2, Zenon DEF Waits
  <1>6. ASSUME {"server", "slow_start"} \cap S = {}, Slows(c) PROVE Slows(r)
    <2>1. r["server"] = c["server"] /\ r["slow_start"] = c["slow_start"]
      BY <1>6 DEF Agree, CoreFields
    <2>2. r.server = c.server /\ r.slow_start = c.slow_start
      BY <2>1, Zenon
    <2> QED
      BY <1>6, <2>2, Zenon DEF Slows
  <1>7. ASSUME {"cgrp"} \cap S = {}, Apart(c) PROVE Apart(r)
    <2>1. r["cgrp"] = c["cgrp"]
      BY <1>7 DEF Agree, CoreFields
    <2>2. r.cgrp = c.cgrp
      BY <2>1, Zenon
    <2> QED
      BY <1>7, <2>2, Zenon DEF Apart
  <1>8. ASSUME {"cpu_num", "ports", "queue_num"} \cap S = {}, Queues(c) PROVE Queues(r)
    <2>1. r["cpu_num"] = c["cpu_num"] /\ r["ports"] = c["ports"] /\ r["queue_num"] = c["queue_num"]
      BY <1>8 DEF Agree, CoreFields
    <2>2. r.cpu_num = c.cpu_num /\ r.ports = c.ports /\ r.queue_num = c.queue_num
      BY <2>1, Zenon
    <2> QED
      BY <1>8, <2>2, Zenon DEF Queues
  <1>9. ASSUME {"server", "cgrp", "sgrp", "ports"} \cap S = {}, Ranges(c) PROVE Ranges(r)
    <2>1. r["server"] = c["server"] /\ r["cgrp"] = c["cgrp"] /\ r["sgrp"] = c["sgrp"] /\ r["ports"] = c["ports"]
      BY <1>9 DEF Agree, CoreFields
    <2>2. r.server = c.server /\ r.cgrp = c.cgrp /\ r.sgrp = c.sgrp /\ r.ports = c.ports
      BY <2>1, Zenon
    <2> QED
      BY <1>9, <2>2, Zenon DEF Ranges
  <1>10. ASSUME {"flow", "cpu_num", "ports", "sgrp", "queue_num"} \cap S = {}, Flows(c) PROVE Flows(r)
    <2>1. /\ r["flow"] = c["flow"] /\ r["cpu_num"] = c["cpu_num"] /\ r["ports"] = c["ports"]
          /\ r["sgrp"] = c["sgrp"] /\ r["queue_num"] = c["queue_num"]
      BY <1>10 DEF Agree, CoreFields
    <2>2. /\ r.flow = c.flow /\ r.cpu_num = c.cpu_num /\ r.ports = c.ports /\ r.sgrp = c.sgrp
          /\ r.queue_num = c.queue_num
      BY <2>1, Zenon
    <2> QED
      BY <1>10, <2>2, Zenon DEF Flows
  <1>11. ASSUME {"dips", "cpu_num"} \cap S = {}, Dips(c) PROVE Dips(r)
    <2>1. r["dips"] = c["dips"] /\ r["cpu_num"] = c["cpu_num"]
      BY <1>11 DEF Agree, CoreFields
    <2>2. r.dips = c.dips /\ r.cpu_num = c.cpu_num
      BY <2>1, Zenon
    <2> QED
      BY <1>11, <2>2, Zenon DEF Dips
  <1>12. ASSUME {"tx_burst"} \cap S = {}, Bursts(c) PROVE Bursts(r)
    <2>1. r["tx_burst"] = c["tx_burst"]
      BY <1>12 DEF Agree, CoreFields
    <2>2. r.tx_burst = c.tx_burst
      BY <2>1, Zenon
    <2> QED
      BY <1>12, <2>2, Zenon DEF Bursts
  <1>13. ASSUME {"lport_min", "lport_max"} \cap S = {}, Locals(c) PROVE Locals(r)
    <2>1. r["lport_min"] = c["lport_min"] /\ r["lport_max"] = c["lport_max"]
      BY <1>13 DEF Agree, CoreFields
    <2>2. r.lport_min = c.lport_min /\ r.lport_max = c.lport_max
      BY <2>1, Zenon
    <2> QED
      BY <1>13, <2>2, Zenon DEF Locals
  <1> QED
    BY <1>1, <1>2, <1>3, <1>4, <1>5, <1>6, <1>7, <1>8, <1>9, <1>10, <1>11, <1>12, <1>13, SMT

(* Setting one field leaves the others alone.                              *)
LEMMA AgreeOne ==
  ASSUME NEW c, NEW f, NEW v, NEW r, r = [c EXCEPT ![f] = v], DOMAIN c = Fields, f \in Fields
  PROVE  Agree(c, r, {f}) /\ r[f] = v /\ DOMAIN r = Fields
  <1>1. CoreFields \subseteq Fields
    BY DEF CoreFields, Fields
  <1>2. r[f] = v /\ DOMAIN r = Fields /\ \A g \in Fields : g # f => r[g] = c[g]
    BY Zenon
  <1> QED
    BY <1>1, <1>2, Zenon DEF Agree

(* Two steps, one after the other.                                         *)
LEMMA AgreeTwo ==
  ASSUME NEW c, NEW d, NEW r, NEW S, NEW T, Agree(c, d, S), Agree(d, r, T)
  PROVE  Agree(c, r, S \cup T)
  BY Zenon DEF Agree
-----------------------------------------------------------------------------
(* mss, the retransmit timeout and the duration.                           *)
LEMMA Check1 ==
  ASSUME NEW c, Parsed(c), NEW r, r # Error, r = CheckMss(ParseDefaults(c))
  PROVE  Parsed(r) /\ Checked(r, 2)
  <1> DEFINE rto == Or(c.rto, 2)
             dur == Or(c.duration, 60)
             c1  == [c EXCEPT !["rto"] = rto]
  <1>1. PICK v, p : ParseDefaults(c) =
            [[[c1 EXCEPT !["log_level"] = v] EXCEPT !["duration"] = dur] EXCEPT !["protocol"] = p]
    BY Zenon DEF ParseDefaults
  <1> DEFINE c2 == [c1 EXCEPT !["log_level"] = v]
             c3 == [c2 EXCEPT !["duration"] = dur]
             d  == [c3 EXCEPT !["protocol"] = p]
  <1>2. rto \in Nat /\ rto >= 2 /\ dur \in Nat /\ dur > 0
    <2>1. c.rto \in Nat /\ c.rto # 1 /\ c.duration \in Nat
      BY FieldFacts
    <2> QED
      BY <2>1, SMT DEF Or
  <1>3. Parsed(c1)
    <2>1. FieldOk("rto", rto)
      BY <1>2, SMT DEF FieldOk, NatFields
    <2> QED
      BY <2>1, SetOne DEF Fields, Paired
  <1> HIDE DEF rto, dur
  <1>4. DOMAIN c = Fields
    BY PairFacts
  <1>5. c1.rto = rto
    BY <1>4 DEF Fields
  <1> HIDE DEF c1
  <1>6. Parsed(c2)
    BY <1>3, SetFree DEF Free
  <1>7. DOMAIN c1 = Fields
    BY <1>3, PairFacts
  <1>8. c2.rto = rto
    BY <1>5, <1>7 DEF Fields
  <1> HIDE DEF c2
  <1>9. Parsed(c3)
    BY <1>2, <1>6, SetNumber DEF NatFields, Paired
  <1>10. DOMAIN c2 = Fields
    BY <1>6, PairFacts
  <1>11. c3.rto = rto /\ c3.duration = dur
    BY <1>8, <1>10 DEF Fields
  <1> HIDE DEF c3
  <1>12. Parsed(d)
    BY <1>9, SetFree DEF Free
  <1>13. DOMAIN c3 = Fields
    BY <1>9, PairFacts
  <1>14. d.rto = rto /\ d.duration = dur /\ ParseDefaults(c) = d
    BY <1>1, <1>11, <1>13 DEF Fields, c2, c3
  <1> HIDE DEF d
  <1> DEFINE m == IF d.mss = 0 THEN MssMax(d) ELSE d.mss
  <1>15. r = [d EXCEPT !["mss"] = m]
    BY <1>14, Zenon DEF CheckMss, OkIf
  <1>16. m \in Nat /\ m > 0
    <2>1. d.mss \in Nat /\ d.jumbo \in Nat /\ (d.jumbo # 0 => d.jumbo > 60)
      BY <1>12, FieldFacts
    <2> QED
      BY <2>1, SMT DEF MssMax
  <1> HIDE DEF m
  <1>17. Parsed(r)
    <2>1. Parsed([d EXCEPT !["mss"] = m])
      BY <1>12, <1>16, SetNumber DEF NatFields, Paired
    <2> QED
      BY <1>15, <2>1
  <1>18. DOMAIN d = Fields
    BY <1>12, PairFacts
  <1>19. r.rto = rto /\ r.duration = dur /\ r.mss = m
    BY <1>14, <1>15, <1>18 DEF Fields
  <1>20. Basics(r)
    BY <1>2, <1>16, <1>19 DEF Basics
  <1> QED
    BY <1>17, <1>20 DEF Checked

(* The ticks of a keepalive interval: two or more.                         *)
LEMMA TicksFit ==
  ASSUME NEW us, Interval(us), us > 0
  PROVE  us >= TwoTicks(TicksPerSec(us))
  <1> DEFINE t == TicksPerSec(us)
  <1>1. us \in Nat /\ (us < 10 => us \in {1, 2, 4, 6, 8})
    BY DEF Interval
  <1>2. CASE us = 1
    <2>1. t = 2000000
      BY <1>2, SMT DEF TicksPerSec
    <2> QED BY <1>2, <2>1, SMT DEF TwoTicks
  <1>3. CASE us = 2
    <2>1. t = 1000000
      BY <1>3, SMT DEF TicksPerSec
    <2> QED BY <1>3, <2>1, SMT DEF TwoTicks
  <1>4. CASE us < 10 /\ us > 2
    <2>1. t = 500000
      BY <1>1, <1>4, SMT DEF TicksPerSec
    <2> QED BY <1>1, <1>4, <2>1, SMT DEF TwoTicks
  <1>5. CASE us \in 10 .. 49
    <2>1. us # 1 /\ us # 2 /\ ~(us < 10) /\ us \notin 50 .. 99 /\ us \notin 100 .. 499
      BY <1>5, SMT
    <2>2. t = 200000
      BY <1>5, <2>1, SMT DEF TicksPerSec
    <2> QED BY <1>5, <2>2, SMT DEF TwoTicks
  <1>6. CASE us \in 50 .. 99
    <2>1. us # 1 /\ us # 2 /\ ~(us < 10) /\ us \notin 10 .. 49 /\ us \notin 100 .. 499
      BY <1>6, SMT
    <2>2. t = 100000
      BY <1>6, <2>1, SMT DEF TicksPerSec
    <2> QED BY <1>6, <2>2, SMT DEF TwoTicks
  <1>7. CASE us \in 100 .. 499
    <2>1. t = 20000
      BY <1>7, SMT DEF TicksPerSec
    <2> QED BY <1>7, <2>1, SMT DEF TwoTicks
  <1>8. CASE us >= 500
    <2>1. t = 10000
      BY <1>1, <1>8, SMT DEF TicksPerSec
    <2> QED BY <1>1, <1>8, <2>1, SMT DEF TwoTicks
  <1> QED
    BY <1>1, <1>2, <1>3, <1>4, <1>5, <1>6, <1>7, <1>8, SMT

(* The ports that are listened on, and keepalive.                          *)
LEMMA Check2 ==
  ASSUME NEW c, Parsed(c), Checked(c, 2), NEW r, r # Error, r = CheckKeepalive(ListenDefault(c))
  PROVE  Parsed(r) /\ Checked(r, 3)
  <1> DEFINE d == ListenDefault(c)
             off == c.listen = 0 \/ c.listen_num = 0
             l == IF off THEN LISTEN_DEFAULT ELSE c.listen
             n == IF off THEN 1 ELSE c.listen_num
  <1>1. DOMAIN c = Fields /\ Listening(c.listen, c.listen_num) /\ c.listen \in Nat /\ c.listen_num \in Nat
    BY PairFacts, FieldFacts
  <1>2. Parsed(d) /\ Agree(c, d, {"listen", "listen_num"}) /\ Listens(d)
    <2>1. CASE off
      <3> DEFINE e == [c EXCEPT !["listen"] = LISTEN_DEFAULT]
      <3>1. d = [e EXCEPT !["listen_num"] = 1]
        BY <2>1, Zenon DEF ListenDefault
      <3>2. LISTEN_DEFAULT \in Nat /\ LISTEN_DEFAULT > 0 /\ LISTEN_DEFAULT + 1 < NETWORK_PORT_NUM
        BY ConfigAssumption
      <3>3. Agree(c, e, {"listen"}) /\ e["listen"] = LISTEN_DEFAULT /\ DOMAIN e = Fields
        BY <1>1, AgreeOne DEF Fields
      <3> HIDE DEF e, d
      <3>4. Agree(e, d, {"listen_num"}) /\ d["listen_num"] = 1 /\ DOMAIN d = Fields
        BY <3>1, <3>3, AgreeOne DEF Fields
      <3>5. Agree(c, d, {"listen", "listen_num"})
        <4>1. {"listen"} \cup {"listen_num"} = {"listen", "listen_num"}
          OBVIOUS
        <4>2. Agree(c, d, {"listen"} \cup {"listen_num"})
          BY <3>3, <3>4, AgreeTwo
        <4> QED
          BY <4>1, <4>2
      <3>6. d.listen = LISTEN_DEFAULT /\ d.listen_num = 1
        BY <3>1, <3>3 DEF Fields
      <3>7. Listens(d)
        BY <3>2, <3>6 DEF Listens, Listening
      <3>8. /\ d.interval = c.interval /\ d.reqnum = c.reqnum /\ d.lport_min = c.lport_min
            /\ d.lport_max = c.lport_max
        BY <1>1, <3>1 DEF Fields, e
      <3>9. /\ Pacing(d.interval, d.reqnum) /\ Listening(d.listen, d.listen_num)
            /\ LocalPorts(d.lport_min, d.lport_max)
        <4>1. Listening(LISTEN_DEFAULT, 1)
          BY <3>2 DEF Listening
        <4> QED
          BY <3>6, <3>8, <4>1, PairFacts, Zenon
      <3>10. /\ "listen" \in Fields /\ "listen_num" \in Fields \ {"listen"}
             /\ FieldOk("listen", LISTEN_DEFAULT) /\ FieldOk("listen_num", 1)
        BY <3>2, NumberOk DEF NatFields
      <3>11. Parsed(d)
        BY <3>1, <3>9, <3>10, SetTwo, Zenon DEF e
      <3> QED
        BY <3>5, <3>7, <3>11
    <2>2. CASE ~off
      <3>1. d = c
        BY <2>2, Zenon DEF ListenDefault
      <3>2. Listens(c)
        BY <1>1, <2>2 DEF Listens
      <3> QED
        BY <3>1, <3>2, Zenon DEF Agree
    <2> QED
      BY <2>1, <2>2
  <1> HIDE DEF d
  <1>3. Basics(c)
    BY DEF Checked
  <1>4. Basics(d)
    BY <1>2, <1>3, Carry
  <1>5. /\ d.server \in BOOLEAN /\ d.keepalive \in BOOLEAN /\ d.cc \in Nat /\ Interval(d.interval)
        /\ DOMAIN d = Fields
    BY <1>2, FieldFacts, PairFacts
  <1>6. Parsed(r) /\ Agree(d, r, {"reqnum", "ticks"}) /\ Keeps(r)
    <2>1. CASE d.server
      <3>1. r = [d EXCEPT !["reqnum"] = 0]
        BY <2>1, Zenon DEF CheckKeepalive, d
      <3>2. /\ r.reqnum = 0 /\ r.server = d.server /\ r.interval = d.interval /\ r.listen = d.listen
            /\ r.listen_num = d.listen_num /\ r.lport_min = d.lport_min /\ r.lport_max = d.lport_max
        BY <1>5, <3>1 DEF Fields
      <3>3. Agree(d, r, {"reqnum"})
        BY <1>5, <3>1, AgreeOne DEF Fields
      <3>4. Parsed(r)
        <4>1. /\ "reqnum" \in Fields /\ "queue_num" \in Fields \ {"reqnum"}
              /\ FieldOk("reqnum", 0) /\ FieldOk("queue_num", d.queue_num)
          <5>1. FieldOk("queue_num", d.queue_num)
            BY <1>2, <1>5 DEF Parsed, Fields
          <5> QED
            BY <5>1, NumberOk DEF NatFields, Fields
        <4>2. /\ Pacing(r.interval, r.reqnum) /\ Listening(r.listen, r.listen_num)
              /\ LocalPorts(r.lport_min, r.lport_max)
          BY <1>2, <3>2, PairFacts DEF Pacing
        <4>3. r = [[d EXCEPT !["reqnum"] = 0] EXCEPT !["queue_num"] = d.queue_num]
          BY <1>5, <3>1 DEF Fields
        <4> QED
          BY <1>2, <4>1, <4>2, <4>3, SetTwo, Zenon
      <3> QED
        BY <2>1, <3>2, <3>3, <3>4 DEF Keeps, Agree
    <2>2. CASE ~d.server /\ ~d.keepalive
      <3>1. r = d /\ d.cc = 0
        BY <2>2, Zenon DEF CheckKeepalive, OkIf, d
      <3> QED
        BY <1>2, <1>5, <2>2, <3>1 DEF Keeps, Agree
    <2>3. CASE ~d.server /\ d.keepalive
      <3> DEFINE t == TicksPerSec(d.interval)
      <3>1. r = [d EXCEPT !["ticks"] = t]
        BY <2>3, Zenon DEF CheckKeepalive, OkIf, d
      <3>2. d.interval > 0 => d.interval >= TwoTicks(t)
        BY <1>5, TicksFit
      <3> HIDE DEF t
      <3>3. r.ticks = t /\ r.interval = d.interval /\ r.server = d.server /\ r.keepalive = d.keepalive
        BY <1>5, <3>1 DEF Fields
      <3>4. Agree(d, r, {"ticks"})
        BY <1>5, <3>1, AgreeOne DEF Fields
      <3>5. Parsed([d EXCEPT !["ticks"] = t])
        BY <1>2, SetFree DEF Free
      <3>6. Keeps(r)
        BY <2>3, <3>2, <3>3, Zenon DEF Keeps
      <3> QED
        BY <3>1, <3>4, <3>5, <3>6 DEF Agree
    <2> QED
      BY <1>5, <2>1, <2>2, <2>3
  <1>7. Basics(r) /\ Listens(r)
    BY <1>2, <1>4, <1>6, Carry
  <1> QED
    BY <1>6, <1>7 DEF Checked

(* The field a check sets is one no check before it was about.             *)
LEMMA CheckedKept ==
  ASSUME NEW c, NEW r, NEW S, Agree(c, r, S), NEW i \in 1 .. 22, Checked(c, i),
         \/ S = {}
         \/ S = {"wait"} /\ i <= 5
         \/ S = {"slow_start"} /\ i <= 6
         \/ S = {"queue_num"} /\ i <= 12
         \/ S = {"flow"} /\ i <= 17
         \/ S = {"tx_burst"} /\ i <= 19
         \/ S = {"lport_min", "lport_max"} /\ i <= 21
  PROVE  Checked(r, i)
  <1>1. ASSUME i > 1 PROVE Basics(r)
    <2>1. Basics(c)
      BY <1>1 DEF Checked
    <2>2. {"mss", "rto", "duration"} \cap S = {}
      BY <1>1
    <2> QED
      BY <2>1, <2>2, Carry
  <1>2. ASSUME i > 2 PROVE Listens(r)
    <2>1. Listens(c)
      BY <1>2 DEF Checked
    <2>2. {"listen", "listen_num"} \cap S = {}
      BY <1>2
    <2> QED
      BY <2>1, <2>2, Carry
  <1>3. ASSUME i > 2 PROVE Keeps(r)
    <2>1. Keeps(c)
      BY <1>3 DEF Checked
    <2>2. {"server", "reqnum", "cc", "keepalive", "interval", "ticks"} \cap S = {}
      BY <1>3
    <2> QED
      BY <2>1, <2>2, Carry
  <1>4. ASSUME i > 3 PROVE Pipes(r)
    <2>1. Pipes(c)
      BY <1>4 DEF Checked
    <2>2. {"pipeline", "server", "keepalive", "flags", "interval"} \cap S = {}
      BY <1>4
    <2> QED
      BY <2>1, <2>2, Carry
  <1>5. ASSUME i > 5 PROVE Waits(r)
    <2>1. Waits(c)
      BY <1>5 DEF Checked
    <2>2. {"server", "wait"} \cap S = {}
      BY <1>5
    <2> QED
      BY <2>1, <2>2, Carry
  <1>6. ASSUME i > 6 PROVE Slows(r)
    <2>1. Slows(c)
      BY <1>6 DEF Checked
    <2>2. {"server", "slow_start"} \cap S = {}
      BY <1>6
    <2> QED
      BY <2>1, <2>2, Carry
  <1>7. ASSUME i > 7 PROVE Apart(r)
    <2>1. Apart(c)
      BY <1>7 DEF Checked
    <2>2. {"cgrp"} \cap S = {}
      BY <1>7
    <2> QED
      BY <2>1, <2>2, Carry
  <1>8. ASSUME i > 12 PROVE Queues(r)
    <2>1. Queues(c)
      BY <1>8 DEF Checked
    <2>2. {"cpu_num", "ports", "queue_num"} \cap S = {}
      BY <1>8
    <2> QED
      BY <2>1, <2>2, Carry
  <1>9. ASSUME i > 16 PROVE Ranges(r)
    <2>1. Ranges(c)
      BY <1>9 DEF Checked
    <2>2. {"server", "cgrp", "sgrp", "ports"} \cap S = {}
      BY <1>9
    <2> QED
      BY <2>1, <2>2, Carry
  <1>10. ASSUME i > 17 PROVE Flows(r)
    <2>1. Flows(c)
      BY <1>10 DEF Checked
    <2>2. {"flow", "cpu_num", "ports", "sgrp", "queue_num"} \cap S = {}
      BY <1>10
    <2> QED
      BY <2>1, <2>2, Carry
  <1>11. ASSUME i > 18 PROVE Dips(r)
    <2>1. Dips(c)
      BY <1>11 DEF Checked
    <2>2. {"dips", "cpu_num"} \cap S = {}
      BY <1>11
    <2> QED
      BY <2>1, <2>2, Carry
  <1>12. ASSUME i > 19 PROVE Bursts(r)
    <2>1. Bursts(c)
      BY <1>12 DEF Checked
    <2>2. {"tx_burst"} \cap S = {}
      BY <1>12
    <2> QED
      BY <2>1, <2>2, Carry
  <1>13. ASSUME i > 21 PROVE Locals(r)
    <2>1. Locals(c)
      BY <1>13 DEF Checked
    <2>2. {"lport_min", "lport_max"} \cap S = {}
      BY <1>13
    <2> QED
      BY <2>1, <2>2, Carry
  <1>14. ~(i > 22)
    OBVIOUS
  <1> QED
    BY <1>1, <1>2, <1>3, <1>4, <1>5, <1>6, <1>7, <1>8, <1>9, <1>10, <1>11, <1>12, <1>13, <1>14 DEF Checked

(* The checks that change nothing.                                         *)
LEMMA CheckOnly ==
  ASSUME NEW c, Parsed(c), NEW i, Checked(c, i), NEW r, r # Error,
         \/ i = 3 /\ r = CheckPipeline(c)
         \/ i = 7 /\ r = CheckClientAddr(c)
         \/ i = 8 /\ r = CheckServerAddr(c)
         \/ i = 9 /\ r = CheckAddressConflict(c)
         \/ i = 10 /\ r = CheckLocalAddr(c)
         \/ i = 14 /\ r = CheckVlan(c)
         \/ i = 15 /\ r = CheckAf(c)
         \/ i = 16 /\ r = SetPortIpRange(c)
         \/ i = 18 /\ r = CheckChangeDip(c)
         \/ i = 20 /\ r = CheckLogdir(c)
         \/ i = 23 /\ r = CheckFastClose(c)
         \/ i = 24 /\ r = CheckFlowIsolate(c)
  PROVE  Parsed(r) /\ Checked(r, i + 1)
  <1>1. CASE i = 3 /\ r = CheckPipeline(c)
    <2>1. /\ r = c
          /\ \/ c.pipeline = 0
             \/ ~c.server /\ c.keepalive /\ (Has(c, "flood") \/ c.interval = 0)
      BY <1>1, Zenon DEF CheckPipeline, OkIf
    <2>2. Pipes(c)
      BY <2>1 DEF Pipes, Has
    <2> QED
      BY <1>1, <2>1, <2>2 DEF Checked
  <1>2. CASE i = 7 /\ r = CheckClientAddr(c)
    <2>1. r = c /\ GroupApart(c.cgrp)
      BY <1>2, Zenon DEF CheckClientAddr, OkIf, GroupApart
    <2> QED
      BY <1>2, <2>1 DEF Checked, Apart
  <1>3. CASE i = 8 /\ r = CheckServerAddr(c)
    <2>1. r = c
      BY <1>3, Zenon DEF CheckServerAddr, OkIf
    <2> QED
      BY <1>3, <2>1 DEF Checked
  <1>4. CASE i = 9 /\ r = CheckAddressConflict(c)
    <2>1. r = c
      BY <1>4, Zenon DEF CheckAddressConflict, OkIf
    <2> QED
      BY <1>4, <2>1 DEF Checked
  <1>5. CASE i = 10 /\ r = CheckLocalAddr(c)
    <2>1. r = c
      BY <1>5, Zenon DEF CheckLocalAddr, OkIf
    <2> QED
      BY <1>5, <2>1 DEF Checked
  <1>6. CASE i = 14 /\ r = CheckVlan(c)
    <2>1. r = c
      BY <1>6, Zenon DEF CheckVlan, OkIf
    <2> QED
      BY <1>6, <2>1 DEF Checked
  <1>7. CASE i = 15 /\ r = CheckAf(c)
    <2>1. r = c
      BY <1>7, Zenon DEF CheckAf, OkIf
    <2> QED
      BY <1>7, <2>1 DEF Checked
  <1>8. CASE i = 20 /\ r = CheckLogdir(c)
    <2>1. r = c
      BY <1>8, Zenon DEF CheckLogdir, OkIf
    <2> QED
      BY <1>8, <2>1 DEF Checked
  <1>9. CASE i = 23 /\ r = CheckFastClose(c)
    <2>1. r = c
      BY <1>9, Zenon DEF CheckFastClose, OkIf
    <2> QED
      BY <1>9, <2>1 DEF Checked
  <1>10. CASE i = 24 /\ r = CheckFlowIsolate(c)
    <2>1. r = c
      BY <1>10, Zenon DEF CheckFlowIsolate, OkIf
    <2> QED
      BY <1>10, <2>1 DEF Checked
  <1>11. CASE i = 16 /\ r = SetPortIpRange(c)
    <2>1. /\ r = c /\ c.cgrp # <<>> /\ Len(c.sgrp) = Len(c.ports)
          /\ c.server \/ Len(c.cgrp) = Len(c.ports)
      BY <1>11, Zenon DEF SetPortIpRange, OkIf
    <2>2. Len(c.cgrp) > 0
      <3>1. Sequence(c.cgrp)
        BY FieldFacts DEF AddressGroup
      <3>2. PICK T : c.cgrp \in Seq(T)
        BY <3>1 DEF Sequence
      <3> QED
        BY <2>1, <3>2
    <2>3. Ranges(c)
      BY <2>1, <2>2, Zenon DEF Ranges
    <2> QED
      BY <1>11, <2>1, <2>3 DEF Checked
  <1>12. CASE i = 18 /\ r = CheckChangeDip(c)
    <2>1. r = c /\ Dips(c)
      BY <1>12, Zenon DEF CheckChangeDip, OkIf, Dips
    <2> QED
      BY <1>12, <2>1 DEF Checked
  <1> QED
    BY <1>1, <1>2, <1>3, <1>4, <1>5, <1>6, <1>7, <1>8, <1>9, <1>10, <1>11, <1>12, Zenon

(* The fields no check is about.                                           *)
Payloads == {"host", "path", "stats_http", "payload", "send_window", "vxlan"}

Like(c, r) == Parsed(r) /\ Agree(c, r, {})

(* Setting one of them.                                                    *)
LEMMA LikeOne ==
  ASSUME NEW c, Parsed(c), NEW f \in Payloads, NEW v, NEW r, r = [c EXCEPT ![f] = v]
  PROVE  Like(c, r)
  <1>1. f \in Free /\ f \in Fields /\ f \notin CoreFields
    BY DEF Payloads, Free, Fields, CoreFields
  <1>2. Parsed([c EXCEPT ![f] = v])
    BY <1>1, SetFree
  <1>3. Agree(c, r, {f})
    BY <1>1, AgreeOne, PairFacts
  <1>4. CoreFields \ {f} = CoreFields \ {}
    BY <1>1
  <1> QED
    BY <1>2, <1>3, <1>4 DEF Like, Agree

(* ... and several.                                                        *)
LEMMA LikeTwo ==
  ASSUME NEW c, NEW d, NEW r, Like(c, d), Like(d, r)
  PROVE  Like(c, r)
  BY Zenon DEF Like, Agree

(* The checks that change such fields only.                                *)
LEMMA CheckPayloads ==
  ASSUME NEW c, Parsed(c), NEW i, Checked(c, i), NEW r, r # Error,
         \/ i = 4 /\ r = CheckHttp(c)
         \/ i = 11 /\ r = CheckPayload(c)
         \/ i = 13 /\ r = CheckVxlan(c)
  PROVE  Parsed(r) /\ Checked(r, i + 1)
  <1>1. Like(c, c)
    BY DEF Like, Agree
  <1>2. Like(c, r)
    <2>1. CASE i = 4 /\ r = CheckHttp(c)
      <3>1. \E v, w, x : r = [[[c EXCEPT !["host"] = v] EXCEPT !["path"] = w] EXCEPT !["stats_http"] = x]
        BY <2>1, Zenon DEF CheckHttp, OkIf
      <3>2. PICK v, w, x : r = [[[c EXCEPT !["host"] = v] EXCEPT !["path"] = w] EXCEPT !["stats_http"] = x]
        BY <3>1
      <3> DEFINE c1 == [c EXCEPT !["host"] = v]
                 c2 == [c1 EXCEPT !["path"] = w]
      <3>3. Like(c, c1)
        BY LikeOne DEF Payloads
      <3>4. Parsed(c1)
        BY <3>3 DEF Like
      <3> HIDE DEF c1
      <3>5. Like(c1, c2)
        BY <3>4, LikeOne DEF Payloads
      <3>6. Parsed(c2)
        BY <3>5 DEF Like
      <3>7. r = [c2 EXCEPT !["stats_http"] = x]
        BY <3>2 DEF c1
      <3> HIDE DEF c2
      <3>8. Like(c2, r)
        BY <3>6, <3>7, LikeOne DEF Payloads
      <3> QED
        BY <3>3, <3>5, <3>8, LikeTwo
    <2>2. CASE i = 11 /\ r = CheckPayload(c)
      <3> DEFINE c1 == CheckPayloadSizeNum(c)
                 c2 == CheckPayloadFile(c1)
                 c3 == CheckPayloadSize(c2)
      <3>1. c1 # Error /\ c2 # Error /\ c3 # Error /\ (r = CheckStatsHttp(c3) \/ r = c3)
        BY <2>2, Zenon DEF CheckPayload
      <3>2. Like(c, c1)
        <4>1. c1 = c \/ \E v : c1 = [c EXCEPT !["payload"] = v]
          BY <3>1, Zenon DEF CheckPayloadSizeNum, OkIf, SetPayloadSize
        <4> HIDE DEF c1
        <4> QED
          BY <1>1, <4>1, LikeOne DEF Payloads
      <3>3. Parsed(c1)
        BY <3>2 DEF Like
      <3>4. c2 = c1
        BY <3>1, Zenon DEF CheckPayloadFile, OkIf
      <3> HIDE DEF c1, c2
      <3>5. \E v, w : c3 = [[c2 EXCEPT !["payload"] = v] EXCEPT !["send_window"] = w]
        BY <3>1, Zenon DEF CheckPayloadSize, OkIf
      <3>6. PICK v, w : c3 = [[c2 EXCEPT !["payload"] = v] EXCEPT !["send_window"] = w]
        BY <3>5
      <3> HIDE DEF c3
      <3> DEFINE d == [c2 EXCEPT !["payload"] = v]
      <3>7. Like(c2, d)
        BY <3>3, <3>4, LikeOne DEF Payloads
      <3>8. Parsed(d) /\ c3 = [d EXCEPT !["send_window"] = w]
        BY <3>6, <3>7 DEF Like
      <3> HIDE DEF d
      <3>9. Like(d, c3)
        BY <3>8, LikeOne DEF Payloads
      <3>10. Parsed(c3)
        BY <3>9 DEF Like
      <3>11. Like(c3, r)
        <4>1. r = c3 \/ \E x : r = [c3 EXCEPT !["stats_http"] = x]
          BY <3>1, Zenon DEF CheckStatsHttp, OkIf
        <4>2. Like(c3, c3)
          BY <3>10 DEF Like, Agree
        <4> QED
          BY <3>10, <4>1, <4>2, LikeOne DEF Payloads
      <3>12. Like(c, d)
        BY <3>2, <3>4, <3>7, LikeTwo
      <3>13. Like(c, c3)
        BY <3>9, <3>12, LikeTwo
      <3> QED
        BY <3>11, <3>13, LikeTwo
    <2>3. CASE i = 13 /\ r = CheckVxlan(c)
      <3>1. r = c \/ r = [c EXCEPT !["vxlan"] = TRUE]
        BY <2>3, Zenon DEF CheckVxlan, OkIf
      <3> QED
        BY <1>1, <3>1, LikeOne DEF Payloads
    <2> QED
      BY <2>1, <2>2, <2>3
  <1>3. i \in 1 .. 22
    OBVIOUS
  <1>4. Checked(r, i)
    BY <1>2, <1>3, CheckedKept DEF Like
  <1> QED
    BY <1>2, <1>4 DEF Checked, Like

(* A whole number of queues per port.                                      *)
LEMMA EvenShare ==
  ASSUME NEW n \in Nat \ {0}, NEW k \in Nat \ {0}, n % k = 0
  PROVE  n \div k \in Nat \ {0} /\ (n \div k) * k = n
  OBVIOUS

(* The checks that set one field.                                          *)
LEMMA CheckAndSet ==
  ASSUME NEW c, Parsed(c), NEW i, Checked(c, i), NEW r, r # Error,
         \/ i = 5 /\ r = CheckWait(c)
         \/ i = 6 /\ r = CheckSlowStart(c)
         \/ i = 12 /\ r = CheckPort(c)
         \/ i = 17 /\ r = CheckFlow(c)
         \/ i = 19 /\ r = TxBurstDefault(c)
  PROVE  Parsed(r) /\ Checked(r, i + 1)
  <1>1. DOMAIN c = Fields /\ c.server \in BOOLEAN /\ c.wait \in Nat /\ c.slow_start \in Nat
    BY PairFacts, FieldFacts
  <1>2. i \in 1 .. 22
    OBVIOUS
  <1>3. CASE i = 5 /\ r = CheckWait(c)
    <2>1. CASE c.server
      <3>1. r = c
        BY <1>3, <2>1, Zenon DEF CheckWait, OkIf
      <3> QED
        BY <1>3, <2>1, <3>1 DEF Checked, Waits
    <2>2. CASE ~c.server
      <3> DEFINE v == Or(c.wait, 3)
      <3>1. r = [c EXCEPT !["wait"] = v]
        BY <1>3, <2>2, Zenon DEF CheckWait
      <3>2. v \in Nat /\ v > 0
        BY <1>1 DEF Or
      <3> HIDE DEF v
      <3>3. Parsed([c EXCEPT !["wait"] = v])
        BY <3>2, SetNumber DEF NatFields, Paired
      <3>4. Agree(c, r, {"wait"})
        BY <1>1, <3>1, AgreeOne DEF Fields
      <3>5. Checked(r, i)
        BY <1>2, <1>3, <3>4, CheckedKept
      <3>6. r.wait = v
        BY <1>1, <3>1 DEF Fields
      <3>7. Waits(r)
        BY <3>2, <3>6 DEF Waits
      <3> QED
        BY <1>3, <3>1, <3>3, <3>5, <3>7 DEF Checked
    <2> QED
      BY <1>1, <2>1, <2>2
  <1>4. CASE i = 6 /\ r = CheckSlowStart(c)
    <2>1. CASE c.server
      <3>1. r = c
        BY <1>4, <2>1, Zenon DEF CheckSlowStart, OkIf
      <3> QED
        BY <1>4, <2>1, <3>1 DEF Checked, Slows
    <2>2. CASE ~c.server
      <3> DEFINE v == Or(c.slow_start, 30)
      <3>1. r = [c EXCEPT !["slow_start"] = v]
        BY <1>4, <2>2, Zenon DEF CheckSlowStart
      <3>2. v \in Nat /\ v > 0
        BY <1>1 DEF Or
      <3> HIDE DEF v
      <3>3. Parsed([c EXCEPT !["slow_start"] = v])
        BY <3>2, SetNumber DEF NatFields, Paired
      <3>4. Agree(c, r, {"slow_start"})
        BY <1>1, <3>1, AgreeOne DEF Fields
      <3>5. Checked(r, i)
        BY <1>2, <1>4, <3>4, CheckedKept
      <3>6. r.slow_start = v
        BY <1>1, <3>1 DEF Fields
      <3>7. Slows(r)
        BY <3>2, <3>6 DEF Slows
      <3> QED
        BY <1>4, <3>1, <3>3, <3>5, <3>7 DEF Checked
    <2> QED
      BY <1>1, <2>1, <2>2
  <1>5. CASE i = 12 /\ r = CheckPort(c)
    <2> DEFINE q == c.cpu_num \div Len(c.ports)
    <2>1. /\ c.cpu_num # 0 /\ Len(c.ports) # 0 /\ c.cpu_num % Len(c.ports) = 0
          /\ r = [c EXCEPT !["queue_num"] = q]
      BY <1>5, Zenon DEF CheckPort, OkIf, PortQueueNum
    <2>2. c.cpu_num \in Nat /\ Len(c.ports) \in Nat
      BY FieldFacts, Longer
    <2>3. q \in Nat \ {0} /\ q * Len(c.ports) = c.cpu_num
      BY <2>1, <2>2, EvenShare
    <2> HIDE DEF q
    <2>4. Parsed([c EXCEPT !["queue_num"] = q])
      BY SetFree DEF Free
    <2>5. Agree(c, r, {"queue_num"})
      BY <1>1, <2>1, AgreeOne DEF Fields
    <2>6. Checked(r, i)
      BY <1>2, <1>5, <2>5, CheckedKept
    <2>7. r.queue_num = q /\ r.cpu_num = c.cpu_num /\ r.ports = c.ports
      BY <1>1, <2>1 DEF Fields
    <2>8. Queues(r)
      BY <2>1, <2>2, <2>3, <2>7 DEF Queues
    <2> QED
      BY <1>5, <2>1, <2>4, <2>6, <2>8 DEF Checked
  <1>6. CASE i = 17 /\ r = CheckFlow(c)
    <2>1. \E f \in {"none", "rss", "fdir"} :
              /\ r = [c EXCEPT !["flow"] = f]
              /\ f = "none" => c.cpu_num = Len(c.ports)
              /\ f = "fdir" => \A p \in 1 .. Len(c.ports) : Len(c.sgrp[p].list) = c.queue_num
      <3>1. CASE c.cpu_num = Len(c.ports) /\ ~Has(c, "flow_isolate")
        <4>1. r = [c EXCEPT !["flow"] = "none"]
          BY <1>6, <3>1, Zenon DEF CheckFlow
        <4> QED
          BY <3>1, <4>1
      <3>2. CASE ~(c.cpu_num = Len(c.ports) /\ ~Has(c, "flow_isolate")) /\ c.flow = "rss"
        <4>1. r = [c EXCEPT !["flow"] = "rss"]
          BY <1>6, <3>2, Zenon DEF CheckFlow, OkIf
        <4> QED
          BY <4>1
      <3>3. CASE ~(c.cpu_num = Len(c.ports) /\ ~Has(c, "flow_isolate")) /\ c.flow # "rss"
        <4>1. /\ r = [c EXCEPT !["flow"] = "fdir"]
              /\ \A p \in 1 .. Len(c.ports) : Len(c.sgrp[p].list) = c.queue_num
          BY <1>6, <3>3, Zenon DEF CheckFlow, OkIf
        <4> QED
          BY <4>1
      <3> QED
        BY <3>1, <3>2, <3>3
    <2>2. PICK f \in {"none", "rss", "fdir"} :
              /\ r = [c EXCEPT !["flow"] = f]
              /\ f = "none" => c.cpu_num = Len(c.ports)
              /\ f = "fdir" => \A p \in 1 .. Len(c.ports) : Len(c.sgrp[p].list) = c.queue_num
      BY <2>1
    <2>3. Parsed([c EXCEPT !["flow"] = f])
      <3>1. FieldOk("flow", f)
        BY DEF FieldOk, NatFields
      <3> QED
        BY <3>1, SetOne DEF Fields, Paired
    <2>4. Agree(c, r, {"flow"})
      BY <1>1, <2>2, AgreeOne DEF Fields
    <2>5. Checked(r, i)
      BY <1>2, <1>6, <2>4, CheckedKept
    <2>6. /\ r.flow = f /\ r.cpu_num = c.cpu_num /\ r.ports = c.ports /\ r.sgrp = c.sgrp
          /\ r.queue_num = c.queue_num
      BY <1>1, <2>2 DEF Fields
    <2>7. Flows(r)
      BY <2>2, <2>6, Zenon DEF Flows
    <2> QED
      BY <1>6, <2>2, <2>3, <2>5, <2>7 DEF Checked
  <1>7. CASE i = 19 /\ r = TxBurstDefault(c)
    <2> DEFINE v == Or(c.tx_burst, 8)
    <2>1. r = [c EXCEPT !["tx_burst"] = v]
      BY <1>7, Zenon DEF TxBurstDefault
    <2>2. c.tx_burst \in 0 .. 255
      BY FieldFacts
    <2>3. v \in 1 .. 255 /\ v \in 0 .. 255
      BY <2>2 DEF Or
    <2> HIDE DEF v
    <2>4. FieldOk("tx_burst", v)
      BY <2>3 DEF FieldOk, NatFields
    <2>5. Parsed([c EXCEPT !["tx_burst"] = v])
      BY <2>4, SetOne DEF Fields, Paired
    <2>6. Agree(c, r, {"tx_burst"})
      BY <1>1, <2>1, AgreeOne DEF Fields
    <2>7. Checked(r, i)
      BY <1>2, <1>7, <2>6, CheckedKept
    <2>8. r.tx_burst = v
      BY <1>1, <2>1 DEF Fields
    <2>9. Bursts(r)
      BY <2>3, <2>8 DEF Bursts
    <2> QED
      BY <1>7, <2>1, <2>5, <2>7, <2>9 DEF Checked
  <1> QED
    BY <1>3, <1>4, <1>5, <1>6, <1>7

(* The client's ports.                                                     *)
LEMMA Check21 ==
  ASSUME NEW c, Parsed(c), Checked(c, 21), NEW r, r # Error, r = CheckLportRange(c)
  PROVE  Parsed(r) /\ Checked(r, 22)
  <1> DEFINE l == Or(c.lport_min, 1)
             m == Or(c.lport_max, NETWORK_PORT_NUM - 1)
             d == [c EXCEPT !["lport_min"] = l]
  <1>1. r = [d EXCEPT !["lport_max"] = m]
    BY Zenon DEF CheckLportRange
  <1>2. /\ DOMAIN c = Fields /\ LocalPorts(c.lport_min, c.lport_max)
        /\ c.lport_min \in Nat /\ c.lport_max \in Nat
    BY PairFacts, FieldFacts
  <1>3. l \in Nat /\ m \in Nat /\ 1 <= l /\ l <= m /\ m < NETWORK_PORT_NUM
    <2>1. NETWORK_PORT_NUM \in Nat /\ NETWORK_PORT_NUM > 2
      BY ConfigAssumption
    <2> QED
      BY <1>2, <2>1 DEF Or, LocalPorts
  <1> HIDE DEF l, m
  <1>4. LocalPorts(l, m)
    BY <1>3 DEF LocalPorts
  <1>5. /\ r.listen = c.listen /\ r.listen_num = c.listen_num /\ r.interval = c.interval
        /\ r.reqnum = c.reqnum /\ r.lport_min = l /\ r.lport_max = m
    BY <1>1, <1>2 DEF Fields
  <1>6. /\ "lport_min" \in Fields /\ "lport_max" \in Fields \ {"lport_min"}
        /\ FieldOk("lport_min", l) /\ FieldOk("lport_max", m)
    BY <1>3, NumberOk DEF NatFields
  <1>7. /\ Pacing(r.interval, r.reqnum) /\ Listening(r.listen, r.listen_num)
        /\ LocalPorts(r.lport_min, r.lport_max)
    BY <1>4, <1>5, PairFacts, Zenon
  <1>8. Parsed(r)
    BY <1>1, <1>6, <1>7, SetTwo, Zenon
  <1>9. Agree(c, d, {"lport_min"}) /\ DOMAIN d = Fields
    BY <1>2, AgreeOne DEF Fields
  <1> HIDE DEF d
  <1>10. Agree(d, r, {"lport_max"})
    BY <1>1, <1>9, AgreeOne DEF Fields
  <1>11. Agree(c, r, {"lport_min", "lport_max"})
    <2>1. {"lport_min"} \cup {"lport_max"} = {"lport_min", "lport_max"}
      OBVIOUS
    <2>2. Agree(c, r, {"lport_min"} \cup {"lport_max"})
      BY <1>9, <1>10, AgreeTwo
    <2> QED
      BY <2>1, <2>2
  <1>12. Checked(r, 21)
    BY <1>11, CheckedKept
  <1>13. Locals(r)
    BY <1>3, <1>5 DEF Locals
  <1> QED
    BY <1>8, <1>12, <1>13 DEF Checked

(* The number of sockets of a client's worker depends on these fields.     *)
LEMMA SameSockets ==
  ASSUME NEW c, NEW r, NEW w, ~c.server, ~r.server,
         r.cpu_num = c.cpu_num, r.ports = c.ports, r.cgrp = c.cgrp, r.sgrp = c.sgrp, r.flow = c.flow,
         r.listen_num = c.listen_num, r.lport_min = c.lport_min, r.lport_max = c.lport_max
  PROVE  SocketNum(r, w) = SocketNum(c, w) /\ GetTotalSocketNum(r, w) = GetTotalSocketNum(c, w)
  <1>1. PortOf(r, w) = PortOf(c, w)
    BY Zenon DEF PortOf, PortQueueNum
  <1>2. ClientIpRangeSocketNum(r, c.cgrp[PortOf(c, w)]) = ClientIpRangeSocketNum(c, c.cgrp[PortOf(c, w)])
    BY Zenon DEF ClientIpRangeSocketNum
  <1>3. SocketNum(r, w) = SocketNum(c, w)
    BY <1>1, <1>2, Zenon DEF SocketNum
  <1> QED
    BY <1>3, Zenon DEF GetTotalSocketNum

(* The sockets suffice for the target.                                     *)
LEMMA Check22 ==
  ASSUME NEW c, Parsed(c), Checked(c, 22), NEW r, r # Error, r = CheckTarget(c)
  PROVE  Parsed(r) /\ Checked(r, 23)
  <1>1. /\ DOMAIN c = Fields /\ c.server \in BOOLEAN /\ c.cps \in Nat /\ c.cc \in Nat /\ c.pipeline \in Nat
        /\ c.cpu_num \in Nat /\ c.rto \in Nat
    BY PairFacts, FieldFacts
  <1>2. /\ Basics(c) /\ Listens(c) /\ Keeps(c) /\ Pipes(c) /\ Waits(c) /\ Slows(c) /\ Apart(c)
        /\ Queues(c) /\ Ranges(c) /\ Flows(c) /\ Dips(c) /\ Bursts(c) /\ Locals(c)
    BY DEF Checked
  <1>3. CASE c.server
    <2> DEFINE d == [c EXCEPT !["cc"] = 0]
               e == [d EXCEPT !["cps"] = 0]
               F == c.flags \ {"flood"}
    <2>1. r = [e EXCEPT !["flags"] = F]
      <3>1. r = [c EXCEPT !.cc = 0, !.cps = 0, !.flags = @ \ {"flood"}]
        BY <1>3, Zenon DEF CheckTarget, OkIf
      <3>2. e.flags = c.flags
        BY <1>1 DEF Fields
      <3> QED
        BY <3>1, <3>2, Zenon
    <2>2. Parsed(d)
      BY SetNumber DEF NatFields, Paired
    <2>3. Agree(c, d, {"cc"}) /\ DOMAIN d = Fields
      BY <1>1, AgreeOne DEF Fields
    <2> HIDE DEF d
    <2>4. Parsed(e)
      BY <2>2, SetNumber DEF NatFields, Paired
    <2>5. Agree(d, e, {"cps"}) /\ DOMAIN e = Fields
      BY <2>3, AgreeOne DEF Fields
    <2> HIDE DEF e
    <2>6. Parsed([e EXCEPT !["flags"] = F])
      BY <2>4, SetFree DEF Free
    <2>7. Agree(e, r, {"flags"}) /\ r["flags"] = F /\ DOMAIN r = Fields
      BY <2>1, <2>5, AgreeOne DEF Fields
    <2>8. Agree(c, r, {"cc", "cps", "flags"})
      BY <2>3, <2>5, <2>7 DEF Agree
    <2>9. /\ Basics(r) /\ Listens(r) /\ Waits(r) /\ Slows(r) /\ Apart(r)
      BY <1>2, <2>8, Carry
    <2>10. Queues(r) /\ Ranges(r) /\ Flows(r) /\ Dips(r) /\ Bursts(r) /\ Locals(r)
      BY <1>2, <2>8, Carry
    <2>11. r.server = c.server /\ r.pipeline = c.pipeline /\ r.reqnum = c.reqnum /\ r.flags = F
      BY <2>7, <2>8 DEF Agree, CoreFields
    <2>12. Keeps(r) /\ Pipes(r)
      BY <1>1, <1>2, <1>3, <2>11 DEF Keeps, Pipes
    <2>13. Targets(r)
      BY <1>3, <2>11 DEF Targets
    <2> QED
      BY <2>1, <2>6, <2>9, <2>10, <2>12, <2>13 DEF Checked
  <1>4. CASE ~c.server
    <2> DEFINE v == Or(c.cps, DEFAULT_CPS)
    <2>1. /\ r = [c EXCEPT !["cps"] = v]
          /\ \A id \in 0 .. c.cpu_num - 1 : GetTotalSocketNum(c, id) >= (r.cps \div c.cpu_num) * c.rto
      BY <1>4, Zenon DEF CheckTarget, OkIf
    <2>2. v \in Nat /\ v > 0
      BY <1>1, ConfigAssumption DEF Or
    <2> HIDE DEF v
    <2>3. Parsed([c EXCEPT !["cps"] = v])
      BY <2>2, SetNumber DEF NatFields, Paired
    <2>4. Agree(c, r, {"cps"})
      BY <1>1, <2>1, AgreeOne DEF Fields
    <2>5. Basics(r) /\ Listens(r) /\ Keeps(r) /\ Pipes(r) /\ Waits(r) /\ Slows(r) /\ Apart(r)
      BY <1>2, <2>4, Carry
    <2>6. Queues(r) /\ Ranges(r) /\ Flows(r) /\ Dips(r) /\ Bursts(r) /\ Locals(r)
      BY <1>2, <2>4, Carry
    <2>7. /\ r.cps = v /\ r.server = c.server /\ r.rto = c.rto
          /\ r.cpu_num = c.cpu_num /\ r.ports = c.ports /\ r.cgrp = c.cgrp /\ r.sgrp = c.sgrp /\ r.flow = c.flow
          /\ r.listen_num = c.listen_num /\ r.lport_min = c.lport_min /\ r.lport_max = c.lport_max
      BY <1>1, <2>1 DEF Fields
    <2>8. ASSUME NEW w \in 0 .. r.cpu_num - 1
          PROVE  GetTotalSocketNum(r, w) >= r.rto * (r.cps \div r.cpu_num)
      <3>1. GetTotalSocketNum(r, w) = GetTotalSocketNum(c, w)
        BY <1>4, <2>7, SameSockets
      <3>2. GetTotalSocketNum(c, w) >= (r.cps \div c.cpu_num) * c.rto
        BY <2>1, <2>7, <2>8
      <3>3. c.cpu_num > 0
        BY <1>2 DEF Queues
      <3>4. (v \div c.cpu_num) * c.rto = c.rto * (v \div c.cpu_num)
        <4>1. v \div c.cpu_num \in Nat
          BY <1>1, <2>2, <3>3
        <4> DEFINE x == v \div c.cpu_num
        <4> HIDE DEF x
        <4>2. x * c.rto = c.rto * x
          BY <1>1, <4>1 DEF x
        <4> QED
          BY <4>2, Zenon DEF x
      <3> QED
        BY <2>7, <3>1, <3>2, <3>4, Zenon
    <2>9. Targets(r)
      BY <1>4, <2>2, <2>7, <2>8, Zenon DEF Targets
    <2> QED
      BY <2>1, <2>3, <2>5, <2>6, <2>9 DEF Checked
  <1> QED
    BY <1>1, <1>3, <1>4
-----------------------------------------------------------------------------
(* Every check of config_parse, in its order.                              *)
LEMMA AllChecks ==
  ASSUME NEW c, Parsed(c), NEW i \in 1 .. Checks, Checked(c, i), NEW r, r # Error, r = ConfigParse(c, i)
  PROVE  Parsed(r) /\ Checked(r, i + 1)
  <1>1. CASE i = 1
    <2>1. r = CheckMss(ParseDefaults(c))
      BY <1>1 DEF ConfigParse
    <2> QED
      BY <1>1, <2>1, Check1
  <1>2. CASE i = 2
    <2>1. r = CheckKeepalive(ListenDefault(c)) /\ Checked(c, 2)
      BY <1>2 DEF ConfigParse
    <2> QED
      BY <1>2, <2>1, Check2
  <1>3. CASE i \in {3, 7, 8, 9, 10, 14, 15, 16, 18, 20, 23, 24}
    <2>1. \/ i = 3 /\ r = CheckPipeline(c)
          \/ i = 7 /\ r = CheckClientAddr(c)
          \/ i = 8 /\ r = CheckServerAddr(c)
          \/ i = 9 /\ r = CheckAddressConflict(c)
          \/ i = 10 /\ r = CheckLocalAddr(c)
          \/ i = 14 /\ r = CheckVlan(c)
          \/ i = 15 /\ r = CheckAf(c)
          \/ i = 16 /\ r = SetPortIpRange(c)
          \/ i = 18 /\ r = CheckChangeDip(c)
          \/ i = 20 /\ r = CheckLogdir(c)
          \/ i = 23 /\ r = CheckFastClose(c)
          \/ i = 24 /\ r = CheckFlowIsolate(c)
      BY <1>3 DEF ConfigParse
    <2> QED
      BY <2>1, CheckOnly, Zenon
  <1>4. CASE i \in {4, 11, 13}
    <2>1. \/ i = 4 /\ r = CheckHttp(c)
          \/ i = 11 /\ r = CheckPayload(c)
          \/ i = 13 /\ r = CheckVxlan(c)
      BY <1>4 DEF ConfigParse
    <2> QED
      BY <2>1, CheckPayloads, Zenon
  <1>5. CASE i \in {5, 6, 12, 17, 19}
    <2>1. \/ i = 5 /\ r = CheckWait(c)
          \/ i = 6 /\ r = CheckSlowStart(c)
          \/ i = 12 /\ r = CheckPort(c)
          \/ i = 17 /\ r = CheckFlow(c)
          \/ i = 19 /\ r = TxBurstDefault(c)
      BY <1>5 DEF ConfigParse
    <2> QED
      BY <2>1, CheckAndSet, Zenon
  <1>6. CASE i = 21
    <2>1. r = CheckLportRange(c) /\ Checked(c, 21)
      BY <1>6 DEF ConfigParse
    <2> QED
      BY <1>6, <2>1, Check21
  <1>7. CASE i = 22
    <2>1. r = CheckTarget(c) /\ Checked(c, 22)
      BY <1>7 DEF ConfigParse
    <2> QED
      BY <1>7, <2>1, Check22
  <1> QED
    BY <1>1, <1>2, <1>3, <1>4, <1>5, <1>6, <1>7 DEF Checks

(* Every line of a file.                                                   *)
LEMMA LineKeeps ==
  ASSUME NEW c, Parsed(c), NEW l, WellFormed(l), NEW r, r # Error, r = KeywordParse(c, l)
  PROVE  Parsed(r)
  <1>1. CASE l.k = "#"
    BY <1>1, Zenon DEF KeywordParse
  <1>2. CASE l.k = "binary"
    <2>1. r = Error
      BY <1>2, Zenon DEF KeywordParse
    <2> QED
      BY <2>1
  <1>3. CASE l.k # "#" /\ l.k # "binary"
    <2>1. r = KeywordCall(c, l.k, l.a)
      BY <1>3, Zenon DEF KeywordParse
    <2> QED
      BY <2>1, KeywordKeeps
  <1> QED
    BY <1>1, <1>2, <1>3
-----------------------------------------------------------------------------
(* The configuration while it is read and checked.                         *)
CfgInv ==
    /\ file \in Seq(AllLines)
    /\ stage = "file" => Parsed(cfg)
    /\ stage = "check" => Parsed(cfg) /\ at \in 1 .. Checks /\ Checked(cfg, at)
    /\ stage = "accepted" => Parsed(cfg) /\ Checked(cfg, Checks + 1)

(* What Accept makes of the result of a line or a check.                   *)
LEMMA AcceptCases ==
  ASSUME NEW r, NEW s, Accept(r, s)
  PROVE  stage' = "refused" \/ (r # Error /\ stage' = s /\ cfg' = r)
  BY DEF Accept

(* Before the workers run nothing of theirs has happened.                  *)
Idle == stage # "run" => taking = {} /\ hash = <<>>

(* Reading, checking and starting keep that.                               *)
LEMMA CfgStep ==
  ASSUME CfgInv, Idle, [Next]_vars
  PROVE  CfgInv'
  <1>1. ASSUME NEW l \in AllLines, ReadLine(l)
        PROVE  CfgInv'
    <2>1. file' \in Seq(AllLines)
      BY <1>1 DEF ReadLine, CfgInv
    <2>2. stage = "file" /\ Accept(KeywordParse(cfg, l), "file")
      BY <1>1 DEF ReadLine
    <2>3. stage' = "refused" \/ (KeywordParse(cfg, l) # Error /\ stage' = "file" /\ cfg' = KeywordParse(cfg, l))
      BY <2>2, AcceptCases
    <2>4. WellFormed(l)
      BY SetupAssumption
    <2>5. stage' = "file" => Parsed(cfg')
      BY <2>2, <2>3, <2>4, LineKeeps DEF CfgInv
    <2> QED
      BY <2>1, <2>3, <2>5 DEF CfgInv
  <1>2. CASE EndOfFile
    <2>1. Checked(cfg', 1)
      BY DEF Checked
    <2> QED
      BY <1>2, <2>1 DEF EndOfFile, CfgInv, Checks
  <1>3. CASE Check
    <2> DEFINE r == ConfigParse(cfg, at)
               s == IF at = Checks THEN "accepted" ELSE "check"
    <2>1. stage = "check" /\ Accept(r, s) /\ at' = (IF at = Checks THEN 0 ELSE at + 1) /\ file' = file
      BY <1>3 DEF Check
    <2>2. stage' = "refused" \/ (r # Error /\ stage' = s /\ cfg' = r)
      BY <2>1, AcceptCases
    <2>3. Parsed(cfg) /\ at \in 1 .. Checks /\ Checked(cfg, at)
      BY <2>1 DEF CfgInv
    <2>4. r # Error => Parsed(r) /\ Checked(r, at + 1)
      BY <2>3, AllChecks
    <2> HIDE DEF r
    <2>5. CASE at = Checks
      BY <2>1, <2>2, <2>4, <2>5 DEF CfgInv
    <2>6. CASE at # Checks
      BY <2>1, <2>2, <2>3, <2>4, <2>6 DEF CfgInv, Checks
    <2> QED
      BY <2>5, <2>6
  <1>4. CASE Start
    BY <1>4 DEF Start, CfgInv
  <1>5. ASSUME stage = "run", stage' = stage, file' = file
        PROVE  CfgInv'
    BY <1>5 DEF CfgInv
  <1>6. ASSUME NEW w \in Workers, GetSocket(w) \/ GetSocketRss(w)
        PROVE  CfgInv'
    BY <1>5, <1>6 DEF GetSocket, GetSocketRss
  <1>7. ASSUME NEW w \in Workers, NEW v \in Workers, NEW t, RecvRss(w, v, t) \/ SocketClose(w, t)
        PROVE  CfgInv'
    BY <1>5, <1>7 DEF RecvRss, SocketClose
  <1>8. ASSUME NEW x \in taking, ClearCopy(x[1], x[2], x[3])
        PROVE  CfgInv'
    BY <1>5, <1>8 DEF ClearCopy, Idle
  <1>9. CASE UNCHANGED vars
    BY <1>9 DEF vars, CfgInv
  <1>10. ASSUME NEW l \in Lines \cup (IF file # <<>> THEN {Head(file)} ELSE {})
         PROVE  l \in AllLines
    BY <1>10 DEF CfgInv, AllLines
  <1> QED
    BY <1>1, <1>2, <1>3, <1>4, <1>6, <1>7, <1>8, <1>9, <1>10 DEF Next

(* Only running workers take over connections.                             *)
LEMMA IdleStep ==
  ASSUME Idle, [Next]_vars
  PROVE  Idle'
  <1>1. ASSUME NEW l, ReadLine(l)
        PROVE  Idle'
    BY <1>1, AcceptCases DEF ReadLine, Idle, running
  <1>2. CASE EndOfFile
    BY <1>2 DEF EndOfFile, Idle, running
  <1>3. CASE Check
    BY <1>3 DEF Check, Idle, running
  <1>4. CASE Start
    BY <1>4 DEF Start, Idle
  <1>5. ASSUME NEW w \in Workers, GetSocket(w) \/ GetSocketRss(w)
        PROVE  Idle'
    BY <1>5 DEF GetSocket, GetSocketRss, Idle
  <1>6. ASSUME NEW w \in Workers, NEW v \in Workers, NEW t, RecvRss(w, v, t) \/ SocketClose(w, t)
        PROVE  Idle'
    BY <1>6 DEF RecvRss, SocketClose, Idle
  <1>7. ASSUME NEW x \in taking, ClearCopy(x[1], x[2], x[3])
        PROVE  Idle'
    BY <1>7 DEF ClearCopy, Idle
  <1>8. CASE UNCHANGED vars
    BY <1>8 DEF vars, Idle
  <1> QED
    BY <1>1, <1>2, <1>3, <1>4, <1>5, <1>6, <1>7, <1>8 DEF Next

(* Nothing has been read.                                                  *)
LEMMA CfgInit ==
  ASSUME Init
  PROVE  CfgInv /\ Idle
  <1>1. file \in Seq(AllLines)
    BY SetupAssumption DEF Init
  <1>2. stage = "file" /\ cfg = Config0 /\ taking = {} /\ hash = <<>>
    BY DEF Init
  <1> QED
    BY <1>1, <1>2, ParsedFirst DEF CfgInv, Idle

(* The configuration of every behaviour.                                   *)
LEMMA CfgHolds == Spec => [](CfgInv /\ Idle)
  <1>1. Init => CfgInv /\ Idle
    BY CfgInit
  <1>2. (CfgInv /\ Idle) /\ [Next]_vars => (CfgInv /\ Idle)'
    BY CfgStep, IdleStep
  <1> QED
    BY <1>1, <1>2, PTL DEF Spec
-----------------------------------------------------------------------------
(* Every worker's share of num addresses has one.                          *)
LEMMA SplitShare ==
  ASSUME NEW num \in Nat, NEW step \in Nat, num >= step, NEW w \in 0 .. step - 1
  PROVE  IpListSplit(num, w, step) > 0
  <1> DEFINE S == {i \in 0 .. num - 1 : i >= w /\ (i - w) % step = 0}
  <1>1. IsFiniteSet(S)
    <2>1. IsFiniteSet(0 .. num - 1)
      BY FS_Interval
    <2> QED
      BY <2>1, FS_Subset
  <1>2. w \in S
    <2>1. 0 % step = 0
      OBVIOUS
    <2> QED
      BY <2>1
  <1>3. Cardinality(S) \in Nat /\ Cardinality(S) # 0
    BY <1>1, <1>2, FS_CardinalityType, FS_EmptySet
  <1> HIDE DEF S
  <1>4. Cardinality(S) > 0
    BY <1>3
  <1> QED
    BY <1>4 DEF IpListSplit, S

(* What has passed all checks.                                             *)
LEMMA CheckedSound ==
  ASSUME CfgInv
  PROVE  AcceptedSound
  <1> SUFFICES ASSUME stage = "accepted"
               PROVE  AcceptedSound
    BY DEF AcceptedSound
  <1>1. Parsed(cfg) /\ Checked(cfg, 25)
    BY DEF CfgInv, Checks
  <1>2. /\ Basics(cfg) /\ Listens(cfg) /\ Keeps(cfg) /\ Pipes(cfg) /\ Waits(cfg) /\ Slows(cfg)
        /\ Queues(cfg) /\ Dips(cfg) /\ Bursts(cfg) /\ Locals(cfg) /\ Targets(cfg)
    BY <1>1 DEF Checked
  <1>3. /\ cfg.server \in BOOLEAN /\ cfg.keepalive \in BOOLEAN /\ cfg.pipeline \in Nat /\ cfg.cpu_num \in Nat
        /\ cfg.listen \in Nat /\ cfg.listen_num \in Nat /\ cfg.interval \in Nat /\ cfg.cc \in Nat
        /\ cfg.reqnum \in Nat /\ cfg.dips.num \in Nat /\ Pacing(cfg.interval, cfg.reqnum)
    BY <1>1, PairFacts, FieldFacts DEF Interval
  <1>4. NETWORK_PORT_NUM \in Nat
    BY ConfigAssumption
  <1>5. /\ cfg.duration > 0 /\ cfg.tx_burst \in 1 .. 255 /\ cfg.rto >= 2 /\ cfg.mss > 0
        /\ cfg.queue_num * Len(cfg.ports) = cfg.cpu_num
        /\ 1 <= cfg.lport_min /\ cfg.lport_min <= cfg.lport_max /\ cfg.lport_max < NETWORK_PORT_NUM
    BY <1>2 DEF Basics, Bursts, Queues, Locals
  <1>6. /\ 1 <= cfg.listen /\ 1 <= cfg.listen_num
        /\ cfg.listen + cfg.listen_num < NETWORK_PORT_NUM \/ cfg.listen + cfg.listen_num > INT_MAX
    BY <1>2, <1>3, <1>4 DEF Listens, Listening
  <1>7. ASSUME NEW w \in Workers
        PROVE  InitChangeDip(cfg, w)
    <2>1. CASE cfg.dips.num = 0
      BY <2>1 DEF InitChangeDip
    <2>2. CASE cfg.dips.num >= cfg.cpu_num
      <3>1. IpListSplit(cfg.dips.num, w, cfg.cpu_num) > 0
        BY <1>3, <2>2, SplitShare DEF Workers
      <3> QED
        BY <3>1 DEF InitChangeDip
    <2> QED
      BY <1>2, <2>1, <2>2 DEF Dips
  <1>8. cfg.server => cfg.pipeline = 0 /\ cfg.reqnum = 0 /\ ~Has(cfg, "flood")
    BY <1>2, <1>3 DEF Pipes, Keeps, Targets, Has
  <1>9. ASSUME ~cfg.server
        PROVE  /\ cfg.cps > 0 /\ cfg.wait > 0 /\ cfg.slow_start > 0
               /\ cfg.cc > 0 => cfg.keepalive
               /\ cfg.keepalive /\ cfg.interval > 0 => cfg.interval >= TwoTicks(cfg.ticks)
               /\ cfg.interval = 0 => cfg.reqnum = 0
               /\ cfg.pipeline > 0 => cfg.keepalive /\ (Has(cfg, "flood") \/ cfg.interval = 0)
               /\ \A w \in Workers : GetTotalSocketNum(cfg, w) >= cfg.rto * (cfg.cps \div cfg.cpu_num)
    <2>1. cfg.cps > 0 /\ cfg.wait > 0 /\ cfg.slow_start > 0
      BY <1>2, <1>9 DEF Targets, Waits, Slows
    <2>2. /\ cfg.cc > 0 => cfg.keepalive
          /\ cfg.keepalive /\ cfg.interval > 0 => cfg.interval >= TwoTicks(cfg.ticks)
      BY <1>2, <1>9 DEF Keeps
    <2>3. /\ cfg.interval = 0 => cfg.reqnum = 0
          /\ cfg.pipeline > 0 => cfg.keepalive /\ (Has(cfg, "flood") \/ cfg.interval = 0)
      BY <1>2, <1>3 DEF Pacing, Pipes, Has
    <2>4. \A w \in Workers : GetTotalSocketNum(cfg, w) >= cfg.rto * (cfg.cps \div cfg.cpu_num)
      BY <1>2, <1>9, Zenon DEF Targets, Workers
    <2> QED
      BY <2>1, <2>2, <2>3, <2>4
  <1> QED
    BY <1>5, <1>6, <1>7, <1>8, <1>9 DEF AcceptedSound

(* Whatever lines a configuration file has, in whatever order: when all    *)
(* the checks of config_parse pass, what launch, keepalive, retransmission *)
(* and the socket tables are written for holds.                            *)
THEOREM AcceptedIsSound == Spec => []AcceptedSound
  <1>1. CfgInv /\ Idle => AcceptedSound
    BY CheckedSound
  <1> QED
    BY <1>1, CfgHolds, PTL
-----------------------------------------------------------------------------
(* What the workers rely on: every port has its client and its server      *)
(* addresses, no client address is of two ports, and the queues of a port  *)
(* have different server addresses with fdir.                              *)
Shares(c) ==
    /\ c.server \in BOOLEAN /\ c.flow \in {"none", "rss", "fdir"}
    /\ c.cpu_num \in Nat \ {0} /\ Len(c.ports) \in Nat \ {0} /\ PortQueueNum(c) \in Nat \ {0}
    /\ PortQueueNum(c) * Len(c.ports) = c.cpu_num
    /\ c.flow = "none" => PortQueueNum(c) = 1

Addressing(c) ==
    /\ c.listen \in Nat /\ c.listen_num \in Nat \ {0}
    /\ c.lport_min \in Nat \ {0} /\ c.lport_max \in Nat /\ c.lport_min <= c.lport_max
    /\ \A p \in 1 .. Len(c.ports) : AddressList(c.cgrp[p].list) /\ AddressList(c.sgrp[p].list)
    /\ \A p, q \in 1 .. Len(c.ports) :
         \A i \in 1 .. Len(c.cgrp[p].list), j \in 1 .. Len(c.cgrp[q].list) :
            p # q \/ i # j => Low2Byte(c.cgrp[p].list[i]) # Low2Byte(c.cgrp[q].list[j])
    /\ \A p \in 1 .. Len(c.ports) : Consecutive(c.sgrp[p].list)
    /\ c.flow = "fdir" => \A p \in 1 .. Len(c.ports) : Len(c.sgrp[p].list) = PortQueueNum(c)

(* The 4-tuple has a client address of the worker's port.                  *)
On(w, t) == \E i \in 1 .. Len(cfg.cgrp[PortOf(cfg, w)].list) : t.cip = cfg.cgrp[PortOf(cfg, w)].list[i]

(* w may have the connection: it is its own, or the NIC sends it the       *)
(* packets and it has taken it, or is taking it, over from its owner.      *)
TakenOver(w, t) ==
    /\ t \in DOMAIN hash /\ hash[t] = w
    /\ \E v \in Workers :
         PortOf(cfg, v) = PortOf(cfg, w) /\ RssOwn(v, t) /\ (t \in gone[v] \/ <<w, v, t>> \in taking)

Owners ==
    \A w \in Workers : \A t \in open[w] :
        /\ On(w, t)
        /\ cfg.flow = "fdir" => t.sip = IpRangeGet(cfg.sgrp[PortOf(cfg, w)], QueueOf(cfg, w))
        /\ cfg.flow = "rss" => RssOwn(w, t) \/ TakenOver(w, t)

Hashed == \A t \in DOMAIN hash : hash[t] \in Workers /\ On(hash[t], t)

GivenAway == \A v \in Workers : \A t \in gone[v] : t \in DOMAIN hash /\ hash[t] # v

Takeovers ==
    \A x \in taking : \E w, v \in Workers, t \in DOMAIN hash :
        /\ x = <<w, v, t>> /\ v # w /\ hash[t] = w
        /\ PortOf(cfg, v) = PortOf(cfg, w) /\ RssOwn(v, t)

RunInv ==
    stage = "run" =>
        /\ Shares(cfg)
        /\ DOMAIN next = Workers /\ DOMAIN open = Workers /\ DOMAIN gone = Workers
        /\ ~cfg.server => Addressing(cfg) /\ Owners
        /\ cfg.server => \A w \in Workers : open[w] = {}
        /\ cfg.server \/ cfg.flow # "rss" => DOMAIN hash = {}
        /\ ~cfg.server /\ cfg.flow # "rss" => \A w \in Workers : next[w] \in 0 .. SocketNum(cfg, w) - 1
        /\ ~cfg.server => Hashed
        /\ GivenAway /\ Takeovers
-----------------------------------------------------------------------------
(* Division of numbers.                                                    *)
LEMMA Quotient ==
  ASSUME NEW q \in Nat, NEW k \in Nat \ {0}
  PROVE  (q * k) \div k = q
  OBVIOUS

(* A number below n * m has a quotient below n.                            *)
LEMMA DivBelow ==
  ASSUME NEW k \in Nat, NEW m \in Nat \ {0}, NEW n \in Nat, k < n * m
  PROVE  k \div m \in 0 .. n - 1
  <1>1. k \div m \in Nat /\ k = m * (k \div m) + (k % m) /\ k % m \in 0 .. m - 1
    OBVIOUS
  <1> DEFINE d == k \div m
  <1>2. m * d <= k
    BY <1>1
  <1> HIDE DEF d
  <1>3. d \in Nat /\ (d >= n => m * d >= n * m)
    BY <1>1 DEF d
  <1>4. m * d \in Nat /\ n * m \in Nat
    BY <1>3
  <1>5. d < n
    BY <1>2, <1>3, <1>4
  <1> QED
    BY <1>3, <1>5 DEF d

(* A worker is its port and its queue.                                     *)
LEMMA PortAndQueue ==
  ASSUME NEW c, Shares(c), NEW w \in 0 .. c.cpu_num - 1
  PROVE  /\ PortOf(c, w) \in 1 .. Len(c.ports) /\ QueueOf(c, w) \in 0 .. PortQueueNum(c) - 1
         /\ w = PortQueueNum(c) * (PortOf(c, w) - 1) + QueueOf(c, w)
  <1> DEFINE Q == PortQueueNum(c)
             n == Len(c.ports)
  <1>1. Q \in Nat \ {0} /\ n \in Nat \ {0} /\ Q * n = c.cpu_num /\ w \in Nat /\ w < Q * n
    BY DEF Shares
  <1>2. PortOf(c, w) = w \div Q + 1 /\ QueueOf(c, w) = w % Q
    BY DEF PortOf, QueueOf
  <1> HIDE DEF Q, n
  <1>3. w \div Q \in 0 .. n - 1
    <2>1. Q * n = n * Q
      BY <1>1
    <2> QED
      BY <1>1, <2>1, DivBelow
  <1>4. w % Q \in 0 .. Q - 1 /\ w = Q * (w \div Q) + (w % Q)
    BY <1>1
  <1>5. PortOf(c, w) - 1 = w \div Q
    BY <1>2, <1>3
  <1>6. PortOf(c, w) \in 1 .. n
    BY <1>1, <1>2, <1>3
  <1> QED
    BY <1>2, <1>4, <1>5, <1>6 DEF Q, n

(* Two workers with the same port and queue are one.                       *)
LEMMA SameWorker ==
  ASSUME NEW c, Shares(c), NEW v \in 0 .. c.cpu_num - 1, NEW w \in 0 .. c.cpu_num - 1,
         PortOf(c, v) = PortOf(c, w), QueueOf(c, v) = QueueOf(c, w)
  PROVE  v = w
  <1>1. v = PortQueueNum(c) * (PortOf(c, v) - 1) + QueueOf(c, v)
    BY PortAndQueue
  <1>2. w = PortQueueNum(c) * (PortOf(c, w) - 1) + QueueOf(c, w)
    BY PortAndQueue
  <1> QED
    BY <1>1, <1>2, Zenon

(* What the workers are started with.                                      *)
LEMMA Started ==
  ASSUME NEW c, Parsed(c), Checked(c, Checks + 1), NEW r,
         r.server = c.server, r.flow = c.flow, r.cpu_num = c.cpu_num, Len(r.ports) = Len(c.ports),
         r.cgrp = c.cgrp, r.sgrp = c.sgrp, r.listen = c.listen, r.listen_num = c.listen_num,
         r.lport_min = c.lport_min, r.lport_max = c.lport_max
  PROVE  Shares(r) /\ (~r.server => Addressing(r))
  <1>1. /\ r.server = c.server /\ r.flow = c.flow /\ r.cpu_num = c.cpu_num
        /\ r.cgrp = c.cgrp /\ r.sgrp = c.sgrp /\ r.listen = c.listen /\ r.listen_num = c.listen_num
        /\ r.lport_min = c.lport_min /\ r.lport_max = c.lport_max
    OBVIOUS
  <1>2. Listens(c) /\ Apart(c) /\ Queues(c) /\ Ranges(c) /\ Flows(c) /\ Locals(c)
    BY DEF Checked, Checks
  <1>3. /\ c.server \in BOOLEAN /\ c.flow \in {"none", "rss", "fdir"} /\ c.cpu_num \in Nat
        /\ c.listen \in Nat /\ c.listen_num \in Nat /\ c.lport_min \in Nat /\ c.lport_max \in Nat
        /\ Sequence(c.ports) /\ AddressGroup(c.cgrp) /\ AddressGroup(c.sgrp)
        /\ \A g \in 1 .. Len(c.sgrp) : Consecutive(c.sgrp[g].list)
    BY FieldFacts
  <1>4. Len(c.ports) \in Nat \ {0}
    <2>1. PICK S : c.ports \in Seq(S)
      BY <1>3 DEF Sequence
    <2>2. Len(c.ports) \in Nat
      BY <2>1
    <2> QED
      BY <1>2, <2>2 DEF Queues
  <1>5. Len(r.ports) = Len(c.ports)
    OBVIOUS
  <1>6. PortQueueNum(r) = c.queue_num
    <2>1. c.queue_num \in Nat \ {0} /\ c.queue_num * Len(c.ports) = c.cpu_num
      BY <1>2 DEF Queues
    <2>2. (c.queue_num * Len(c.ports)) \div Len(c.ports) = c.queue_num
      BY <1>4, <2>1, Quotient
    <2> QED
      BY <1>1, <1>5, <2>1, <2>2, Zenon DEF PortQueueNum
  <1>7. Shares(r)
    <2>1. r.cpu_num \in Nat \ {0} /\ c.queue_num \in Nat \ {0} /\ c.queue_num * Len(c.ports) = r.cpu_num
      BY <1>1, <1>2, <1>3 DEF Queues
    <2>2. ASSUME r.flow = "none" PROVE c.queue_num = 1
      <3>1. c.cpu_num = Len(c.ports)
        BY <1>1, <1>2, <2>2 DEF Flows
      <3>2. (c.queue_num * Len(c.ports)) \div Len(c.ports) = c.queue_num
        BY <1>4, <2>1, Quotient
      <3>3. Len(c.ports) \div Len(c.ports) = 1
        <4>1. (1 * Len(c.ports)) \div Len(c.ports) = 1
          BY <1>4, Quotient
        <4>2. 1 * Len(c.ports) = Len(c.ports)
          BY <1>4
        <4> QED
          BY <4>1, <4>2, Zenon
      <3> QED
        BY <1>1, <2>1, <3>1, <3>2, <3>3, Zenon
    <2> QED
      BY <1>1, <1>3, <1>4, <1>5, <1>6, <2>1, <2>2, Zenon DEF Shares
  <1>8. ASSUME ~c.server
        PROVE  Addressing(r)
    <2>1. /\ r.listen \in Nat /\ r.listen_num \in Nat \ {0} /\ r.lport_min \in Nat \ {0}
          /\ r.lport_max \in Nat /\ r.lport_min <= r.lport_max
      BY <1>1, <1>2, <1>3 DEF Listens, Locals
    <2>2. Len(c.cgrp) = Len(c.ports) /\ Len(c.sgrp) = Len(c.ports)
      BY <1>2, <1>8 DEF Ranges
    <2>3. \A p \in 1 .. Len(c.ports) : AddressList(c.cgrp[p].list) /\ AddressList(c.sgrp[p].list)
      BY <1>3, <2>2, Zenon DEF AddressGroup
    <2>4. ASSUME NEW p \in 1 .. Len(c.ports), NEW q \in 1 .. Len(c.ports),
                 NEW i \in 1 .. Len(c.cgrp[p].list), NEW j \in 1 .. Len(c.cgrp[q].list), p # q \/ i # j
          PROVE  Low2Byte(c.cgrp[p].list[i]) # Low2Byte(c.cgrp[q].list[j])
      <3>1. p \in Groups(c.cgrp) /\ q \in Groups(c.cgrp)
        BY <2>2 DEF Groups
      <3>2. <<p, i>> \in Members(c.cgrp) /\ <<q, j>> \in Members(c.cgrp)
        BY <3>1 DEF Members
      <3>3. <<p, i>> # <<q, j>> /\ <<p, i>>[1] = p /\ <<p, i>>[2] = i /\ <<q, j>>[1] = q /\ <<q, j>>[2] = j
        BY <2>4
      <3> QED
        BY <1>2, <3>2, <3>3 DEF Apart, GroupApart
    <2>5. ASSUME c.flow = "fdir", NEW p \in 1 .. Len(c.ports)
          PROVE  Len(c.sgrp[p].list) = c.queue_num
      BY <1>2, <2>5, Zenon DEF Flows
    <2>6. \A p, q \in 1 .. Len(c.ports) :
            \A i \in 1 .. Len(c.cgrp[p].list), j \in 1 .. Len(c.cgrp[q].list) :
                p # q \/ i # j => Low2Byte(c.cgrp[p].list[i]) # Low2Byte(c.cgrp[q].list[j])
      BY <2>4
    <2>7. /\ \A p \in 1 .. Len(c.ports) : Consecutive(c.sgrp[p].list)
          /\ c.flow = "fdir" => \A p \in 1 .. Len(c.ports) : Len(c.sgrp[p].list) = c.queue_num
      BY <1>3, <2>2, <2>5
    <2>8. \A p \in 1 .. Len(r.ports) : AddressList(r.cgrp[p].list) /\ AddressList(r.sgrp[p].list)
      BY <1>1, <1>5, <2>3, Zenon
    <2>9. \A p, q \in 1 .. Len(r.ports) :
            \A i \in 1 .. Len(r.cgrp[p].list), j \in 1 .. Len(r.cgrp[q].list) :
                p # q \/ i # j => Low2Byte(r.cgrp[p].list[i]) # Low2Byte(r.cgrp[q].list[j])
      BY <1>1, <1>5, <2>6
    <2>10. /\ \A p \in 1 .. Len(r.ports) : Consecutive(r.sgrp[p].list)
           /\ r.flow = "fdir" => \A p \in 1 .. Len(r.ports) : Len(r.sgrp[p].list) = PortQueueNum(r)
      BY <1>1, <1>5, <1>6, <2>7
    <2> QED
      BY <2>1, <2>8, <2>9, <2>10, Zenon DEF Addressing
  <1> QED
    BY <1>1, <1>7, <1>8
-----------------------------------------------------------------------------
(* The sockets of a client address, times the addresses, are the pool.     *)
LEMMA PoolProduct ==
  ASSUME NEW C \in Nat \ {0}, NEW L \in Nat \ {0}, NEW A \in Nat \ {0}, NEW T \in Nat \ {0}
  PROVE  /\ A * (T * L) \in Nat \ {0} /\ C * (A * (T * L)) \in Nat \ {0}
         /\ C * L * A * T = C * (A * (T * L))
  <1>1. T * L \in Nat \ {0}
    OBVIOUS
  <1>2. A * (T * L) \in Nat \ {0}
    BY <1>1
  <1>3. C * (A * (T * L)) \in Nat \ {0}
    BY <1>2
  <1>4. C * L * A * T = C * (A * (T * L))
    OBVIOUS
  <1> QED
    BY <1>2, <1>3, <1>4

(* A number in a uint32_t.                                                 *)
LEMMA Wrapped ==
  ASSUME NEW n \in Nat
  PROVE  n % UINT32_NUM \in 0 .. n /\ (n < UINT32_NUM => n % UINT32_NUM = n)
  <1> DEFINE U == UINT32_NUM
  <1>1. U \in Nat \ {0}
    BY CheckAssumption
  <1> HIDE DEF U
  <1>2. n \div U \in Nat /\ n = U * (n \div U) + (n % U) /\ n % U \in 0 .. U - 1
    BY <1>1
  <1>3. U * (n \div U) \in Nat
    BY <1>1, <1>2
  <1>4. n % U \in 0 .. n
    BY <1>2, <1>3
  <1>5. ASSUME n < U PROVE n % U = n
    <2>1. n \div U \in 0 .. 1 - 1
      BY <1>1, <1>5, DivBelow
    <2>2. n \div U = 0
      BY <2>1
    <2> QED
      BY <1>1, <1>2, <2>2
  <1> QED
    BY <1>4, <1>5 DEF U

(* The pool of a client's worker.                                          *)
LEMMA ClientPool ==
  ASSUME NEW c, Shares(c), ~c.server, Addressing(c), NEW w \in 0 .. c.cpu_num - 1,
         NEW st, st = SocketTableInit(c, w)
  PROVE  /\ PortTableSize(st) \in Nat \ {0} /\ Len(st.cips) \in Nat \ {0}
         /\ SocketNum(c, w) = Len(st.cips) * PortTableSize(st)
         /\ SocketNum(c, w) \in Nat \ {0} /\ GetTotalSocketNum(c, w) \in 0 .. SocketNum(c, w)
         /\ SocketNum(c, w) < UINT32_NUM => GetTotalSocketNum(c, w) = SocketNum(c, w)
         /\ st.cips = c.cgrp[PortOf(c, w)].list
         /\ c.flow = "fdir" => st.sipNum = 1 /\ st.sipMin = IpRangeGet(c.sgrp[PortOf(c, w)], QueueOf(c, w))
  <1> DEFINE p == PortOf(c, w)
             C == Len(c.cgrp[p].list)
             S == Len(c.sgrp[p].list)
             A == c.lport_max - c.lport_min + 1
             T == IF c.flow = "fdir" THEN 1 ELSE S
  <1>1. p \in 1 .. Len(c.ports)
    BY PortAndQueue
  <1> HIDE DEF p
  <1>2. AddressList(c.cgrp[p].list) /\ AddressList(c.sgrp[p].list)
    BY <1>1 DEF Addressing
  <1>3. C \in Nat \ {0} /\ S \in Nat \ {0}
    BY <1>2 DEF AddressList
  <1>4. c.listen_num \in Nat \ {0} /\ A \in Nat \ {0}
    BY DEF Addressing
  <1>5. T \in Nat \ {0}
    BY <1>3
  <1>6. /\ st.cips = c.cgrp[p].list /\ st.sipNum = T /\ st.spNum = c.listen_num
        /\ st.cpMin = c.lport_min /\ st.cpMax = c.lport_max
        /\ c.flow = "fdir" => st.sipMin = IpRangeGet(c.sgrp[p], QueueOf(c, w))
    BY Zenon DEF SocketTableInit, p
  <1>7. PortTableSize(st) = A * (T * c.listen_num) /\ Len(st.cips) = C
    BY <1>6, Zenon DEF PortTableSize, ServerIpPortNum
  <1>8. SocketNum(c, w) = IF c.flow = "fdir" THEN C * c.listen_num * A ELSE C * c.listen_num * A * S
    BY Zenon DEF SocketNum, ClientIpRangeSocketNum, p
  <1>9. SocketNum(c, w) = C * c.listen_num * A * T
    <2>1. CASE c.flow = "fdir"
      <3> HIDE DEF C, A
      <3>1. C * c.listen_num * A \in Nat
        BY <1>3, <1>4
      <3>2. C * c.listen_num * A * 1 = C * c.listen_num * A
        BY <3>1
      <3> QED
        BY <1>8, <2>1, <3>2
    <2>2. CASE c.flow # "fdir"
      BY <1>8, <2>2, Zenon
    <2> QED
      BY <2>1, <2>2
  <1> HIDE DEF C, A, T
  <1>10. /\ A * (T * c.listen_num) \in Nat \ {0} /\ C * (A * (T * c.listen_num)) \in Nat \ {0}
         /\ C * c.listen_num * A * T = C * (A * (T * c.listen_num))
    <2> DEFINE L == c.listen_num
    <2>1. C \in Nat \ {0} /\ L \in Nat \ {0} /\ A \in Nat \ {0} /\ T \in Nat \ {0}
      BY <1>3, <1>4, <1>5
    <2> HIDE DEF L
    <2>2. /\ A * (T * L) \in Nat \ {0} /\ C * (A * (T * L)) \in Nat \ {0}
          /\ C * L * A * T = C * (A * (T * L))
      BY ONLY <2>1, PoolProduct
    <2> QED
      BY <2>2 DEF L
  <1>11. c.flow = "fdir" => st.sipNum = 1
    BY <1>6 DEF T
  <1>12. SocketNum(c, w) \in Nat
    BY <1>9, <1>10, Zenon
  <1>13. /\ GetTotalSocketNum(c, w) \in 0 .. SocketNum(c, w)
         /\ SocketNum(c, w) < UINT32_NUM => GetTotalSocketNum(c, w) = SocketNum(c, w)
    BY <1>12, Wrapped DEF GetTotalSocketNum
  <1> QED
    BY <1>3, <1>6, <1>7, <1>9, <1>10, <1>11, <1>13, Zenon DEF p

(* The sockets of a pool are of the worker's port, and with fdir of its    *)
(* server address.                                                         *)
LEMMA TupleOn ==
  ASSUME Shares(cfg), ~cfg.server, Addressing(cfg), NEW w \in Workers,
         NEW k \in 0 .. SocketNum(cfg, w) - 1
  PROVE  /\ On(w, TupleAt(w, k))
         /\ cfg.flow = "fdir" => TupleAt(w, k).sip = IpRangeGet(cfg.sgrp[PortOf(cfg, w)], QueueOf(cfg, w))
  <1> DEFINE st == SocketTableInit(cfg, w)
             P == PortTableSize(st)
             j == k % P
             i == k \div P + 1
             t == TupleAt(w, k)
  <1>1. w \in 0 .. cfg.cpu_num - 1
    BY DEF Workers
  <1>2. /\ t.cip = st.cips[i]
        /\ t.sip = st.sipMin + (j % st.sipNum)
    BY Zenon DEF TupleAt
  <1> HIDE DEF st
  <1>3. /\ P \in Nat \ {0} /\ Len(st.cips) \in Nat \ {0}
        /\ SocketNum(cfg, w) = Len(st.cips) * P /\ SocketNum(cfg, w) \in Nat
        /\ st.cips = cfg.cgrp[PortOf(cfg, w)].list
        /\ cfg.flow = "fdir" => st.sipNum = 1 /\ st.sipMin = IpRangeGet(cfg.sgrp[PortOf(cfg, w)], QueueOf(cfg, w))
    BY <1>1, ClientPool DEF st
  <1> HIDE DEF P, t
  <1>4. k \in Nat /\ k < Len(st.cips) * P
    BY <1>3
  <1>5. k \div P \in 0 .. Len(st.cips) - 1
    BY <1>3, <1>4, DivBelow
  <1>6. i \in 1 .. Len(st.cips)
    BY <1>3, <1>5
  <1> HIDE DEF i
  <1>7. On(w, t)
    BY <1>2, <1>3, <1>6 DEF On
  <1>8. ASSUME cfg.flow = "fdir"
        PROVE  t.sip = IpRangeGet(cfg.sgrp[PortOf(cfg, w)], QueueOf(cfg, w))
    <2>1. j \in Nat
      BY <1>3, <1>4
    <2> HIDE DEF j
    <2>2. j % 1 = 0
      BY <2>1
    <2>3. st.sipMin \in Nat
      <3>1. PortOf(cfg, w) \in 1 .. Len(cfg.ports)
        BY <1>1, PortAndQueue
      <3>2. cfg.sgrp[PortOf(cfg, w)].list \in Seq(Nat) /\ Len(cfg.sgrp[PortOf(cfg, w)].list) > 0
        BY <3>1 DEF Addressing, AddressList
      <3>3. QueueOf(cfg, w) \in Nat
        BY <1>1, PortAndQueue DEF Shares
      <3> DEFINE l == cfg.sgrp[PortOf(cfg, w)].list
                 q == QueueOf(cfg, w)
      <3>4. IpRangeGet(cfg.sgrp[PortOf(cfg, w)], q) = l[(q % Len(l)) + 1]
        BY DEF IpRangeGet
      <3> HIDE DEF l, q
      <3>5. (q % Len(l)) + 1 \in 1 .. Len(l)
        BY <3>2, <3>3 DEF l, q
      <3>6. l \in Seq(Nat)
        BY <3>2 DEF l
      <3>7. l[(q % Len(l)) + 1] \in Nat
        BY ONLY <3>5, <3>6
      <3> QED
        BY <1>3, <1>8, <3>4, <3>7 DEF q
    <2>4. t.sip = st.sipMin
      BY <1>2, <1>3, <1>8, <2>2, <2>3
    <2> QED
      BY <1>3, <1>8, <2>4
  <1> QED
    BY <1>7, <1>8 DEF t

(* The pointer into the pool stays in it.                                  *)
LEMMA NextInPool ==
  ASSUME NEW all \in Nat \ {0}, NEW num \in 0 .. all, NEW n \in 0 .. all - 1, NEW hop \in Nat
  PROVE  NextSocket(n, num, hop) \in 0 .. all - 1
  BY DEF NextSocket
-----------------------------------------------------------------------------
(* What the fixed configuration determines stays.                          *)
LEMMA SameCfg ==
  ASSUME cfg' = cfg
  PROVE  /\ Workers' = Workers /\ Shares(cfg)' = Shares(cfg) /\ Addressing(cfg)' = Addressing(cfg)
         /\ \A w, t : On(w, t)' = On(w, t) /\ RssOwn(w, t)' = RssOwn(w, t)
  <1>1. Workers' = Workers
    BY DEF Workers
  <1>2. Shares(cfg)' = Shares(cfg) /\ Addressing(cfg)' = Addressing(cfg)
    BY Zenon
  <1>3. ASSUME NEW w, NEW t
        PROVE  On(w, t)' = On(w, t) /\ RssOwn(w, t)' = RssOwn(w, t)
    BY Zenon DEF On, RssOwn
  <1> QED
    BY <1>1, <1>2, <1>3

(* The parts of the invariant.                                             *)
LEMMA RunFacts ==
  ASSUME RunInv, stage = "run"
  PROVE  /\ Shares(cfg) /\ DOMAIN next = Workers /\ DOMAIN open = Workers /\ DOMAIN gone = Workers
         /\ ~cfg.server => Addressing(cfg) /\ Owners /\ Hashed
         /\ cfg.server => \A w \in Workers : open[w] = {}
         /\ cfg.server \/ cfg.flow # "rss" => DOMAIN hash = {}
         /\ ~cfg.server /\ cfg.flow # "rss" => \A w \in Workers : next[w] \in 0 .. SocketNum(cfg, w) - 1
         /\ GivenAway /\ Takeovers
  BY DEF RunInv

(* The first state of the workers.                                         *)
LEMMA RunStart ==
  ASSUME CfgInv, Idle, Start
  PROVE  RunInv'
  <1>1. Parsed(cfg) /\ Checked(cfg, Checks + 1) /\ stage = "accepted"
    BY DEF Start, CfgInv
  <1>2. Shares(cfg') /\ (~cfg'.server => Addressing(cfg'))
    <2> DEFINE r == cfg'
    <2>1. Len(cfg.ports) \in Nat
      <3>1. PICK S : cfg.ports \in Seq(S)
        BY <1>1, FieldFacts DEF Sequence
      <3> QED
        BY <3>1
    <2>2. /\ r.server = cfg.server /\ r.flow = cfg.flow /\ r.cpu_num = cfg.cpu_num
          /\ r.ports = [p \in 1 .. Len(cfg.ports) |-> p]
          /\ r.cgrp = cfg.cgrp /\ r.sgrp = cfg.sgrp /\ r.listen = cfg.listen /\ r.listen_num = cfg.listen_num
          /\ r.lport_min = cfg.lport_min /\ r.lport_max = cfg.lport_max
      BY Zenon DEF Start
    <2> HIDE DEF r
    <2>3. Len(r.ports) = Len(cfg.ports)
      BY <2>1, <2>2
    <2>4. Shares(r) /\ (~r.server => Addressing(r))
      BY <1>1, <2>2, <2>3, Started
    <2> QED
      BY <2>4 DEF r
  <1>3. cfg'.cpu_num = cfg.cpu_num /\ cfg'.server = cfg.server
    BY DEF Start
  <1>4. Workers' = Workers
    BY <1>3 DEF Workers
  <1>5. taking' = {} /\ hash' = <<>> /\ DOMAIN hash' = {}
    BY <1>1 DEF Start, Idle
  <1>6. /\ next' = [w \in Workers |-> 0] /\ open' = [w \in Workers |-> {}] /\ gone' = [w \in Workers |-> {}]
    BY DEF Start
  <1>7. DOMAIN next' = Workers' /\ DOMAIN open' = Workers' /\ DOMAIN gone' = Workers'
    BY <1>4, <1>6
  <1>8. \A w \in Workers' : open'[w] = {} /\ gone'[w] = {} /\ next'[w] = 0
    BY <1>4, <1>6
  <1>9. Owners' /\ Hashed' /\ GivenAway' /\ Takeovers'
    BY <1>5, <1>8 DEF Owners, Hashed, GivenAway, Takeovers
  <1>10. ASSUME ~cfg'.server, NEW w \in Workers'
         PROVE  next'[w] \in 0 .. SocketNum(cfg', w) - 1
    <2>1. w \in 0 .. cfg'.cpu_num - 1
      BY <1>10 DEF Workers
    <2>2. SocketNum(cfg', w) \in Nat \ {0}
      BY <1>2, <1>10, <2>1, ClientPool
    <2> QED
      BY <1>8, <2>2
  <1> QED
    BY <1>2, <1>5, <1>7, <1>8, <1>9, <1>10 DEF RunInv

(* A launch without rss.                                                   *)
LEMMA RunGetSocket ==
  ASSUME RunInv, NEW w \in Workers, GetSocket(w)
  PROVE  RunInv'
  <1> DEFINE num == GetTotalSocketNum(cfg, w)
             t == TupleAt(w, next[w])
  <1>1. /\ stage = "run" /\ ~cfg.server /\ cfg.flow # "rss" /\ stage' = stage /\ cfg' = cfg
        /\ gone' = gone /\ hash' = hash /\ taking' = taking
        /\ open' = [open EXCEPT ![w] = open[w] \cup {t}]
        /\ next' = [next EXCEPT ![w] = NextSocket(next[w], num, Hop)]
    BY DEF GetSocket
  <1>2. /\ Shares(cfg) /\ DOMAIN next = Workers /\ DOMAIN open = Workers /\ DOMAIN gone = Workers
        /\ Addressing(cfg) /\ Owners /\ Hashed /\ GivenAway /\ Takeovers /\ DOMAIN hash = {}
        /\ \A u \in Workers : next[u] \in 0 .. SocketNum(cfg, u) - 1
    BY <1>1, RunFacts
  <1>3. /\ Workers' = Workers /\ Shares(cfg)' /\ Addressing(cfg)'
        /\ \A u, s : On(u, s)' = On(u, s) /\ RssOwn(u, s)' = RssOwn(u, s)
    BY <1>1, <1>2, SameCfg
  <1>4. SocketNum(cfg, w) \in Nat \ {0} /\ num \in 0 .. SocketNum(cfg, w)
    BY <1>1, <1>2, ClientPool DEF Workers
  <1>5. On(w, t) /\ (cfg.flow = "fdir" => t.sip = IpRangeGet(cfg.sgrp[PortOf(cfg, w)], QueueOf(cfg, w)))
    BY <1>1, <1>2, TupleOn
  <1>6. Hop \in Nat
    <2>1. NETWORK_PORT_NUM \in Nat /\ NETWORK_PORT_NUM > 1
      BY ConfigAssumption
    <2> QED
      BY <2>1 DEF Hop
  <1> HIDE DEF num, t
  <1>7. NextSocket(next[w], num, Hop) \in 0 .. SocketNum(cfg, w) - 1
    BY <1>2, <1>4, <1>6, NextInPool
  <1>8. \A u \in Workers : next'[u] \in 0 .. SocketNum(cfg, u) - 1
    BY <1>1, <1>2, <1>7
  <1>9. ASSUME NEW u \in Workers, NEW s \in open'[u]
        PROVE  /\ On(u, s)
               /\ cfg.flow = "fdir" => s.sip = IpRangeGet(cfg.sgrp[PortOf(cfg, u)], QueueOf(cfg, u))
    <2>1. s \in open[u] \/ (u = w /\ s = t)
      BY <1>1, <1>2, <1>9
    <2>2. CASE s \in open[u]
      BY <1>2, <2>2 DEF Owners
    <2>3. CASE u = w /\ s = t
      BY <1>5, <2>3
    <2> QED
      BY <2>1, <2>2, <2>3
  <1>10. Owners'
    BY <1>1, <1>3, <1>9 DEF Owners
  <1>11. Hashed' /\ GivenAway' /\ Takeovers'
    <2>1. DOMAIN hash' = {}
      BY <1>1, <1>2
    <2>2. \A v \in Workers : gone[v] = {}
      BY <1>2 DEF GivenAway
    <2>3. taking = {}
      BY <1>2 DEF Takeovers
    <2> QED
      BY <1>1, <1>3, <2>1, <2>2, <2>3 DEF Hashed, GivenAway, Takeovers
  <1>12. DOMAIN next' = Workers /\ DOMAIN open' = Workers /\ DOMAIN gone' = Workers /\ DOMAIN hash' = {}
    BY <1>1, <1>2
  <1> QED
    BY <1>1, <1>3, <1>8, <1>10, <1>11, <1>12 DEF RunInv

(* A launch with rss takes a socket of the worker's own.                   *)
LEMMA RunGetSocketRss ==
  ASSUME RunInv, NEW w \in Workers, GetSocketRss(w)
  PROVE  RunInv'
  <1>1. /\ stage = "run" /\ ~cfg.server /\ cfg.flow = "rss" /\ stage' = stage /\ cfg' = cfg
        /\ gone' = gone /\ hash' = hash /\ taking' = taking
    BY DEF GetSocketRss
  <1>2. PICK k \in NextRss(next[w], GetTotalSocketNum(cfg, w), RssSockets(w)) :
          /\ k < GetTotalSocketNum(cfg, w)
          /\ open' = [open EXCEPT ![w] = open[w] \cup {TupleAt(w, k)}]
          /\ next' = [next EXCEPT ![w] = HopRss(k, GetTotalSocketNum(cfg, w), Hop)]
    BY DEF GetSocketRss
  <1> DEFINE t == TupleAt(w, k)
             num == GetTotalSocketNum(cfg, w)
  <1>3. /\ Shares(cfg) /\ DOMAIN next = Workers /\ DOMAIN open = Workers /\ DOMAIN gone = Workers
        /\ Addressing(cfg) /\ Owners /\ Hashed /\ GivenAway /\ Takeovers
    BY <1>1, RunFacts
  <1>4. num \in 0 .. SocketNum(cfg, w) /\ SocketNum(cfg, w) \in Nat
    BY <1>1, <1>3, ClientPool DEF Workers
  <1>5. k \in RssSockets(w)
    <2> HIDE DEF num
    <2>1. k \in RssSockets(w) \/ k = num
      BY <1>2, Zenon DEF NextRss, num
    <2>2. k # num
      BY <1>2, <1>4 DEF num
    <2> QED
      BY <2>1, <2>2
  <1>6. k \in 0 .. num - 1 /\ RssOwn(w, t)
    BY <1>5 DEF RssSockets
  <1>7. On(w, t)
    <2>1. k \in 0 .. SocketNum(cfg, w) - 1
      BY <1>4, <1>6
    <2> QED
      BY <1>1, <1>3, <2>1, TupleOn
  <1>8. /\ Workers' = Workers /\ Shares(cfg)' /\ Addressing(cfg)'
        /\ \A u, s : On(u, s)' = On(u, s) /\ RssOwn(u, s)' = RssOwn(u, s)
    BY <1>1, <1>3, SameCfg
  <1> HIDE DEF t, num
  <1>9. ASSUME NEW u \in Workers, NEW s
        PROVE  TakenOver(u, s)' = TakenOver(u, s)
    BY <1>1, <1>8, Zenon DEF TakenOver
  <1>10. ASSUME NEW u \in Workers, NEW s \in open'[u]
         PROVE  On(u, s) /\ (RssOwn(u, s) \/ TakenOver(u, s))
    <2>1. s \in open[u] \/ (u = w /\ s = t)
      BY <1>2, <1>3, <1>10 DEF t
    <2>2. CASE s \in open[u]
      BY <1>1, <1>3, <2>2 DEF Owners
    <2>3. CASE u = w /\ s = t
      BY <1>6, <1>7, <2>3
    <2> QED
      BY <2>1, <2>2, <2>3
  <1>11. Owners'
    <2>1. cfg'.flow # "fdir"
      BY <1>1
    <2> QED
      BY <1>8, <1>9, <1>10, <2>1 DEF Owners
  <1>12. Hashed' /\ GivenAway'
    BY <1>1, <1>3, <1>8, Zenon DEF Hashed, GivenAway
  <1>13. Takeovers'
    BY <1>1, <1>3, <1>8, Zenon DEF Takeovers
  <1>14. DOMAIN next' = Workers /\ DOMAIN open' = Workers /\ DOMAIN gone' = Workers
    BY <1>1, <1>2, <1>3
  <1> QED
    BY <1>1, <1>8, <1>11, <1>12, <1>13, <1>14 DEF RunInv

(* A socket is closed.                                                     *)
LEMMA RunClose ==
  ASSUME RunInv, NEW w \in Workers, NEW t, SocketClose(w, t)
  PROVE  RunInv'
  <1>1. /\ stage = "run" /\ stage' = stage /\ cfg' = cfg /\ next' = next
        /\ gone' = gone /\ hash' = hash /\ taking' = taking
        /\ open' = [open EXCEPT ![w] = open[w] \ {t}] /\ t \in open[w]
    BY DEF SocketClose
  <1>2. /\ Shares(cfg) /\ DOMAIN next = Workers /\ DOMAIN open = Workers /\ DOMAIN gone = Workers
        /\ ~cfg.server => Addressing(cfg) /\ Owners /\ Hashed
        /\ cfg.server => \A u \in Workers : open[u] = {}
        /\ cfg.server \/ cfg.flow # "rss" => DOMAIN hash = {}
        /\ ~cfg.server /\ cfg.flow # "rss" => \A u \in Workers : next[u] \in 0 .. SocketNum(cfg, u) - 1
        /\ GivenAway /\ Takeovers
    BY <1>1, RunFacts
  <1>3. /\ Workers' = Workers /\ Shares(cfg)' /\ (~cfg.server => Addressing(cfg)')
        /\ \A u, s : On(u, s)' = On(u, s) /\ RssOwn(u, s)' = RssOwn(u, s)
    BY <1>1, <1>2, SameCfg
  <1>4. ASSUME NEW u \in Workers, NEW s
        PROVE  TakenOver(u, s)' = TakenOver(u, s)
    BY <1>1, <1>3, Zenon DEF TakenOver
  <1>5. \A u \in Workers : open'[u] \subseteq open[u]
    BY <1>1, <1>2
  <1>6. ~cfg.server => Owners'
    BY <1>1, <1>2, <1>3, <1>4, <1>5 DEF Owners
  <1>7. (~cfg.server => Hashed') /\ GivenAway'
    BY <1>1, <1>2, <1>3, Zenon DEF Hashed, GivenAway
  <1>8. Takeovers'
    BY <1>1, <1>2, <1>3, Zenon DEF Takeovers
  <1>9. ~cfg.server
    BY <1>1, <1>2
  <1>10. DOMAIN next' = Workers /\ DOMAIN open' = Workers /\ DOMAIN gone' = Workers
    BY <1>1, <1>2
  <1> QED
    BY <1>1, <1>2, <1>3, <1>6, <1>7, <1>8, <1>9, <1>10 DEF RunInv

(* A takeover ends: the owner's socket is disabled.                        *)
LEMMA RunClear ==
  ASSUME RunInv, stage = "run", NEW x \in taking, ClearCopy(x[1], x[2], x[3])
  PROVE  RunInv'
  <1>1. /\ Shares(cfg) /\ DOMAIN next = Workers /\ DOMAIN open = Workers /\ DOMAIN gone = Workers
        /\ ~cfg.server => Addressing(cfg) /\ Owners /\ Hashed
        /\ cfg.server => \A u \in Workers : open[u] = {}
        /\ cfg.server \/ cfg.flow # "rss" => DOMAIN hash = {}
        /\ GivenAway /\ Takeovers
    BY RunFacts
  <1>2. PICK w \in Workers, v \in Workers, t \in DOMAIN hash :
          /\ x = <<w, v, t>> /\ v # w /\ hash[t] = w
          /\ PortOf(cfg, v) = PortOf(cfg, w) /\ RssOwn(v, t)
    BY <1>1 DEF Takeovers
  <1>3. x[1] = w /\ x[2] = v /\ x[3] = t
    BY <1>2
  <1>4. /\ gone' = [gone EXCEPT ![v] = gone[v] \cup {t}] /\ taking' = taking \ {<<w, v, t>>}
        /\ stage' = stage /\ cfg' = cfg /\ next' = next /\ open' = open /\ hash' = hash
    BY <1>3 DEF ClearCopy
  <1>5. ~cfg.server /\ cfg.flow = "rss"
    BY <1>1, <1>2
  <1>6. /\ Workers' = Workers /\ Shares(cfg)' /\ Addressing(cfg)'
        /\ \A u, s : On(u, s)' = On(u, s) /\ RssOwn(u, s)' = RssOwn(u, s)
    BY <1>1, <1>4, <1>5, SameCfg
  <1>7. ASSUME NEW u \in Workers, NEW s, TakenOver(u, s)
        PROVE  TakenOver(u, s)'
    <2>1. s \in DOMAIN hash /\ hash[s] = u
      BY <1>7 DEF TakenOver
    <2>2. PICK y \in Workers :
            PortOf(cfg, y) = PortOf(cfg, u) /\ RssOwn(y, s) /\ (s \in gone[y] \/ <<u, y, s>> \in taking)
      BY <1>7 DEF TakenOver
    <2>3. s \in gone'[y] \/ <<u, y, s>> \in taking'
      BY <1>1, <1>4, <2>2
    <2>4. PortOf(cfg', y) = PortOf(cfg', u) /\ RssOwn(y, s)'
      BY <1>4, <1>6, <2>2
    <2> QED
      BY <1>4, <1>6, <2>1, <2>3, <2>4 DEF TakenOver
  <1>8. Owners'
    BY <1>1, <1>4, <1>5, <1>6, <1>7 DEF Owners
  <1>9. Hashed'
    BY <1>1, <1>4, <1>5, <1>6, Zenon DEF Hashed
  <1>10. GivenAway'
    <2>1. ASSUME NEW u \in Workers, NEW s \in gone'[u]
          PROVE  s \in DOMAIN hash /\ hash[s] # u
      <3>1. s \in gone[u] \/ (u = v /\ s = t)
        BY <1>1, <1>4, <2>1
      <3> QED
        BY <1>1, <1>2, <3>1 DEF GivenAway
    <2> QED
      BY <1>4, <1>6, <2>1 DEF GivenAway
  <1>11. Takeovers'
    <2>1. taking' \subseteq taking
      BY <1>4
    <2> QED
      BY <1>1, <1>4, <1>6, <2>1, Zenon DEF Takeovers
  <1>12. DOMAIN next' = Workers /\ DOMAIN open' = Workers /\ DOMAIN gone' = Workers
    BY <1>1, <1>4
  <1> QED
    BY <1>4, <1>5, <1>6, <1>8, <1>9, <1>10, <1>11, <1>12 DEF RunInv

(* A packet with rss: the NIC has chosen w, and w takes the connection     *)
(* over from its owner v.                                                  *)
LEMMA RunRecv ==
  ASSUME RunInv, NEW w \in Workers, NEW v \in Workers, NEW t \in Packets(v), RecvRss(w, v, t)
  PROVE  RunInv'
  <1> DEFINE take == t \notin gone[w] /\ v # w /\ t \notin gone[v]
  <1>1. /\ stage = "run" /\ cfg.flow = "rss" /\ ~cfg.server /\ PortOf(cfg, v) = PortOf(cfg, w) /\ RssOwn(v, t)
        /\ t \in DOMAIN hash => hash[t] = w
        /\ hash' = [u \in DOMAIN hash \cup {t} |-> IF u = t THEN w ELSE hash[u]]
        /\ stage' = stage /\ cfg' = cfg /\ next' = next /\ gone' = gone
    BY DEF RecvRss, NicQueue
  <1>2. IF take
        THEN /\ open' = [open EXCEPT ![w] = IF t \in open[v] THEN open[w] \cup {t} ELSE open[w] \ {t}]
             /\ taking' = taking \cup {<<w, v, t>>}
        ELSE open' = open /\ taking' = taking
    BY DEF RecvRss
  <1>3. /\ Shares(cfg) /\ DOMAIN next = Workers /\ DOMAIN open = Workers /\ DOMAIN gone = Workers
        /\ Addressing(cfg) /\ Owners /\ Hashed /\ GivenAway /\ Takeovers
    BY <1>1, RunFacts
  <1>4. /\ Workers' = Workers /\ Shares(cfg)' /\ Addressing(cfg)'
        /\ \A u, s : On(u, s)' = On(u, s) /\ RssOwn(u, s)' = RssOwn(u, s)
    BY <1>1, <1>3, SameCfg
  <1> HIDE DEF take
  <1>5. /\ DOMAIN hash' = DOMAIN hash \cup {t} /\ hash'[t] = w
        /\ \A s \in DOMAIN hash : hash'[s] = hash[s]
    BY <1>1
  <1>6. On(w, t)
    <2>1. CASE t \in DOMAIN hash
      BY <1>1, <1>3, <2>1 DEF Hashed
    <2>2. CASE t \in open[v]
      <3>1. On(v, t)
        BY <1>3, <2>2 DEF Owners
      <3> QED
        BY <1>1, <3>1 DEF On
    <2>3. ASSUME NEW k \in 0 .. GetTotalSocketNum(cfg, v) - 1, t = TupleAt(v, k)
          PROVE  On(w, t)
      <3>1. GetTotalSocketNum(cfg, v) \in 0 .. SocketNum(cfg, v) /\ SocketNum(cfg, v) \in Nat
        BY <1>1, <1>3, ClientPool DEF Workers
      <3>2. k \in 0 .. SocketNum(cfg, v) - 1
        BY <3>1
      <3>3. On(v, t)
        BY <1>1, <1>3, <2>3, <3>2, TupleOn
      <3> QED
        BY <1>1, <3>3 DEF On
    <2> QED
      BY <2>1, <2>2, <2>3 DEF Packets
  <1>7. taking \subseteq taking'
    BY <1>2
  <1>8. ASSUME NEW u \in Workers, NEW s, TakenOver(u, s)
        PROVE  TakenOver(u, s)'
    <2>1. s \in DOMAIN hash /\ hash[s] = u
      BY <1>8 DEF TakenOver
    <2>2. PICK y \in Workers :
            PortOf(cfg, y) = PortOf(cfg, u) /\ RssOwn(y, s) /\ (s \in gone[y] \/ <<u, y, s>> \in taking)
      BY <1>8 DEF TakenOver
    <2>3. s \in gone'[y] \/ <<u, y, s>> \in taking'
      BY <1>1, <1>7, <2>2
    <2>4. PortOf(cfg', y) = PortOf(cfg', u) /\ RssOwn(y, s)'
      BY <1>1, <1>4, <2>2
    <2>5. s \in DOMAIN hash' /\ hash'[s] = u
      BY <1>5, <2>1
    <2> QED
      BY <1>4, <2>3, <2>4, <2>5 DEF TakenOver
  <1>9. ASSUME take
        PROVE  TakenOver(w, t)'
    <2>1. <<w, v, t>> \in taking'
      BY <1>2, <1>9
    <2>2. PortOf(cfg', v) = PortOf(cfg', w) /\ RssOwn(v, t)'
      BY <1>1, <1>4
    <2> QED
      BY <1>4, <1>5, <2>1, <2>2 DEF TakenOver
  <1>10. ASSUME NEW u \in Workers, NEW s \in open'[u]
         PROVE  On(u, s) /\ (RssOwn(u, s) \/ TakenOver(u, s)')
    <2>1. s \in open[u] \/ (take /\ u = w /\ s = t)
      BY <1>2, <1>3, <1>10
    <2>2. CASE s \in open[u]
      <3>1. On(u, s) /\ (RssOwn(u, s) \/ TakenOver(u, s))
        BY <1>1, <1>3, <2>2 DEF Owners
      <3> QED
        BY <1>8, <3>1
    <2>3. CASE take /\ u = w /\ s = t
      BY <1>6, <1>9, <2>3
    <2> QED
      BY <2>1, <2>2, <2>3
  <1>11. Owners'
    <2>1. cfg'.flow # "fdir"
      BY <1>1
    <2> QED
      BY <1>4, <1>10, <2>1 DEF Owners
  <1>12. Hashed'
    <2>1. \A s \in DOMAIN hash' : hash'[s] \in Workers /\ On(hash'[s], s)
      BY <1>3, <1>5, <1>6 DEF Hashed
    <2>2. \A s \in DOMAIN hash' : \E i \in 1 .. Len(cfg'.cgrp[PortOf(cfg', hash'[s])].list) :
            s.cip = cfg'.cgrp[PortOf(cfg', hash'[s])].list[i]
      BY <1>1, <2>1, Zenon DEF On
    <2> QED
      BY <1>4, <2>1, <2>2, Zenon DEF Hashed, On
  <1>13. GivenAway'
    BY <1>1, <1>3, <1>4, <1>5 DEF GivenAway
  <1>14. Takeovers'
    <2>1. ASSUME NEW x \in taking'
          PROVE  \E y, z \in Workers, s \in DOMAIN hash' :
                    /\ x = <<y, z, s>> /\ z # y /\ hash'[s] = y
                    /\ PortOf(cfg, z) = PortOf(cfg, y) /\ RssOwn(z, s)
      <3>1. CASE x \in taking
        <4>1. PICK y \in Workers, z \in Workers, s \in DOMAIN hash :
                /\ x = <<y, z, s>> /\ z # y /\ hash[s] = y
                /\ PortOf(cfg, z) = PortOf(cfg, y) /\ RssOwn(z, s)
          BY <1>3, <3>1 DEF Takeovers
        <4>2. s \in DOMAIN hash' /\ hash'[s] = y
          BY <1>5, <4>1
        <4> QED
          BY <4>1, <4>2
      <3>2. CASE take /\ x = <<w, v, t>>
        <4>1. v # w /\ t \in DOMAIN hash'
          BY <1>5, <3>2 DEF take
        <4> QED
          BY <1>1, <1>5, <3>2, <4>1
      <3> QED
        BY <1>2, <3>1, <3>2
    <2>2. \A x \in taking' : \E y, z \in Workers', s \in DOMAIN hash' :
            /\ x = <<y, z, s>> /\ z # y /\ hash'[s] = y
            /\ PortOf(cfg', z) = PortOf(cfg', y) /\ RssOwn(z, s)'
      BY <1>1, <1>4, <2>1, Zenon
    <2> QED
      BY <2>2, Zenon DEF Takeovers
  <1>15. DOMAIN next' = Workers /\ DOMAIN open' = Workers /\ DOMAIN gone' = Workers
    BY <1>1, <1>2, <1>3
  <1> QED
    BY <1>1, <1>4, <1>11, <1>12, <1>13, <1>14, <1>15 DEF RunInv
-----------------------------------------------------------------------------
(* The workers' invariant is kept by every step.                           *)
LEMMA RunStep ==
  ASSUME CfgInv, Idle, RunInv, [Next]_vars
  PROVE  RunInv'
  <1>1. ASSUME stage' # "run" PROVE RunInv'
    BY <1>1 DEF RunInv
  <1>2. ASSUME NEW l, ReadLine(l)
        PROVE  RunInv'
    BY <1>1, <1>2, AcceptCases DEF ReadLine
  <1>3. CASE EndOfFile
    BY <1>1, <1>3 DEF EndOfFile
  <1>4. CASE Check
    BY <1>1, <1>4, AcceptCases DEF Check
  <1>5. CASE Start
    BY <1>5, RunStart
  <1>6. ASSUME NEW w \in Workers, GetSocket(w) \/ GetSocketRss(w)
        PROVE  RunInv'
    BY <1>6, RunGetSocket, RunGetSocketRss
  <1>7. ASSUME NEW w \in Workers, NEW v \in Workers, NEW t \in Packets(v), RecvRss(w, v, t)
        PROVE  RunInv'
    BY <1>7, RunRecv
  <1>8. ASSUME NEW w \in Workers, NEW t \in open[w], SocketClose(w, t)
        PROVE  RunInv'
    BY <1>8, RunClose
  <1>9. ASSUME NEW x \in taking, ClearCopy(x[1], x[2], x[3])
        PROVE  RunInv'
    <2>1. stage = "run"
      BY <1>9 DEF Idle
    <2> QED
      BY <1>9, <2>1, RunClear
  <1>10. CASE UNCHANGED vars
    <2>1. /\ stage' = stage /\ cfg' = cfg /\ next' = next /\ open' = open /\ gone' = gone
          /\ hash' = hash /\ taking' = taking
      BY <1>10 DEF vars
    <2>2. Owners' = Owners /\ Hashed' = Hashed /\ GivenAway' = GivenAway /\ Takeovers' = Takeovers
      BY <2>1 DEF Owners, Hashed, GivenAway, Takeovers, On, RssOwn, TakenOver, Workers
    <2>3. Workers' = Workers
      BY <2>1 DEF Workers
    <2> QED
      BY <2>1, <2>2, <2>3, Zenon DEF RunInv
  <1> QED
    BY <1>2, <1>3, <1>4, <1>5, <1>6, <1>7, <1>8, <1>9, <1>10 DEF Next

(* The queues of a port have different server addresses with fdir.         *)
LEMMA QueueAddress ==
  ASSUME NEW c, Shares(c), Addressing(c), c.flow = "fdir", NEW p \in 1 .. Len(c.ports),
         NEW i \in 0 .. PortQueueNum(c) - 1, NEW j \in 0 .. PortQueueNum(c) - 1, i # j
  PROVE  IpRangeGet(c.sgrp[p], i) # IpRangeGet(c.sgrp[p], j)
  <1> DEFINE l == c.sgrp[p].list
             Q == PortQueueNum(c)
  <1>1. AddressList(l) /\ Consecutive(l) /\ Len(l) = Q /\ Q \in Nat \ {0}
    BY DEF Addressing, Shares
  <1>2. IpRangeGet(c.sgrp[p], i) = l[(i % Len(l)) + 1] /\ IpRangeGet(c.sgrp[p], j) = l[(j % Len(l)) + 1]
    BY DEF IpRangeGet
  <1> HIDE DEF l, Q
  <1>3. i \in 0 .. Q - 1 /\ j \in 0 .. Q - 1
    BY DEF Q
  <1>4. i % Len(l) = i /\ j % Len(l) = j
    BY <1>1, <1>3
  <1>5. i + 1 \in 1 .. Len(l) /\ j + 1 \in 1 .. Len(l) /\ i + 1 # j + 1
    BY <1>1, <1>3
  <1>6. l[i + 1] = l[1] + (i + 1) - 1 /\ l[j + 1] = l[1] + (j + 1) - 1
    BY <1>1, <1>5, Zenon DEF Consecutive
  <1>7. l[1] \in Nat
    BY <1>1 DEF AddressList
  <1> QED
    BY <1>2, <1>3, <1>4, <1>6, <1>7

(* Two workers with the same client address are of one port.               *)
LEMMA OnePort ==
  ASSUME Shares(cfg), Addressing(cfg), NEW v \in Workers, NEW w \in Workers, NEW t, On(v, t), On(w, t)
  PROVE  PortOf(cfg, v) = PortOf(cfg, w)
  <1> DEFINE p == PortOf(cfg, v)
             q == PortOf(cfg, w)
  <1>1. p \in 1 .. Len(cfg.ports) /\ q \in 1 .. Len(cfg.ports)
    BY PortAndQueue DEF Workers
  <1>2. PICK i \in 1 .. Len(cfg.cgrp[p].list) : t.cip = cfg.cgrp[p].list[i]
    BY DEF On
  <1>3. PICK j \in 1 .. Len(cfg.cgrp[q].list) : t.cip = cfg.cgrp[q].list[j]
    BY DEF On
  <1> HIDE DEF p, q
  <1>4. Low2Byte(cfg.cgrp[p].list[i]) = Low2Byte(cfg.cgrp[q].list[j])
    BY <1>2, <1>3
  <1>5. p = q
    BY <1>1, <1>4 DEF Addressing
  <1> QED
    BY <1>5 DEF p, q

(* The invariant implies the property.                                     *)
LEMMA RunOneCopy ==
  ASSUME RunInv
  PROVE  OneCopy
  <1> SUFFICES ASSUME stage = "run"
               PROVE  OneCopy
    BY DEF OneCopy
  <1>1. /\ Shares(cfg)
        /\ ~cfg.server => Addressing(cfg) /\ Owners /\ Hashed
        /\ cfg.server => \A w \in Workers : open[w] = {}
        /\ cfg.server \/ cfg.flow # "rss" => DOMAIN hash = {}
        /\ GivenAway /\ Takeovers
    BY RunFacts
  <1>2. ASSUME NEW t \in DOMAIN hash
        PROVE  t \notin gone[hash[t]]
    <2>1. hash[t] \in Workers
      BY <1>1, <1>2 DEF Hashed
    <2> QED
      BY <1>1, <2>1 DEF GivenAway
  <1>3. ASSUME NEW v \in Workers, NEW w \in Workers, v # w,
               NEW t \in (open[v] \ gone[v]) \cap (open[w] \ gone[w])
        PROVE  {<<v, w, t>>, <<w, v, t>>} \cap taking # {}
    <2>1. ~cfg.server
      BY <1>1, <1>3
    <2>2. /\ On(v, t) /\ On(w, t)
          /\ cfg.flow = "rss" => (RssOwn(v, t) \/ TakenOver(v, t)) /\ (RssOwn(w, t) \/ TakenOver(w, t))
          /\ cfg.flow = "fdir" => /\ t.sip = IpRangeGet(cfg.sgrp[PortOf(cfg, v)], QueueOf(cfg, v))
                                  /\ t.sip = IpRangeGet(cfg.sgrp[PortOf(cfg, w)], QueueOf(cfg, w))
      BY <1>1, <1>3, <2>1 DEF Owners
    <2>3. PortOf(cfg, v) = PortOf(cfg, w)
      BY <1>1, <2>1, <2>2, OnePort
    <2>4. QueueOf(cfg, v) # QueueOf(cfg, w)
      BY <1>1, <1>3, <2>3, SameWorker DEF Workers
    <2>5. /\ QueueOf(cfg, v) \in 0 .. PortQueueNum(cfg) - 1 /\ QueueOf(cfg, w) \in 0 .. PortQueueNum(cfg) - 1
          /\ PortOf(cfg, w) \in 1 .. Len(cfg.ports)
      BY <1>1, PortAndQueue DEF Workers
    <2>6. CASE cfg.flow = "none"
      <3>1. PortQueueNum(cfg) = 1
        BY <1>1, <2>6 DEF Shares
      <3>2. QueueOf(cfg, v) = 0 /\ QueueOf(cfg, w) = 0
        BY <2>5, <3>1
      <3> QED
        BY <2>4, <3>2
    <2>7. CASE cfg.flow = "fdir"
      <3>1. IpRangeGet(cfg.sgrp[PortOf(cfg, w)], QueueOf(cfg, v)) # IpRangeGet(cfg.sgrp[PortOf(cfg, w)], QueueOf(cfg, w))
        BY <1>1, <2>1, <2>4, <2>5, <2>7, QueueAddress
      <3> QED
        BY <2>2, <2>3, <2>7, <3>1
    <2>8. CASE cfg.flow = "rss"
      <3>1. ASSUME NEW x \in Workers, NEW y \in Workers, PortOf(cfg, x) = PortOf(cfg, y), RssOwn(x, t), RssOwn(y, t)
            PROVE  x = y
        <4>1. QueueOf(cfg, x) = QueueOf(cfg, y)
          BY <3>1 DEF RssOwn
        <4> QED
          BY <1>1, <3>1, <4>1, SameWorker DEF Workers
      <3>2. ~(RssOwn(v, t) /\ RssOwn(w, t))
        BY <1>3, <2>3, <3>1
      <3>3. ~(TakenOver(v, t) /\ TakenOver(w, t))
        BY <1>3 DEF TakenOver
      <3>4. ASSUME NEW x \in Workers, NEW y \in Workers, PortOf(cfg, x) = PortOf(cfg, y),
                   RssOwn(x, t), TakenOver(y, t), t \notin gone[x]
            PROVE  <<y, x, t>> \in taking
        <4>1. PICK u \in Workers :
                PortOf(cfg, u) = PortOf(cfg, y) /\ RssOwn(u, t) /\ (t \in gone[u] \/ <<y, u, t>> \in taking)
          BY <3>4 DEF TakenOver
        <4>2. u = x
          BY <3>1, <3>4, <4>1
        <4> QED
          BY <3>4, <4>1, <4>2
      <3>5. CASE RssOwn(v, t) /\ TakenOver(w, t)
        BY <1>3, <2>3, <3>4, <3>5
      <3>6. CASE RssOwn(w, t) /\ TakenOver(v, t)
        BY <1>3, <2>3, <3>4, <3>6
      <3> QED
        BY <2>2, <2>8, <3>2, <3>3, <3>5, <3>6
    <2> QED
      BY <1>1, <2>6, <2>7, <2>8 DEF Shares
  <1> QED
    BY <1>2, <1>3 DEF OneCopy

(* Whatever configuration was accepted, with or without rss: no two        *)
(* workers have a connection open, except during a takeover, and the       *)
(* worker to which the NIC sends its packets has its socket.               *)
THEOREM OneCopyHolds == Spec => []OneCopy
  <1>1. Init => CfgInv /\ Idle /\ RunInv
    <2>1. Init => RunInv
      BY DEF Init, RunInv
    <2> QED
      BY <2>1, CfgInit
  <1>2. (CfgInv /\ Idle /\ RunInv) /\ [Next]_vars => (CfgInv /\ Idle /\ RunInv)'
    BY CfgStep, IdleStep, RunStep
  <1>3. CfgInv /\ Idle /\ RunInv => OneCopy
    BY RunOneCopy
  <1> QED
    BY <1>1, <1>2, <1>3, PTL DEF Spec
-----------------------------------------------------------------------------
(* The socket tables, whose layout is that of a number with four digits:   *)
(* client address, client port, server port and server address.            *)
LEMMA RadixOnce ==
  ASSUME NEW m \in Nat \ {0}, NEW x \in Nat, NEW y \in Nat, NEW r \in 0 .. m - 1, NEW s \in 0 .. m - 1,
         x * m + r = y * m + s
  PROVE  x = y /\ r = s
  <1>1. ASSUME NEW a \in Nat, NEW b \in Nat, a < b, NEW u \in 0 .. m - 1, NEW v \in 0 .. m - 1
        PROVE  a * m + u # b * m + v
    <2>1. (a + 1) * m <= b * m
      BY <1>1
    <2>2. (a + 1) * m = a * m + m
      BY <1>1
    <2>3. a * m \in Nat /\ b * m \in Nat
      BY <1>1
    <2> DEFINE am == a * m
               bm == b * m
    <2>4. am + m <= bm /\ am \in Nat /\ bm \in Nat
      BY <2>1, <2>2, <2>3
    <2> HIDE DEF am, bm
    <2>5. am + u # bm + v
      BY <1>1, <2>4
    <2> QED
      BY <2>5 DEF am, bm
  <1>2. ~(x < y) /\ ~(y < x)
    BY <1>1
  <1>3. x = y
    BY <1>2
  <1>4. x * m \in Nat
    OBVIOUS
  <1> QED
    BY <1>3, <1>4

(* Two digits stay below the product of their ranges.                      *)
LEMMA RadixBelow ==
  ASSUME NEW m \in Nat \ {0}, NEW n \in Nat, NEW x \in 0 .. n - 1, NEW r \in 0 .. m - 1
  PROVE  x * m + r \in 0 .. n * m - 1
  <1>1. x \in Nat /\ r \in Nat
    OBVIOUS
  <1>2. (x + 1) * m <= n * m
    BY <1>1
  <1>3. (x + 1) * m = x * m + m
    BY <1>1
  <1> DEFINE xm == x * m
             nm == n * m
  <1>4. xm \in Nat /\ nm \in Nat /\ xm + m <= nm
    BY <1>1, <1>2, <1>3
  <1> HIDE DEF xm, nm
  <1>5. xm + r \in 0 .. nm - 1
    BY <1>1, <1>4
  <1> QED
    BY <1>5 DEF xm, nm

(* Every number below that product has such digits.                        *)
LEMMA RadixSplit ==
  ASSUME NEW m \in Nat \ {0}, NEW n \in Nat, NEW k \in 0 .. n * m - 1
  PROVE  \E x \in 0 .. n - 1, r \in 0 .. m - 1 : k = x * m + r
  <1>1. n * m \in Nat
    OBVIOUS
  <1>2. k \in Nat /\ k < n * m
    BY <1>1
  <1>3. k \div m \in 0 .. n - 1
    BY <1>2, DivBelow
  <1>4. k % m \in 0 .. m - 1 /\ k = m * (k \div m) + (k % m)
    BY <1>2
  <1>5. m * (k \div m) = (k \div m) * m
    BY <1>3
  <1> QED
    BY <1>3, <1>4, <1>5, Zenon

(* A table the lookup is written for.                                      *)
Table(st) ==
    /\ Len(st.cips) \in Nat \ {0}
    /\ \A i, j \in 1 .. Len(st.cips) : i # j => Low2Byte(st.cips[i]) # Low2Byte(st.cips[j])
    /\ st.sipMin \in Nat /\ st.sipNum \in Nat \ {0} /\ st.spMin \in Nat /\ st.spNum \in Nat \ {0}
    /\ st.cpMin \in Nat \ {0} /\ st.cpMax \in Nat /\ st.cpMin <= st.cpMax

(* A member of an interval and its distance from the first one.            *)
LEMMA Offset ==
  ASSUME NEW m \in Nat, NEW n \in Nat, NEW x \in m .. m + n - 1
  PROVE  x \in Nat /\ x >= m /\ x <= m + n - 1 /\ x - m \in 0 .. n - 1
  OBVIOUS

(* The member at a distance.                                               *)
LEMMA Onset ==
  ASSUME NEW m \in Nat, NEW n \in Nat, NEW x \in 0 .. n - 1
  PROVE  m + x \in m .. m + n - 1 /\ (m + x) - m = x
  OBVIOUS

(* The same for client ports, an interval given by its two ends.           *)
LEMMA Between ==
  ASSUME NEW m \in Nat \ {0}, NEW n \in Nat, NEW x \in m .. n
  PROVE  x - m \in 0 .. n - m /\ x \in Nat /\ x # 0 /\ x >= m /\ x <= n
  OBVIOUS

(* The digits of a 4-tuple.                                                *)
LEMMA Digits ==
  ASSUME NEW st, Table(st), NEW t \in Tuples(st)
  PROVE  /\ t.cp - st.cpMin \in 0 .. st.cpMax - st.cpMin
         /\ t.cp \in Nat /\ t.cp # 0 /\ t.cp >= st.cpMin /\ t.cp <= st.cpMax
         /\ t.sp \in Nat /\ t.sp >= st.spMin /\ t.sp <= st.spMin + st.spNum - 1
         /\ t.sp - st.spMin \in 0 .. st.spNum - 1
         /\ t.sip \in Nat /\ t.sip >= st.sipMin /\ t.sip <= st.sipMin + st.sipNum - 1
         /\ t.sip - st.sipMin \in 0 .. st.sipNum - 1
         /\ \E i \in 1 .. Len(st.cips) : t.cip = st.cips[i]
         /\ t = [cip |-> t.cip, cp |-> t.cp, sp |-> t.sp, sip |-> t.sip]
  <1>1. /\ t.cip \in {st.cips[i] : i \in 1 .. Len(st.cips)} /\ t.cp \in st.cpMin .. st.cpMax
        /\ t.sp \in st.spMin .. st.spMin + st.spNum - 1 /\ t.sip \in st.sipMin .. st.sipMin + st.sipNum - 1
        /\ t = [cip |-> t.cip, cp |-> t.cp, sp |-> t.sp, sip |-> t.sip]
    BY DEF Tuples
  <1>2. \E i \in 1 .. Len(st.cips) : t.cip = st.cips[i]
    BY <1>1
  <1>3. /\ st.sipMin \in Nat /\ st.sipNum \in Nat \ {0} /\ st.spMin \in Nat /\ st.spNum \in Nat \ {0}
        /\ st.cpMin \in Nat \ {0} /\ st.cpMax \in Nat
    BY DEF Table
  <1>4. /\ t.cp - st.cpMin \in 0 .. st.cpMax - st.cpMin
        /\ t.cp \in Nat /\ t.cp # 0 /\ t.cp >= st.cpMin /\ t.cp <= st.cpMax
    BY <1>1, <1>3, Between, Zenon
  <1>5. /\ t.sp \in Nat /\ t.sp >= st.spMin /\ t.sp <= st.spMin + st.spNum - 1
        /\ t.sp - st.spMin \in 0 .. st.spNum - 1
    BY <1>1, <1>3, Offset
  <1>6. /\ t.sip \in Nat /\ t.sip >= st.sipMin /\ t.sip <= st.sipMin + st.sipNum - 1
        /\ t.sip - st.sipMin \in 0 .. st.sipNum - 1
    BY <1>1, <1>3, Offset
  <1> QED
    BY <1>1, <1>2, <1>4, <1>5, <1>6, Zenon

(* The place of a 4-tuple in the table of its client address.              *)
LEMMA PlaceInTable ==
  ASSUME NEW st, Table(st), NEW t \in Tuples(st)
  PROVE  /\ ServerIpPortNum(st) \in Nat \ {0} /\ PortTableSize(st) \in Nat \ {0}
         /\ (t.sp - st.spMin) * st.sipNum + (t.sip - st.sipMin) \in 0 .. ServerIpPortNum(st) - 1
         /\ SocketPortTableGet(st, t.cp, t.sp, t.sip) \in 0 .. PortTableSize(st) - 1
         /\ SocketPortTableGet(st, t.cp, t.sp, t.sip) =
              (t.cp - st.cpMin) * ServerIpPortNum(st) + ((t.sp - st.spMin) * st.sipNum + (t.sip - st.sipMin))
  <1> DEFINE a == t.cp - st.cpMin
             b == t.sp - st.spMin
             c == t.sip - st.sipMin
             S == st.sipNum
             L == st.spNum
             A == st.cpMax - st.cpMin + 1
             M == ServerIpPortNum(st)
             g == SocketPortTableGet(st, t.cp, t.sp, t.sip)
  <1>1. /\ a \in 0 .. A - 1 /\ b \in 0 .. L - 1 /\ c \in 0 .. S - 1
        /\ S \in Nat \ {0} /\ L \in Nat \ {0} /\ A \in Nat \ {0}
    <2>1. /\ a \in 0 .. st.cpMax - st.cpMin /\ b \in 0 .. L - 1 /\ c \in 0 .. S - 1
      BY Digits
    <2>2. S \in Nat \ {0} /\ L \in Nat \ {0} /\ st.cpMin \in Nat /\ st.cpMax \in Nat /\ st.cpMin <= st.cpMax
      BY DEF Table
    <2>3. A \in Nat \ {0} /\ st.cpMax - st.cpMin = A - 1
      BY <2>2
    <2> QED
      BY <2>1, <2>2, <2>3, Zenon
  <1>2. M = S * L /\ PortTableSize(st) = A * M
    BY DEF ServerIpPortNum, PortTableSize
  <1>3. g = a * M + b * S + c
    BY DEF SocketPortTableGet
  <1> HIDE DEF a, b, c, S, L, A, M, g
  <1>4. M \in Nat \ {0} /\ S * L = L * S
    BY <1>1, <1>2
  <1>5. A * M \in Nat \ {0}
    BY <1>1, <1>4
  <1>6. b * S + c \in 0 .. M - 1
    <2>1. b * S + c \in 0 .. L * S - 1
      BY <1>1, RadixBelow
    <2> QED
      BY <1>2, <1>4, <2>1
  <1>7. a * M + (b * S + c) \in 0 .. A * M - 1
    BY <1>1, <1>4, <1>6, RadixBelow
  <1>8. a * M + b * S + c = a * M + (b * S + c)
    <2>1. a * M \in Nat /\ b * S \in Nat /\ c \in Nat
      BY <1>1, <1>4
    <2> QED
      BY <2>1
  <1> QED
    BY <1>2, <1>3, <1>4, <1>5, <1>6, <1>7, <1>8, Zenon DEF a, b, c, S, M, g

(* A lookup finds the socket that was set up for the 4-tuple.              *)
LEMMA LookupOwn ==
  ASSUME NEW st, Table(st), NEW t \in Tuples(st)
  PROVE  /\ SocketLookup(st, t) # -1
         /\ \E i \in 1 .. Len(st.cips) : SocketPortTableNew(st, i, SocketLookup(st, t), t)
  <1> DEFINE low == Low2Byte(t.cip)
             g == SocketPortTableGet(st, t.cp, t.sp, t.sip)
  <1>1. PICK i \in 1 .. Len(st.cips) : t.cip = st.cips[i]
    BY Digits
  <1> DEFINE k == PortTableBase(st, i) + g
  <1>2. Entered(st, low) = {i}
    BY <1>1 DEF Entered, Table
  <1>3. Ht(st, low) = i
    <2>1. i \in Int /\ i <= i
      BY DEF Table
    <2>2. \E x \in Entered(st, low) : \A y \in Entered(st, low) : y <= x
      BY <1>2, <2>1
    <2>3. Ht(st, low) \in Entered(st, low)
      BY <2>2, Zenon DEF Ht
    <2> QED
      BY <1>2, <2>3
  <1>4. g \in Nat /\ PortTableSize(st) \in Nat /\ i - 1 \in Nat
    <2>1. g \in 0 .. PortTableSize(st) - 1 /\ PortTableSize(st) \in Nat
      BY PlaceInTable
    <2>2. Len(st.cips) \in Nat
      BY DEF Table
    <2> HIDE DEF g
    <2> QED
      BY <2>1, <2>2
  <1>5. k \in Nat
    <2> HIDE DEF g
    <2>1. PortTableBase(st, i) \in Nat
      BY <1>4 DEF PortTableBase
    <2> QED
      BY <1>4, <2>1
  <1>6. SocketCommonLookup(st, t) = k
    <2>1. /\ t.sip >= st.sipMin /\ t.sip <= st.sipMin + st.sipNum - 1
          /\ t.cp # 0 /\ t.cp >= st.cpMin /\ t.cp <= st.cpMax
          /\ t.sp >= st.spMin /\ t.sp <= st.spMin + st.spNum - 1
      BY Digits, Zenon
    <2>2. Entered(st, low) # {}
      BY <1>2
    <2> QED
      BY <1>3, <2>1, <2>2, Zenon DEF SocketCommonLookup
  <1>7. SocketPortTableNew(st, i, k, t)
    BY <1>1, Zenon DEF SocketPortTableNew
  <1> HIDE DEF k
  <1>8. k # -1
    BY <1>5
  <1>9. SocketLookup(st, t) = k
    BY <1>6, <1>7, <1>8, Zenon DEF SocketLookup
  <1> QED
    BY <1>7, <1>8, <1>9, Zenon

(* A client's table is one, and its fields.                                *)
LEMMA ClientTable ==
  ASSUME NEW c, Shares(c), ~c.server, Addressing(c), NEW w \in 0 .. c.cpu_num - 1,
         NEW st, st = SocketTableInit(c, w)
  PROVE  /\ Table(st)
         /\ c.flow # "fdir" => st.sipMin = c.sgrp[PortOf(c, w)].list[1] /\ st.sipNum = Len(c.sgrp[PortOf(c, w)].list)
  <1> DEFINE p == PortOf(c, w)
             l == c.sgrp[p].list
             q == IF c.flow = "fdir" THEN QueueOf(c, w) ELSE 0
  <1>1. p \in 1 .. Len(c.ports) /\ q \in Nat
    BY PortAndQueue DEF Shares
  <1> HIDE DEF p
  <1>2. /\ st.cips = c.cgrp[p].list /\ st.sipNum = IF c.flow = "fdir" THEN 1 ELSE Len(l)
        /\ st.sipMin = IF c.flow = "fdir" THEN IpRangeGet(c.sgrp[p], QueueOf(c, w)) ELSE IpRangeGet(c.sgrp[p], 0)
        /\ st.spMin = c.listen /\ st.spNum = c.listen_num
        /\ st.cpMin = c.lport_min /\ st.cpMax = c.lport_max
    BY Zenon DEF SocketTableInit, p
  <1>3. st.sipMin = l[(q % Len(l)) + 1]
    BY <1>2 DEF IpRangeGet
  <1>4. AddressList(c.cgrp[p].list) /\ l \in Seq(Nat) /\ Len(l) \in Nat \ {0}
    BY <1>1 DEF Addressing, AddressList
  <1>5. \A i, j \in 1 .. Len(c.cgrp[p].list) : i # j => Low2Byte(c.cgrp[p].list[i]) # Low2Byte(c.cgrp[p].list[j])
    BY <1>1, Zenon DEF Addressing
  <1> HIDE DEF l, q
  <1>6. (q % Len(l)) + 1 \in 1 .. Len(l)
    BY <1>1, <1>4
  <1>7. st.sipMin \in Nat /\ st.sipNum \in Nat \ {0}
    BY <1>2, <1>3, <1>4, <1>6
  <1>8. ASSUME c.flow # "fdir" PROVE st.sipMin = l[1] /\ st.sipNum = Len(l)
    <2>1. q = 0
      BY <1>8 DEF q
    <2>2. 0 % Len(l) = 0
      BY <1>4
    <2>3. (q % Len(l)) + 1 = 1
      BY <2>1, <2>2
    <2> QED
      BY <1>2, <1>3, <1>8, <2>3
  <1>9. Len(c.cgrp[p].list) \in Nat \ {0}
    BY <1>4 DEF AddressList
  <1>10. /\ st.spMin \in Nat /\ st.spNum \in Nat \ {0}
         /\ st.cpMin \in Nat \ {0} /\ st.cpMax \in Nat /\ st.cpMin <= st.cpMax
    BY <1>2 DEF Addressing
  <1>11. st.cips = c.cgrp[p].list
    BY <1>2
  <1>12. /\ Len(st.cips) \in Nat \ {0}
         /\ \A i, j \in 1 .. Len(st.cips) : i # j => Low2Byte(st.cips[i]) # Low2Byte(st.cips[j])
    BY ONLY <1>5, <1>9, <1>11
  <1>13. Table(st)
    BY <1>7, <1>10, <1>12, Zenon DEF Table
  <1> QED
    BY <1>8, <1>13 DEF l, p

(* An accepted configuration, before the workers start.                    *)
LEMMA AcceptedReady ==
  ASSUME CfgInv, stage = "accepted"
  PROVE  Shares(cfg) /\ (~cfg.server => Addressing(cfg))
  <1>1. Parsed(cfg) /\ Checked(cfg, Checks + 1)
    BY DEF CfgInv
  <1> QED
    BY <1>1, Started

(* The 4-tuples a client's worker gets packets of are in its table.        *)
LEMMA FlowInTable ==
  ASSUME NEW c, Shares(c), ~c.server, Addressing(c), NEW w \in 0 .. c.cpu_num - 1,
         NEW t \in PortTuples(c, w), FlowInit(c, w, t)
  PROVE  t \in Tuples(SocketTableInit(c, w))
  <1> DEFINE p == PortOf(c, w)
             m == c.cgrp[p].list
             l == c.sgrp[p].list
             st == SocketTableInit(c, w)
  <1>1. p \in 1 .. Len(c.ports)
    BY PortAndQueue
  <1>2. Table(st) /\ (c.flow # "fdir" => st.sipMin = l[1] /\ st.sipNum = Len(l))
    BY ClientTable
  <1>3. /\ st.cips = m /\ st.spMin = c.listen /\ st.spNum = c.listen_num
        /\ st.cpMin = c.lport_min /\ st.cpMax = c.lport_max
    BY Zenon DEF SocketTableInit
  <1>4. c.flow = "fdir" => st.sipNum = 1 /\ st.sipMin = IpRangeGet(c.sgrp[p], QueueOf(c, w))
    BY Zenon DEF SocketTableInit
  <1>5. c.flow = "fdir" => t.sip = IpRangeGet(c.sgrp[p], QueueOf(c, w))
    BY Zenon DEF FlowInit, FlowInitPort
  <1>6. t \in [cip : Range(m), cp : c.lport_min .. c.lport_max,
               sp : c.listen .. c.listen + c.listen_num - 1, sip : Range(l)]
    BY Zenon DEF PortTuples
  <1>7. AddressList(m) /\ AddressList(l) /\ Consecutive(l)
    BY <1>1 DEF Addressing
  <1> HIDE DEF p, m, l, st
  <1>8. t.cip \in {st.cips[i] : i \in 1 .. Len(st.cips)}
    <2>1. DOMAIN m = 1 .. Len(m)
      BY <1>7 DEF AddressList
    <2>2. t.cip \in Range(m)
      BY <1>6
    <2> QED
      BY <1>3, <2>1, <2>2 DEF Range
  <1>9. t.sip \in st.sipMin .. st.sipMin + st.sipNum - 1
    <2>1. CASE c.flow = "fdir"
      <3>1. t.sip = st.sipMin /\ st.sipNum = 1 /\ st.sipMin \in Nat
        BY <1>2, <1>4, <1>5, <2>1 DEF Table
      <3> QED
        BY <3>1
    <2>2. CASE c.flow # "fdir"
      <3>1. DOMAIN l = 1 .. Len(l) /\ Len(l) \in Nat /\ l[1] \in Nat
        BY <1>7 DEF AddressList
      <3>2. t.sip \in Range(l)
        BY <1>6
      <3>3. PICK i \in 1 .. Len(l) : t.sip = l[i]
        BY <3>1, <3>2 DEF Range
      <3>4. t.sip = l[1] + i - 1
        BY <1>7, <3>3 DEF Consecutive
      <3> QED
        BY <1>2, <2>2, <3>1, <3>4
    <2> QED
      BY <2>1, <2>2
  <1>10. t \in Tuples(st)
    BY <1>3, <1>6, <1>8, <1>9 DEF Tuples
  <1> QED
    BY <1>10 DEF st

(* Whatever the flow rules or the NIC hand to a worker of a client, the    *)
(* lookup finds the socket of that connection in its table.                *)
THEOREM ClientFlowHasSocket == Spec => [](~cfg.server => FlowHasSocket)
  <1>1. ASSUME CfgInv, ~cfg.server
        PROVE  FlowHasSocket
    <2> SUFFICES ASSUME stage = "accepted", NEW w \in Workers, NEW t \in PortTuples(cfg, w), FlowInit(cfg, w, t)
                 PROVE  LET st == SocketTableInit(cfg, w)
                            k  == SocketLookup(st, t)
                        IN  k # -1 /\ \E i \in 1 .. Len(st.cips) : SocketPortTableNew(st, i, k, t)
      BY Zenon DEF FlowHasSocket
    <2> DEFINE st == SocketTableInit(cfg, w)
    <2>1. Shares(cfg) /\ Addressing(cfg) /\ w \in 0 .. cfg.cpu_num - 1
      BY <1>1, AcceptedReady DEF Workers
    <2>2. Table(st) /\ t \in Tuples(st)
      BY <1>1, <2>1, ClientTable, FlowInTable
    <2> HIDE DEF st
    <2>3. /\ SocketLookup(st, t) # -1
          /\ \E i \in 1 .. Len(st.cips) : SocketPortTableNew(st, i, SocketLookup(st, t), t)
      BY <2>2, LookupOwn
    <2> QED
      BY <2>3, Zenon DEF st
  <1>2. CfgInv /\ Idle => (~cfg.server => FlowHasSocket)
    BY <1>1
  <1> QED
    BY <1>2, CfgHolds, PTL
-----------------------------------------------------------------------------
(* The sockets that the loops of socket_table_init write: an index of the  *)
(* pool, the number of the client address, and the 4-tuple.                *)
Entries(st) == {x \in Written(st) : x[3].cip = st.cips[x[2]]}

(* What the loops know of a socket they write.                             *)
LEMMA EntryParts ==
  ASSUME NEW st, Table(st), NEW x \in Entries(st)
  PROVE  /\ x[2] \in 1 .. Len(st.cips) /\ x[3] \in Tuples(st) /\ x[3].cip = st.cips[x[2]]
         /\ x = <<x[1], x[2], x[3]>>
         /\ x[1] = (x[2] - 1) * PortTableSize(st) + SocketPortTableGet(st, x[3].cp, x[3].sp, x[3].sip)
  <1>1. x \in Written(st) /\ x[3].cip = st.cips[x[2]]
    BY DEF Entries
  <1>2. PICK i \in 1 .. Len(st.cips), t \in Tuples(st) :
          x = <<PortTableBase(st, i) + SocketPortTableGet(st, t.cp, t.sp, t.sip), i, t>>
    BY <1>1 DEF Written
  <1>3. x[2] = i /\ x[3] = t /\ x[1] = PortTableBase(st, i) + SocketPortTableGet(st, t.cp, t.sp, t.sip)
    BY <1>2
  <1>4. x = <<x[1], x[2], x[3]>>
    BY <1>2, <1>3
  <1> QED
    BY <1>1, <1>3, <1>4, Zenon DEF PortTableBase

(* No socket is written twice.                                             *)
LEMMA WrittenOnce ==
  ASSUME NEW st, Table(st), NEW x \in Entries(st), NEW y \in Entries(st), x[1] = y[1]
  PROVE  x = y
  <1> DEFINE P == PortTableSize(st)
             M == ServerIpPortNum(st)
             S == st.sipNum
             t == x[3]
             u == y[3]
             a == t.cp - st.cpMin
             b == t.sp - st.spMin
             c == t.sip - st.sipMin
             d == u.cp - st.cpMin
             e == u.sp - st.spMin
             f == u.sip - st.sipMin
             i == x[2] - 1
             j == y[2] - 1
             g == SocketPortTableGet(st, t.cp, t.sp, t.sip)
             h == SocketPortTableGet(st, u.cp, u.sp, u.sip)
  <1>1. /\ x[2] \in 1 .. Len(st.cips) /\ t \in Tuples(st) /\ t.cip = st.cips[x[2]] /\ x = <<x[1], x[2], t>>
        /\ x[1] = i * P + g
    BY EntryParts
  <1>2. /\ y[2] \in 1 .. Len(st.cips) /\ u \in Tuples(st) /\ u.cip = st.cips[y[2]] /\ y = <<y[1], y[2], u>>
        /\ y[1] = j * P + h
    BY EntryParts
  <1>3. /\ M \in Nat \ {0} /\ P \in Nat \ {0}
        /\ b * S + c \in 0 .. M - 1 /\ g \in 0 .. P - 1 /\ g = a * M + (b * S + c)
    BY <1>1, PlaceInTable
  <1>4. e * S + f \in 0 .. M - 1 /\ h \in 0 .. P - 1 /\ h = d * M + (e * S + f)
    BY <1>2, PlaceInTable
  <1>5. /\ a \in 0 .. st.cpMax - st.cpMin /\ b \in 0 .. st.spNum - 1 /\ c \in 0 .. S - 1
        /\ d \in 0 .. st.cpMax - st.cpMin /\ e \in 0 .. st.spNum - 1 /\ f \in 0 .. S - 1
    BY <1>1, <1>2, Digits
  <1>6. /\ t.cp \in Nat /\ t.sp \in Nat /\ t.sip \in Nat /\ u.cp \in Nat /\ u.sp \in Nat /\ u.sip \in Nat
    BY <1>1, <1>2, Digits
  <1>7. /\ t = [cip |-> t.cip, cp |-> t.cp, sp |-> t.sp, sip |-> t.sip]
         /\ u = [cip |-> u.cip, cp |-> u.cp, sp |-> u.sp, sip |-> u.sip]
    BY <1>1, <1>2, Digits
  <1>8. S \in Nat \ {0} /\ st.spMin \in Nat /\ st.sipMin \in Nat /\ st.cpMin \in Nat /\ Len(st.cips) \in Nat
    BY DEF Table
  <1>9. a \in Nat /\ b \in Nat /\ d \in Nat /\ e \in Nat
    <2> HIDE DEF a, b, d, e
    <2>1. st.cpMax \in Nat /\ st.spNum \in Nat
      BY DEF Table
    <2> QED
      BY <1>5, <1>8, <2>1
  <1>10. i \in Nat /\ j \in Nat
    <2>1. \A m \in Nat : \A o \in 1 .. m : o - 1 \in Nat
      OBVIOUS
    <2> QED
      BY <1>1, <1>2, <1>8, <2>1, Zenon
  <1> DEFINE v == b * S + c
             z == e * S + f
  <1> HIDE DEF i, j, g, h, P, M, S, v, z
  <1>11. i = j /\ g = h
    <2>1. /\ P \in Nat \ {0} /\ g \in 0 .. P - 1 /\ h \in 0 .. P - 1 /\ i \in Nat /\ j \in Nat
          /\ i * P + g = j * P + h
      BY <1>1, <1>2, <1>3, <1>4, <1>10, Zenon
    <2> QED
      BY ONLY <2>1, RadixOnce
  <1>12. a = d /\ v = z
    <2> HIDE DEF a, d
    <2>1. v \in 0 .. M - 1 /\ z \in 0 .. M - 1 /\ a * M + v = d * M + z
      BY <1>3, <1>4, <1>11 DEF v, z
    <2>2. M \in Nat \ {0} /\ a \in Nat /\ d \in Nat
      BY <1>3, <1>9
    <2> QED
      BY ONLY <2>1, <2>2, RadixOnce
  <1>13. b = e /\ c = f
    <2> HIDE DEF b, c, e, f
    <2>1. b * S + c = e * S + f
      BY <1>12 DEF v, z
    <2>2. S \in Nat \ {0} /\ b \in Nat /\ e \in Nat /\ c \in 0 .. S - 1 /\ f \in 0 .. S - 1
      BY <1>5, <1>8, <1>9
    <2> QED
      BY ONLY <2>1, <2>2, RadixOnce
  <1>14. t.cp = u.cp /\ t.sp = u.sp /\ t.sip = u.sip
    <2>1. ASSUME NEW p \in Nat, NEW q \in Nat, NEW o \in Nat, p - o = q - o PROVE p = q
      BY <2>1
    <2> QED
      BY <1>6, <1>8, <1>12, <1>13, <2>1, Zenon
  <1>15. x[2] = y[2]
    BY <1>1, <1>2, <1>8, <1>11 DEF i, j
  <1>16. t = u
    BY <1>1, <1>2, <1>14, <1>15, <1>7, Zenon
  <1> QED
    BY <1>1, <1>2, <1>15, <1>16, Zenon

(* None is left out, and none lies outside.                                *)
LEMMA WrittenAll ==
  ASSUME NEW st, Table(st), NEW num, num = Len(st.cips) * PortTableSize(st)
  PROVE  /\ \A x \in Entries(st) : x[1] \in 0 .. num - 1
         /\ \A k \in 0 .. num - 1 : \E x \in Entries(st) : x[1] = k
  <1> DEFINE n == Len(st.cips)
             P == PortTableSize(st)
             M == ServerIpPortNum(st)
             S == st.sipNum
             L == st.spNum
             A == st.cpMax - st.cpMin + 1
  <1>1. /\ n \in Nat \ {0} /\ S \in Nat \ {0} /\ L \in Nat \ {0} /\ A \in Nat \ {0}
        /\ st.cpMin \in Nat /\ st.cpMax \in Nat /\ st.spMin \in Nat /\ st.sipMin \in Nat
    BY DEF Table
  <1>2. M = S * L /\ P = A * M /\ num = n * P
    BY DEF ServerIpPortNum, PortTableSize
  <1>3. A = st.cpMax - st.cpMin + 1
    OBVIOUS
  <1> HIDE DEF n, P, M, L, S, A
  <1>4. M \in Nat \ {0}
    <2>1. S * L \in Nat \ {0}
      BY <1>1
    <2> QED
      BY <1>1, <1>2, <2>1
  <1>5. P \in Nat \ {0}
    BY <1>1, <1>2, <1>4
  <1>6. ASSUME NEW x \in Entries(st)
        PROVE  x[1] \in 0 .. num - 1
    <2> DEFINE g == SocketPortTableGet(st, x[3].cp, x[3].sp, x[3].sip)
               i == x[2] - 1
    <2>1. x[2] \in 1 .. n /\ x[3] \in Tuples(st) /\ x[1] = i * P + g
      BY EntryParts DEF n, P
    <2>2. g \in 0 .. P - 1
      BY <2>1, PlaceInTable DEF P
    <2>3. i \in 0 .. n - 1
      BY <1>1, <2>1
    <2> HIDE DEF g, i
    <2>4. i * P + g \in 0 .. n * P - 1
      BY <1>1, <1>5, <2>2, <2>3, RadixBelow
    <2> QED
      BY <1>2, <2>1, <2>4
  <1>7. ASSUME NEW k \in 0 .. num - 1
        PROVE  \E x \in Entries(st) : x[1] = k
    <2>1. PICK i \in 0 .. n - 1, g \in 0 .. P - 1 : k = i * P + g
      <3>1. P \in Nat \ {0} /\ n \in Nat /\ k \in 0 .. n * P - 1
        BY <1>1, <1>2, <1>5
      <3> QED
        BY ONLY <3>1, RadixSplit
    <2>2. PICK a \in 0 .. A - 1, r \in 0 .. M - 1 : g = a * M + r
      <3>1. M \in Nat \ {0} /\ A \in Nat /\ g \in 0 .. A * M - 1
        BY <1>1, <1>2, <1>4, <2>1
      <3> QED
        BY ONLY <3>1, RadixSplit
    <2>3. S * L = L * S
      BY <1>1
    <2>4. PICK b \in 0 .. L - 1, c \in 0 .. S - 1 : r = b * S + c
      <3>1. S \in Nat \ {0} /\ L \in Nat /\ r \in 0 .. L * S - 1
        BY <1>1, <1>2, <2>2, <2>3
      <3> QED
        BY ONLY <3>1, RadixSplit
    <2> DEFINE t == [cip |-> st.cips[i + 1], cp |-> st.cpMin + a, sp |-> st.spMin + b, sip |-> st.sipMin + c]
    <2>5. i + 1 \in 1 .. n
      BY <1>1
    <2>6. /\ st.cpMin + a \in st.cpMin .. st.cpMax
          /\ st.spMin + b \in st.spMin .. st.spMin + st.spNum - 1
          /\ st.sipMin + c \in st.sipMin .. st.sipMin + st.sipNum - 1
      <3>1. st.cpMin + a \in st.cpMin .. st.cpMin + A - 1
        BY <1>1, Onset, Zenon
      <3>2. st.cpMin + A - 1 = st.cpMax
        BY <1>1, <1>3
      <3>3. st.spMin + b \in st.spMin .. st.spMin + L - 1
        BY <1>1, Onset, Zenon
      <3>4. st.sipMin + c \in st.sipMin .. st.sipMin + S - 1
        BY <1>1, Onset, Zenon
      <3> QED
        BY <3>1, <3>2, <3>3, <3>4, Zenon DEF L, S
    <2>7. t \in Tuples(st)
      BY <2>5, <2>6 DEF Tuples, n
    <2>8. (st.cpMin + a) - st.cpMin = a /\ (st.spMin + b) - st.spMin = b /\ (st.sipMin + c) - st.sipMin = c
      BY <1>1, Onset, Zenon
    <2>9. SocketPortTableGet(st, t.cp, t.sp, t.sip) = g
      <3>1. SocketPortTableGet(st, t.cp, t.sp, t.sip) =
              (t.cp - st.cpMin) * M + ((t.sp - st.spMin) * S + (t.sip - st.sipMin))
        BY <2>7, PlaceInTable DEF M, S
      <3>2. t.cp = st.cpMin + a /\ t.sp = st.spMin + b /\ t.sip = st.sipMin + c
        OBVIOUS
      <3> QED
        BY <2>2, <2>4, <2>8, <3>1, <3>2, Zenon
    <2>10. t.cip = st.cips[i + 1]
      OBVIOUS
    <2> HIDE DEF t
    <2> DEFINE x == <<PortTableBase(st, i + 1) + SocketPortTableGet(st, t.cp, t.sp, t.sip), i + 1, t>>
    <2>11. x \in Written(st)
      BY <2>5, <2>7 DEF Written, n
    <2>12. x[2] = i + 1 /\ x[3] = t /\ x[1] = PortTableBase(st, i + 1) + g
      BY <2>9
    <2>13. x[1] = k
      <3>1. (i + 1) - 1 = i
        BY <1>1
      <3> QED
        BY <2>1, <2>12, <3>1, Zenon DEF PortTableBase, P
    <2> HIDE DEF x
    <2>14. x \in Entries(st)
      BY <2>10, <2>11, <2>12, Zenon DEF Entries
    <2> QED
      BY <2>13, <2>14
  <1> QED
    BY <1>6, <1>7

(* So they are as many as the pool has.                                    *)
LEMMA PoolFilled ==
  ASSUME NEW st, Table(st), NEW num \in Nat, num = Len(st.cips) * PortTableSize(st)
  PROVE  Cardinality(Entries(st)) = num /\ {x[1] : x \in Entries(st)} = 0 .. num - 1
  <1> DEFINE T == 0 .. num - 1
             F == [x \in Entries(st) |-> x[1]]
  <1>1. /\ \A x \in Entries(st) : x[1] \in T
        /\ \A k \in T : \E x \in Entries(st) : x[1] = k
    BY WrittenAll
  <1>2. \A x, y \in Entries(st) : x[1] = y[1] => x = y
    BY WrittenOnce
  <1> HIDE DEF T
  <1>3. F \in Bijection(Entries(st), T)
    BY <1>1, <1>2 DEF Bijection, Injection, Surjection, IsInjective
  <1>4. ExistsBijection(T, Entries(st))
    <2>1. ExistsBijection(Entries(st), T)
      BY <1>3, Zenon DEF ExistsBijection
    <2> QED
      BY <2>1, Fun_ExistsBijSymmetric
  <1>5. IsFiniteSet(T) /\ Cardinality(T) = num
    <2>1. 0 \in Int /\ num - 1 \in Int
      OBVIOUS
    <2>2. /\ IsFiniteSet(0 .. num - 1)
          /\ Cardinality(0 .. num - 1) = IF 0 > num - 1 THEN 0 ELSE (num - 1) - 0 + 1
      BY <2>1, FS_Interval
    <2>3. num = IF 0 > num - 1 THEN 0 ELSE (num - 1) - 0 + 1
      OBVIOUS
    <2> QED
      BY <2>2, <2>3 DEF T
  <1>6. Cardinality(Entries(st)) = Cardinality(T)
    BY <1>4, <1>5, FS_Bijection
  <1>7. {x[1] : x \in Entries(st)} = T
    BY <1>1
  <1> QED
    BY <1>5, <1>6, <1>7 DEF T

(* The pool of a client's worker has exactly the sockets of its table.     *)
THEOREM ClientPoolExact == Spec => [](~cfg.server => PoolExact)
  <1>1. ASSUME CfgInv, ~cfg.server
        PROVE  PoolExact
    <2> SUFFICES ASSUME stage = "accepted", SocketsFit(cfg), NEW w \in Workers
                 PROVE  LET st  == SocketTableInit(cfg, w)
                            num == GetTotalSocketNum(cfg, w)
                            set == {x \in Written(st) : x[3].cip = st.cips[x[2]]}
                        IN  Cardinality(set) = num /\ {x[1] : x \in set} = 0 .. num - 1
      BY Zenon DEF PoolExact
    <2> DEFINE st == SocketTableInit(cfg, w)
               num == GetTotalSocketNum(cfg, w)
    <2>1. Shares(cfg) /\ Addressing(cfg) /\ w \in 0 .. cfg.cpu_num - 1
      BY <1>1, AcceptedReady DEF Workers
    <2>2. Table(st)
      BY <1>1, <2>1, ClientTable
    <2>3. num \in Nat /\ num = Len(st.cips) * PortTableSize(st)
      BY <1>1, <2>1, ClientPool DEF SocketsFit
    <2> HIDE DEF st, num
    <2>4. Cardinality(Entries(st)) = num /\ {x[1] : x \in Entries(st)} = 0 .. num - 1
      BY <2>2, <2>3, PoolFilled
    <2> QED
      BY <2>4, Zenon DEF Entries, st, num
  <1>2. CfgInv /\ Idle => (~cfg.server => PoolExact)
    BY <1>1
  <1> QED
    BY <1>2, CfgHolds, PTL
=============================================================================
