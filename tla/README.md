# dperf in TLA+

dperf is a DPDK-based load generator for HTTP, TCP and UDP: a client machine
opens connections at a configured rate (`cps`) up to a configured number
(`cc`), a server machine answers, and both print statistics. This directory
holds TLA+ models of its core, TLC configurations that check them on small
instances and TLAPS proofs for all instances. Paths below are relative to
`src/src`.

## The system

A process has one control thread (`ctl.c`) and `cpu_num` worker threads, each
pinned to a CPU with its own work space: a socket table and pool, timer queues,
statistics, a transmit queue and one NIC queue. A worker runs a loop
(`loop.h`): receive a burst, run each packet through the stack, launch
connections (client), run timers and flush the transmit queue once per tick.
Nothing is locked: workers share the configuration, the table of work spaces,
one start-up counter and, with rss, each other's socket tables; the control
thread writes flags and launch intervals into the work spaces.

| Component | State | Operations | Interacts with | Hard behaviour | What makes it correct |
|---|---|---|---|---|---|
| TCP stack (`tcp.c`, `socket.h`) | per socket: state, `snd_nxt`, `snd_una`, `rcv_nxt`, `flags`, `retrans`, keepalive counters | packet handlers, three timer handlers, launch, delayed-ACK flush | timers, transmit queue, statistics, peer | loss, duplication, reordering; retransmission racing ACKs; end of the test; no mbuf | each request served once, responses match, every connection ends, statistics honest |
| Socket timers (`socket_timer.h/.c`) | three FIFO queues with an intrusive node, `timer_tsc` | add, delete, run | TCP, UDP | timers armed in the past; queue order | a socket is in one queue; an open one is guarded |
| Socket table (`socket.h/.c`) | pool with a circular index, lookup array | open, close, lookup | all | pool exhaustion; rss exchange between workers | lookup is injective; pool index in range |
| Transmit queue (`work_space.h`) | `tx[]`, `head`, `tail` | `work_space_tx_send`, `work_space_tx_flush` | stack, NIC | partial bursts, full array | each mbuf has one owner, order kept, no overrun |
| Launch control (`client.c`, `work_space.h`, `ctl.c`) | `client_launch` per worker, shared `launch_num` | init, launch step, slow start, stop | control thread, pool | uneven shares, late workers, interrupt | `cc` and `cps` are limits, `cc` is reached |
| Process life cycle (`main.c`, `work_space.c`, `ctl.c`) | barrier counter, table of work spaces, flags | start-up, barriers, stop, exit, SIGINT | all threads | any interleaving, failing worker | no early read of another worker's tables; the test ends |
| UDP (`udp.c`) | per socket: state, `timer_tsc` | launch, response, two timer handlers, server | timers, transmit queue | loss; rearming inside a timer run; stop in the middle of it | open sockets are guarded, requests end, runs return, requests are paced |
| HTTP (`http_parse.c`, `http.c`, ack delay in `tcp.c`) | per socket: parser state, rest length, `http_frags`; `ws->ack_delay` | parse a segment, put off an ACK, flush | TCP | responses cut anywhere; a full ack list | the result does not depend on the cut; nothing stays without an ACK in mid-response |
| Mbufs (`mbuf.c/.h`, `mbuf_cache.c`) | pools, batch of `mbuf_free2`, packet templates | allocate, copy, batch, free; build templates | all | a handler with many exits; copies for bonds and the kernel | one owner per mbuf; template lengths agree |
| Neighbours and receive path (`loop.h`, `arp.c`, `icmp.c`, `icmp6.c`, `neigh.c`, `work_space_update_gw`) | `port->gateway_mac`, `dmac` in all templates | layer-3 entries, ARP/ICMP/ND handlers, search for the gateway | workers write each other's templates | update racing start and end of other workers | the address reaches every worker, none is written after its end |
| Kernel interface and bonding (`kni.c`, `bond.c`, `lldp.c`) | ring between workers, kernel FIFO | recv, send, broadcast | mbufs | full ring, kernel takes a part | one owner per mbuf |
| Configuration (`config*.c`, `ip_range.h`, `ip_list.c`) | `g_config` | keyword handlers, 24 checks in order | every part relies on it | order of checks, defaults, per-worker shares | what is accepted satisfies what the other parts assume |
| Sockets across workers (`socket.h`, `flow.c`, `rss.c`) | socket tables, pool index | set-up, lookup, take, take over | NIC | any hash; worker A clears a socket of worker B | rules and tables agree; one live copy per connection |
| Statistics, checksums, traces, device set-up | counters, none | | | | not modelled, see below |

## Modules

### Tcp, MCTcp, TcpProofs, TcpDelivery

One client and one server socket with the same four-tuple, and the network
between them. `sk[e]` is `struct socket` of end `e`: the fields of the code plus
`timer` (the queue it is linked in) and `age` (now minus `timer_tsc`), plus
history (`id`, `got`, `rid`, `by`, `quiet`) used by properties only. `net` is the
set of packets in flight. `cfg` is `g_config`: chosen once in `Init` from the
constant `Configs` and constant afterwards.

A worker runs a handler to completion, so a handler is one action. Inside, a
handler is an operator on a work record (socket, packets sent, mbufs left)
named after its function: `NewPacket` (`tcp_new_packet`), `Reply`
(`tcp_reply`), `DoRetransmit`, `CheckSequence`, `ProcessFin`,
`ServerProcessSyn`, `ClientProcessSynAck`, `ServerProcessData`,
`ClientProcessData` (with `ClientTakeResponse` for `http_client_process_data`),
`SendKeepaliveRequest`, `DoKeepalive`, `ClientLaunch`. With a `send_window`
the server sends bursts (`Burst`, `ReplyMore`, `ServerSendMore`), takes partial
and duplicated ACKs (`PartlyAcked`) and resends only the first outstanding
segment (`ResendFirst`). The actions are `Receive`,
`Launch`, `RetransmitTimer`, `KeepaliveTimer`, `TimeoutTimer`,
`AckDelayFlush`, `DurationOver`, `Stop`; the environment's are `Lose`,
`ReceiveCopy` and `Tick`. Reordering needs no action, because any packet of the
set can be received next. An empty mbuf pool is a fault of `Step`: the handler
finds 0 or 1 mbufs instead of enough.

Time: `Tick` ages both sockets. It happens while a packet is in flight or a
timer is due only as a counted fault (`late`), that is, a round trip normally
takes less than a unit. Sequence numbers are modulo 64 instead of 2^32 and start
just below the wrap; the conversations are shorter than half of that, so the
signed comparison of `tcp_seq_le` means what it means in the code.

Abstracted: headers, checksums, payload bytes, statistics other than how a
connection was counted when it ended; the length of a response is a number of
segments and the HTTP parser a count of them (`Http` has the parser). Left out:
rss, `change_dip`.

### TxQueue, TxFifo, TxQueueProofs

The transmit queue of one worker. The state is `struct tx_queue` and where each
packet went (`wire`, `freed`, `txDrop`). `TxSend` and `TxFlush` are the two
functions, sharing `Flush`; the NIC (external) takes any prefix of what it is
offered. `TxFifo` is the abstract queue: append, take a prefix, perhaps drop the
whole rest. `TxQueue!ImplementsFifo` maps the slots between `head` and `tail` to
the abstract sequence.

### SocketTimer

The timer queues of a worker: `next` and `prev` are the nodes inside sockets and
queue heads, changed pointer by pointer (`UnlinkedNext`/`UnlinkedPrev` for
`socket_node_del`, `PushedNext`/`PushedPrev` for `socket_queue_push`). `home` and
`place` are history: where a socket was put and its position; `QueuesLinked`
states what the pointers must spell out against them. No run of its own: `Udp`
extends it, and the proof (in `UdpProofs`) covers any number of queues.

### Udp, MCUdp, UdpProofs

A UDP client worker with a pool of sockets, and the server. `udp_client_launch`
and `socket_timer_run` take one iteration per step, since `ws->time.tsc` stands
still in them while the control thread may set `ws->stop` (`StartLaunch`,
`LaunchOne`, `EndLaunch`; `StartTimerRun`, `RunTimer`, `EndTimerRun`); the handlers
are `ClientProcess`, `ServerProcess`, `KeepaliveHandler` and, for
`udp_retransmit_handler`, `Close`. Time is absolute and moves by any amount
(`TimeUpdate`). A packet can be lost at every send (no mbuf, full transmit queue,
network) and a response can be kept and received again. The rss branches
(`laddr` 0), headers and statistics are left out.

### Launch, MCLaunch, LaunchProofs

All workers of a client and the control thread. `ClientInit` is `client_init`
(with `client_assign_task` as `AssignTask`), `ClientLaunch` the launch step with
its count (`LaunchCount`, `work_space_client_launch_num`) and the circular pool
(`Picked`); `CtlStart`, `CtlSlow`, `CtlRun` are the seconds of the control thread
with `SetInterval` (`work_space_set_launch_interval`) inside them. `client_init`
is one step: the workers are a `usleep(id)` apart there.

### Startup, StartupProofs

Every worker from `work_space_new` to the end of its loop, one action per
piece between two accesses to shared state: `Alloc`, `Arrive` and `Pass` for each
`work_space_wait_all` (its increment, and the read that ends the spinning),
`InitWorker`, `InitRss`, `Start`, `Leave`, `Fail`; the control thread looks at
(`WaitStart`), stops (`StopAll`) and exits (`ExitAll`) one work space per step.
All ports are taken to be one rss group.

### Mbuf, Rx, MCRx, RxProofs

`Mbuf` is who owns the mbufs of a port: the pool of each queue, the batch of
`mbuf_free2`, transmit queues, the ring to queue 0, the kernel's FIFO and the
NIC; places whose order does not matter count how often they hold an mbuf, so that
a double free or a double send would show. Its operators are the calls
that move mbufs (`MbufFree2`, `MbufFree2Flush`, `TxSend`, `KniRecv`,
`KniBroadcast`, `BondBroadcast`), so a handler is a composition of the calls it
makes. The transmit queue is the FIFO of `TxFifo`, seen as a bag.

`Rx` has the workers of one port in `lcore_main`: the search for the gateway
(`NeighSecond`, `NeighPoll`, `NeighFound`), then the loop. `Recv` is one frame
through the layer-3 entry of the configuration (`L3Input`, `VxlanInput`) and its
handler (`ArpProcess`, `IcmpProcess`, `Icmp6Process`, `TcpProcess`, `UdpProcess`
and their drops and RSTs). `SlowTimerRun` is the kernel interface and LLDP.
A handler touches its own worker only and is one step, except
`work_space_update_gw`: `RecvGateway`, `UpdatePort`, one `UpdateWorker` per worker,
`UpdateEnd`. `ExitAll` and `Close` end the loops.

### SocketTable, Config, ConfigCheck, Template, Setup, MCSetup, SetupProofs

`Config` has a handler per keyword and `ConfigCheck` the checks of
`config_parse`, each an operator from a configuration to the next one or `Error`,
applied in the code's order (`KeywordParse`, `ConfigParse`). Arguments are values
with units rather than strings; what the handlers make of them is an `int` of
`INT_MAX`: `atoi` (`Atoi`), sums and products wrap (`ToInt`), and of a double that is
too large (`atof`, `FloatToInt`) the CPU makes the constant `FLOAT_OVERFLOW`, the least
`int` on x86. `Template` builds the packet templates of
`mbuf_cache.c`, `http.c` and `vxlan.c` as lengths. `SocketTable` is the layout,
filling and lookup of a socket table, and the pool index with and without
`client_hop` and rss. `Setup` runs them: `ReadLine`, `EndOfFile`, `Check`, `Start`,
then the workers of a client take sockets (`GetSocket`, `GetSocketRss`), receive
packets with any hash (`RecvRss`, `ClearCopy`: the two halves of the take-over in
`socket_client_check_rss`) and close them (`SocketClose`). A packet may come for any
connection a worker has opened, also after it has closed it (`Packets`).

### Http, MCHttp

`ParseRun` is `http_parse_run` with `ParseHeaders`, `ParseBody` and one operator
per state of the chunk parser, on a sequence of symbols (a header line is one, a
body byte is one). `ClientProcessData` is `http_client_process_data` for the next
`n` symbols; `AckDelayAdd` and `AckDelayFlush` are the delayed ACKs; `Open`,
`KeepaliveRequest` and `Tick` drive several sockets that share one ack list.

## Runs

| Run | Checks | Shows |
|---|---|---|
| `TxQueue` | `QueueInv` `SingleOwner` `DropsCounted` `WireInOrder` `ImplementsFifo` `EventuallyOut` | 7 slots, bursts of 3, 2 tries, 11 packets: the array fills, drops, restarts with a backlog and without. Array length is no multiple of the burst, so every residue occurs. |
| `Tcp` | `TypeOK` `InStep` `FinMeansAnswered` `ClientResendReady` `ServerTimerArmed` `FinWait2Acked` `ServedOnce` `AnswersMyRequest` `RetransmitPacedShort` | eleven configurations, two of them with a send window; two connections or requests, three faults, 1.4M states |
| `TcpLive` | `EventuallyClosed` | seven configurations, one connection of up to three requests, three faults; keepalive without an interval, no packet lost; two with a send window and no faults |
| `Launch` | `WithinCc` `WithinCps` `FullSpeed` `ReachesCc` | two workers, three targets, one connection that ends, workers up to two cycles late; a second of five cycles, so that an interval is rounded; 673k states |
| `Startup` | `BarrierInv` `TablesComplete` `NoLateLaunch` `StartedEnds` | three workers, failures and Ctrl-C anywhere |
| `Udp` | `QueuesLinked` `Guarded` `NotLate` `EventuallyClosed` `RunEnds` | two sockets, five configurations, 366k states |
| `Rx` | `TypeOK` `OneOwner` `GatewayEverywhere` `UpdatesLive` | two workers, four mbufs, IPv4 with kernel interface, IPv4 bond, IPv6, VXLAN; 241k states |
| `Setup` | `PoolExact` `FlowHasSocket` `OneCopy` `AcceptedSound` `TemplateFits` | six base files (client and server, one and two ports, rss, VXLAN, IPv6) followed by any two of 94 lines that cover every keyword, some with numbers that overflow an `int`; 554k states |
| `Http` | `Framing` `AckBounded` | encoded responses, all chunked bodies of five bytes, two sockets with one ack slot, cut in every way; 602k states |
| `TcpNoMbuf` | `ServerClosesIdle`, violated | finding 1 |
| `StartupMissed` | `InterruptEnds`, violated | finding 2 |
| `UdpSpin` | `RequestsPaced`, violated | finding 3 |

Bounds. Three faults are enough to lose a segment, its retransmission and an
ACK, or to combine a loss with a late and a duplicate packet; a socket gives up
after four retransmissions, which three losses plus late ticks reach. Two
connections on one four-tuple are needed for packets of an old one to meet the
new one. `AgeMax` saturates ages above every timeout. In `Launch`, `MaxTsc` is
past the end of every test; five cycles per second keep intervals of two and five
cycles apart, and two launches do not divide them: in one target the interval of a
worker is rounded from 5/2 to 2, long enough for the difference to add up (with
`TSC_PER_SEC` for `ShareCycles`, `WithinCps` is violated). In `Udp`, two sockets are
enough for one to hide behind the other, a duration of 5 with intervals 1 and 2 reaches every branch
of `socket_accurate_timer_tsc`, and `MaxTsc` lets a request sent at the end
expire; `NetMax` and `FiredMax` bound the network and a history counter.
Responses of three segments with a window of two make bursts, partial ACKs and
a resend in the middle; `SEND_WINDOW_MAX` is 2 for 16. In `Rx` two workers are enough
for one to update while the other searches, starts or closes; two mbufs per pool,
batches of two and a ring of one reach every limit (empty pool, full batch, full
ring), and two slaves make `BondBroadcast` fail on one of them. `Setup` scales
constants so that a table can be enumerated: `NETWORK_PORT_NUM` 5 for 65536,
`LISTEN_DEFAULT` 1 for 80, `DEFAULT_CPS` 2 for 1000; `client_hop` jumps by
`NETWORK_PORT_NUM - 1`. `UINT32_NUM`, 20 for 2^32, lets the number of sockets of some
accepted files wrap. `INT_MAX` is 2^23 - 1, above every product of the ordinary lines,
with lines that exceed it in a number, a product and a sum; `UINT64_NUM` is 2^30, and
`IP_LIST_NUM_MAX` 4. Two lines after a base are enough for a keyword to be
repeated and for any two keywords to conflict; three takes go round the smallest
pool. `Http` reads whole responses of every kind, one or two per connection;
`TCP_ACK_DELAY_MAX` is 1 for 1024.
`CHECK_DEADLOCK` is off throughout: the test ends, and the
bounds end it.

Fairness. Worker loops and the control thread poll for ever on CPUs of their
own, so their steps are weakly fair: a packet in the network that is not lost
is received, due timers run, time passes, the control thread ends the test.
`Tcp` writes weak fairness with the guards spelled out. `Udp` uses strong
fairness for the two steps the client loop returns to in every round
(`TimeUpdate`, `StartTimerRun`), because launching may come between them. Losses, duplicates,
delays, launches, `Ctrl-C` and failures are never forced. `TxQueue` assumes in
addition that the NIC drains its ring, hence eventually takes a packet. `Rx`,
`Setup` and `Http` state safety only.

### Findings

1. `TcpNoMbuf`: a server that cannot allocate its answer has left the timer queue
   and enters none; without another packet the socket is never closed.
2. `StartupMissed`: both barriers wait for one counter to be a multiple of
   `cpu_num`. A worker that is descheduled at the first barrier from the moment it
   opens until another worker arrives at the second one waits for ever. The time
   between is that of `socket_table_init`, so it takes a long stall; then start-up
   hangs, and the control thread does not react to `Ctrl-C`. The proofs show that
   the defect is in liveness only: no schedule lets a worker through too early.
3. `UdpSpin`: `socket_accurate_timer_tsc` compares with `<=`. Called exactly one,
   two or three intervals after `timer_tsc`, or more than three intervals late, it
   returns a time that is due again at the same `ws->time.tsc`, and the next call
   returns it unchanged. `udp_socket_keepalive_timer_handler` rearms its socket in
   every call, so `socket_timer_run` sends its requests without end, until the
   control thread stops the test (`RunEnds`, in run `Udp`).

### Observations

Modelled as the code has it; the properties are stated so that they hold, and
these are the places where they would not.

TCP.
- A keepalive client with an interval of at least `retransmit_timeout` arms its
  retransmit timer in the past (`tcp.c:253`) and resends a lost request back to
  back; `RetransmitPacedShort` is therefore about servers and other clients.
- The "lost ack" branch of `tcp_check_sequence` is unreachable: the branch before
  it covers its condition.
- With keepalive and interval 0 a client that ends a connection enters
  `FIN_WAIT_2` before its FIN is acknowledged, so `FinWait2Acked` fails in that
  configuration, which run `Tcp` leaves out. The ACK it sends in the same call
  overwrites the flags of the FIN: a lost FIN is never resent, and the client stays in
  `FIN_WAIT_2` without a timer. `TcpLive` has the configuration with late and duplicated
  packets, but without losses.
- With a `send_window`, `tcp_reply` arms no timer. A SYN-ACK is resent only for a
  repeated SYN and a FIN at most once, by the timer of the last request:
  `ServerTimerArmed` holds only in `ESTABLISHED`, and after a loss a socket may stay
  open. A lost ACK at the end of a window is never repeated by the client; the
  server resends, gives up, and the client stays `ESTABLISHED` without a timer.
  `TcpLive` therefore has these configurations over an undisturbed network only.
- With a `send_window`, three further ACKs in `FIN_WAIT_1` or `LAST_ACK` (repeated FINs
  of the peer count) make the server send response data in the place of its FIN,
  which the peer accepts: `InStep` for a window ends with the server's FIN.

UDP and launch.
- `udp_client_launch` does not reset `pipeline` between sockets: only the first
  socket of a call sends the configured number of requests.
- With `cc` below `cpu_num` a worker whose share is 0 launches without a cap,
  because 0 also means "no target" (`work_space.h:217`, `client.c:37`); run
  `Launch` keeps `cc` at or above the number of workers.
- `client_init` rounds the interval between launches down, so that a client is
  faster than `cps` by less than one TSC cycle per launch. `WithinCps` measures a
  second by what the intervals add up to (`ShareCycles`); run `Launch` has a clock so
  slow that this is a large part of it.

Configuration.
- `tcp_rst` and `payload_file` are refused in every form.
- `tx_burst 256` is stored in a `uint8_t` as 0 and becomes the default.
- Payload sizes are checked before VXLAN is, so its headers are never counted;
  `TemplateFits` states the length without them.
- The number of a worker's sockets is a `uint32_t` (`config.c:2871`), and 254 client
  addresses with all local ports and 259 `listen` ports exceed it. Nothing checks that:
  the number wraps and the table is written beyond its pool. `PoolExact` is about
  numbers that fit, and `Start` does not follow the others.
- `config_parse_listen` adds two `int`s (`config.c:649`). The sum of
  `listen 2147483647 1` overflows, passes the check, and the line is accepted; the port
  loop of `socket_port_table_new`, whose counter is a `uint16_t` (`socket.c:122`), then
  never ends. `AcceptedSound` has this exception, and `SocketsFit`, the condition of
  `PoolExact`, `FlowHasSocket` and `Start`, leaves it out.
- The product of a keepalive interval is an `int` too (`config.c:275`) and wraps from
  2148 s on, to a shorter interval or, by way of a negative `int`, a huge `uint64_t`. What
  is accepted is still 0 or at least two ticks (`AcceptedSound`).
- The share of a target in `check_target` is rounded down, and `AcceptedSound`
  states it that way.
- `ip_range` accepts a last byte of 0 although its comment excludes it;
  `change_dip` ignores a bad step without an error.
- A GET with `payload_size` of 86 or more sends one byte less; a server with an
  `mss` below 85 sends a first segment of 85 bytes.

Workers.
- With rss a worker without a port of its own never returns from
  `socket_table_get_socket_rss`, and its index can reach `num` (`socket.h:155`).
- `flow_isolate` with a single queue installs no rule (`flow.c:245`).
- The gateway update writes `port->gateway_mac` before the templates of the other
  workers. A worker let through in between may prepare an mbuf with a zero address,
  which `mbuf_cache_alloc` never prepares again (`SendData`, `stale` in `Rx`).
- `neigh_ignore` has the opposite sense in `icmp6.c:74`, and `icmp6_ns` counts
  `icmp_rx` twice; under VXLAN the ICMP branch is tested after ARP (`loop.h:90`).

HTTP.
- Upper-case hexadecimal digits end a chunk size early.
- Headers cut between two segments ("headers must be in an mbuf"): after
  `Transfer-Encoding` this is an error, after `Content-Length: 0` a premature end.
  `Framing` is about responses whose headers come in one segment.
- `socket_init_http` clears `http_ack` while the socket stays in the ack list;
  `AckBounded` shows that this is harmless.

## Proofs

`TxQueueProofs`, for all array sizes, burst sizes, tries and packets, from
`TxQueueAssumption` (sizes are positive). The inductive invariant is `QueueInv`:
`TypeOK` and `SingleOwner` alone are not inductive, because a flush moves ranges
of slots and one has to know which packets the slots hold. `QueueInv` says that
slot `i` between `head` and `tail` holds packet `count - (tail - i)` and that all
older packets are on exactly one of `wire` and `freed`. `MbufsAreInterval` turns
ranges of slots into intervals of numbers, `FlushKeepsInv` is the step shared by
both actions. `DropsCounted` follows with the cardinality of the interval that a
flush frees. For the refinement the abstract sequence is the slots from `head` to
`tail` (`Slice`), and a flush is what may leave the abstract queue in one step, of a
sequence to which a send has appended before. Results:
`QueueInvariant`, `MbufsHaveOneOwner`, `DropsAreCounted`, `WireIsFifo`,
`QueueIsFifo`.

`StartupProofs`, for every number of workers, from `StartupAssumption`. The
invariant is `TypeOK` and `BarrierInv`: the counter is the number of arrivals at
both barriers, and whoever is past a barrier implies that all have arrived there.
At the first barrier, if no one has passed, the counter is the number of first
arrivals, at most `CPU_NUM`, and a positive multiple of `CPU_NUM` is `CPU_NUM`
itself (`OneRound`); at the second it is `CPU_NUM` plus the second arrivals
(`SecondRound`). Cardinalities come from `FiniteSetTheorems` (`ArrivedSets`).
For `NoLateLaunch` the invariant adds `StopInv`: the control thread has seen the
start flag of every work space before it stops the first, a worker with its flag set
is past `client_init`, and what `work_space_stop_all` has passed stays at 0. Results: `BarriersHold`, `BarrierCounter`, `RssTablesComplete`,
`NobodyLaunchesLate`.

`UdpProofs`, for all pools, configurations, durations and bounds, from
`UdpAssumption` (the pool is not empty, configurations pass the checks). The
inductive invariant adds `Times` and `Discipline`: no `timer_tsc` in the future, and
along a queue it falls back by at most one interval, because
`socket_accurate_timer_tsc` returns a time within the last interval
(`AccurateRange`) and sockets enter at the end (`AddOrder`). When the first socket
is not due (`FirstOfQueue`), every other is less than an interval late. Results:
`UdpInvariant`, `NoSocketLate`, `OpenSocketsGuarded`, and `UdpImplementsTimers`
(the client implements `SocketTimer`).

The first part of `UdpProofs` is about `SocketTimer` alone, for all sets of sockets
and queues, from `SocketTimerAssumption` (they are disjoint). `QueuesLinked` is
inductive together with the types. `socket_add_timer` is a removal and a push, so
both are proved as lemmas about any four functions that are linked (`Unlinking`,
`Pushing`); besides the inverse pointers one needs that places go up by one along
`next`, are distinct and do not exceed that of the last node: otherwise a stray cycle
of nodes could claim to be in the queue. Result: `TimerQueuesLinked`.

`RxProofs`, for every number of workers, sets of addresses, frames and
configurations, from `MbufAssumption` and `RxAssumption`. `GatewayEverywhere` and
`UpdatesLive` are not inductive: a second update may be under way when the first
ends, and a worker may start in the middle of one. The invariant `GwInv`
adds that a worker updates only while it still searches for the gateway itself
(`Updating`); that work spaces are freed only after `exit`, which waits for every
worker to be through its search (`Closing`); that no worker runs without a known
gateway (`Started`); and that a template without an address lies ahead of some
update in progress (`Pending`). Results: `GatewayReachesAll`,
`NoUpdateAfterClose`.

The second half of `RxProofs` is mbuf ownership, for every pool, batch, ring and
array size. Each call of `Mbuf` is shown to keep a conservation law: for every mbuf,
what the shared places hold (`Shared`) plus what the calling worker holds
(`Private`) is the same before and after, plus the mbufs it was given (`Gives`). A
batch that is freed, a ring that is offered to the kernel or a part of it that is
refused is a cut of a sequence whose pieces count as much as the whole (`Cut`). A
handler is then a sum of its calls, and because it touches one worker's places only,
`OneOwner` survives it. The invariant `OwnInv` adds to `OneOwner` the sizes of batches
and ring, `GwInv`, and that only a worker in the middle of an update holds an mbuf
in its hands (`Holding`). Results: `MbufsHaveOneOwner`, `RxTypes`.

`LaunchProofs`, for every number of workers, targets, pool size and timing, from
`LaunchAssumption`. `SpeedInv` is types and `Speed`: the control thread leaves slow
start, by itself or by an interrupt, only with every worker at its own interval. That
intervals are positive needs a TSC cycle for every connection of a second
(`CyclesSuffice`), which the code relies on without a check. `Caps` says that each
worker counts its own sockets and is within its share. Nothing relates the workers
to each other, so `CcIsACap` lays the shares end to end: worker after worker, its
connections are numbered within its share, which maps all connections injectively
into `1 .. CC` (`SharesDisjoint`, `Numbering`, `CapsAddUp`). The hypothesis
`CapReachesAll` is that `cc` is 0, or not below `cpu_num`, or not below `cps`: in the
remaining case a worker has a share of 0 and no cap (see the observations).
`WithinCps` counts the connections of all workers against the time since the first
could launch. No worker knows that time; what paces it is its `launch_next`, which
goes up by the interval with every launch, so it runs ahead of the connections opened:
`opened * ShareCycles <= share * (launch_next - first)`, and `launch_next` is at most an
interval, that is a second, ahead of the time at which a launch happened (`Paced`).
`ShareCycles` is a second without what `client_init` rounds off: the number of launches a
second times the rounded interval (`RoundedQuotient`, `RateOfRecord`). So no TSC
frequency is excluded, and where a frequency divides evenly it is the second itself. A late worker that catches up launches faster, slow start makes the interval longer;
neither changes that relation. The invariant `Pace` has it for every worker, and the
sum over the workers, with the shortest of their seconds, uses the disjoint shares
again (`PacesAddUp`). `CpsIsACap` has no hypotheses.
Results: `SpeedInvariant`, `SlowStartEndsAtFullSpeed`, `CapsHold`, `CcIsACap`,
`PaceHolds`, `CpsIsACap`.

`TcpProofs`, for every configuration, sequence space, segment length and bound, from
`TcpAssumption`. The lemmas go through the handlers in the order in which they call
each other (`NewPacket`, `Arm`, `Reply`, `DoRetransmit`, `CheckSequence`, `MaybeFin`,
`Burst`, ...), each for any work record and any packet, so nothing is assumed about
the network. `Sane` is the types, no closed socket in a queue, and an open one with
retransmissions left; `Fit` adds that a socket in `FIN_WAIT_2` has nothing
outstanding; `Armed` that an open server socket is in a queue, with something
outstanding if it is the retransmit queue. `Armed` must say the latter: the handler of
that queue unlinks the socket, and without anything to resend it arms no timer. The
invariant `Inv` puts these on both sockets. Results:
- `TcpTypes`, without hypotheses.
- `FinWait2MeansAcked`, without a send window and but for plain keepalive with
  interval 0 (see the observations).
- `ServerAlwaysTimed`, without a send window and while there are mbufs: finding 1 is
  what happens without.
- `ServerResendsPaced`, the server's half of `RetransmitPacedShort`. A segment that is
  outstanding has been silent for as long as its timer is old (`Aged`), because all
  that a server sends starts a timer at the present time; the timer's timeout is
  longer than a second because `RTO_MIN` is two. A failed allocation sends nothing
  and so does not count as sending.

`TcpDelivery`, on top of `TcpProofs`, is exactly-once delivery, for every
configuration without a send window, every segment length, any number of
connections, and any loss, copying, delay and shortage of mbufs. The hypothesis
`SendWindow = 0` is the stop-and-wait mode; `Unwrapped` says that a test does not use
up the sequence space, so that numbers can be compared (the runs of `Tcp` have a small
space and do wrap). `ServedOnce` and `AnswersMyRequest` say nothing about packets, so
the inductive invariant is `Delivery`, over both sockets and the network. `Bounded`:
no number in flight is ahead of the socket that sent it. `Order`: a request the server
would take is one it has not served (`NotServedYet`), requests are numbered in the order
of their sequence numbers (`RequestsNumbered`), the one that ends at the client's
`snd_nxt` is its last (`LastRequest`), a response the client would take answers that
one, there is one place for it, and it is not answered yet (`LastResponse`), and before
the handshake is over everything in flight is old (`OldBeforeOpen`). What
`tcp_do_retransmit` would send counts as in flight (`Pending`). In the middle of a
handler, between taking a segment and answering it, nothing is pending and a weaker
form holds (`ServerHeld`, `ClientHeld`). The first lemmas are about this order alone
(`ServerTakes`, `ServerResponds`, `ClientTakes`, `ClientAsks`, ...), the next about what
`tcp_reply` and `tcp_check_sequence` do to it (`Sends`, `Accepted`), then the handlers
follow. Results:
- `NumbersTellApart`, the invariant itself.
- `RequestsServedOnce`: `ServedOnce`.
- `ResponsesAnswerLast`: `AnswersMyRequest`.

`SetupProofs`, for every configuration file and every value of the limits, from
`ConfigAssumption`, `CheckAssumption` and `SetupAssumption`: limits have at least the size
that the defaults need, and the words of a line are read as numbers or addresses
where a handler reads those (`WellFormed`). Nothing is assumed about which lines there
are, their order, or whether they make sense. The handlers of all keywords keep
`Parsed`: per field what any handler may set it to (`FieldOk`), and what fits together
already while reading (a keepalive without an interval has no number of requests, the
ports listened on, unless their sum overflowed, and the local ports are in range).
Numbers are wrapped `int`s here too: `SignedWrap`, `IntOf` and `FloatInt` say what range
they have and that a number that is in range is unchanged, `IntervalParsed` that a
keepalive interval below 10 us is one the ticks can follow, also when its product has
wrapped. That alone is not
`AcceptedSound`: most of it is established check by check, and later checks must not
undo it (`CheckTarget` sets `cps`, `CheckPayloads` sizes). `Checked(cfg, at)` collects what the
checks before `at` have established; each check adds one part (`Check1`, `Check2`, ...,
`AllChecks`), and a check that sets a field leaves alone the fields of the parts
before it (`Carry`, `CheckOnly`, `CheckAndSet`).

For `OneCopy` the invariant `RunInv` says which worker may have a connection open
(`Owners`): without rss those with its addresses, which by the checks no other worker
has; with rss the worker whose share of the local ports has its port, or the one the
NIC hashes it to, if it has taken it over or is doing so (`TakenOver`). A socket
given away belongs to a connection that is hashed elsewhere (`GivenAway`), and a
takeover in progress is by the worker it is hashed to, from its owner (`Takeovers`). Two
workers with the same connection are then its owner and its taker, and the owner's
copy is gone or the takeover in progress.

The index of a socket is a number with four digits: client address, client port,
server port, server address. `RadixOnce`, `RadixBelow` and `RadixSplit` say that
digits determine the number, stay below the product of their ranges, and exist for
every such number. So the loops of `socket_table_init` write every index of the pool once
(`WrittenOnce`, `WrittenAll`, `PoolFilled`), and the lookup, which finds the client address
by its last two bytes, finds the socket of the 4-tuple (`LookupOwn`), because the
checks make those bytes unique.
Results: `AcceptedIsSound`; `OneCopyHolds`; `ClientFlowHasSocket` and `ClientPoolExact`,
which are `FlowHasSocket` and `PoolExact` for a client (where `SocketsFit`). A server concatenates the addresses of
all ranges and adds up their sockets, and what a concatenation or a sum over a sequence
is takes induction over data.

Only model-checked, and why:
- `InStep`, `FinMeansAnswered`, `ClientResendReady` and the client's half of
  `RetransmitPacedShort` relate a socket to control segments in flight as well (a
  repeated SYN-ACK must not acknowledge what is outstanding); `Delivery` orders data
  only. `ServedOnce` and `AnswersMyRequest` are proved without a send window and while
  numbers do not wrap; with either they are model-checked.
- `Framing` and `AckBounded`: `Http` parses with recursive operators, and the
  installed provers do no induction over data.
- `PoolExact` and `FlowHasSocket` of a server, for the reason above.
- `TemplateFits`: `Parsed` and `Checked` follow neither payload sizes nor the lengths of
  host and path through the handlers.
- All liveness (`EventuallyOut`, `EventuallyClosed` of `Tcp` and `Udp`, `ReachesCc`,
  `StartedEnds`, `RunEnds`): the prover has no rules for fairness.

## Not modelled

- Statistics (`net_stats.c`): sums of per-worker counters and their printing. The
  counters a property needs (errors, drops, concurrent sockets) are in the modules.
- Checksums (`csum.c`): stateless 16-bit arithmetic, which means something only at
  full width, beyond enumeration.
- Device set-up (`port.c`, `dpdk.c`, most of `kni.c`, `virtio-user.c`, the key of
  `rss.c`): sequences of calls into DPDK and the kernel.
- Bytes of headers, packet dumps, traces, logs, help texts, the calibration of the
  clock (`tick.c`) and `cpuload.c`.
- `client_init` in steps: the workers write the shared `cfg->launch_num`
  (`client.c:68`) a `usleep(id)` apart, and `Launch` takes that as one step each.
- `change_dip`'s rotation in `tcp_new_packet`, and the branch of the timer handlers
  for a socket that rss gave away (`Setup` has the giving away).

## Plan

1. Done: `TxQueue`, `Tcp` with the send window, `Launch`, `Startup`, `SocketTimer`,
   `Udp`, `Mbuf` and `Rx`, `SocketTable`, `Config`, `Template` and `Setup`, `Http`.
2. Proofs done: the timer queues and the UDP client, the transmit queue with its
   refinement, start-up, the gateway, mbuf ownership, launch control with both its
   limits, the handlers of `Tcp` and exactly-once delivery over its network, what
   `config_parse` accepts, the socket tables of a client and the exchange of sockets
   with rss. Next, control segments in the invariant of delivery, for
   `ClientResendReady`; payload sizes in `Checked`, for `TemplateFits`.
3. `Tcp` with several sockets over `SocketTimer`, so that its three queues are
   shown to implement it too.
4. `client_init` in steps.
