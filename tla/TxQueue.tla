------------------------------ MODULE TxQueue ------------------------------
(***************************************************************************)
(* The transmit queue of one worker: work_space_tx_send and                *)
(* work_space_tx_flush (src/src/work_space.h).                             *)
(*                                                                         *)
(* A worker owns its queue, so each call is one step.  The NIC is          *)
(* external: rte_eth_tx_burst may accept any prefix of the burst it is     *)
(* offered.  Packets are numbered in the order the stack hands them to     *)
(* work_space_tx_send; `wire' and `freed' record where each number ended.  *)
(***************************************************************************)
EXTENDS Integers, FiniteSets, Sequences

CONSTANTS
    TX_QUEUE_SIZE,  \* slots of the array tx
    TX_BURST,       \* queue->tx_burst, cfg->tx_burst after its default
    FLUSH_TRIES,    \* bursts one flush of a full queue may attempt (8)
    MaxMbufs        \* bound: packets the stack sends

ASSUME TxQueueAssumption ==
    /\ TX_QUEUE_SIZE \in Nat \ {0}
    /\ TX_BURST \in Nat \ {0}
    /\ FLUSH_TRIES \in Nat \ {0}
    /\ MaxMbufs \in Nat

VARIABLES
    tx,       \* the array of mbufs
    head,     \* first slot not yet taken by the NIC
    tail,     \* first free slot
    count,    \* mbufs handed to work_space_tx_send (pkt_tx)
    wire,     \* mbufs the NIC took
    freed,    \* mbufs dropped and returned to their pool
    txDrop    \* net_stats tx_drop

vars == <<tx, head, tail, count, wire, freed, txDrop>>

Slots == 0 .. TX_QUEUE_SIZE - 1
NoMbuf == -1
Queued == {tx[i] : i \in head .. tail - 1}

Init ==
    /\ tx = [i \in Slots |-> NoMbuf]
    /\ head = 0 /\ tail = 0
    /\ count = 0 /\ txDrop = 0
    /\ wire = {} /\ freed = {}

Least(a, b) == IF a <= b THEN a ELSE b

(***************************************************************************)
(* What a flush of slots h .. t-1 of the array a may offer to the NIC: one *)
(* burst while the array has room, FLUSH_TRIES bursts once it is full.     *)
(***************************************************************************)
Offer(h, t) ==
    IF t < TX_QUEUE_SIZE THEN Least(t - h, TX_BURST)
                         ELSE Least(t - h, FLUSH_TRIES * TX_BURST)

Mbufs(a, h, t) == {a[i] : i \in h .. t - 1}

-----------------------------------------------------------------------------
\* Mutants of work_space_tx_flush, each a bug this code could have had.

\* the drop loop starts at the head it had on entry
FlushFreesFromOldHead(a, h, t) ==
    \E n \in 0 .. Offer(h, t) :
        LET rest == IF t = TX_QUEUE_SIZE THEN Mbufs(a, h, t) ELSE {}
            idle == h + n = t \/ t = TX_QUEUE_SIZE
        IN  /\ wire' = wire \cup Mbufs(a, h, h + n)
            /\ freed' = freed \cup rest
            /\ txDrop' = txDrop + (IF t = TX_QUEUE_SIZE THEN t - (h + n) ELSE 0)
            /\ head' = IF idle THEN 0 ELSE h + n
            /\ tail' = IF idle THEN 0 ELSE t

\* the drop is counted before the bursts moved head
FlushCountsFromOldHead(a, h, t) ==
    \E n \in 0 .. Offer(h, t) :
        LET rest == IF t = TX_QUEUE_SIZE THEN Mbufs(a, h + n, t) ELSE {}
            idle == h + n = t \/ t = TX_QUEUE_SIZE
        IN  /\ wire' = wire \cup Mbufs(a, h, h + n)
            /\ freed' = freed \cup rest
            /\ txDrop' = txDrop + (IF t = TX_QUEUE_SIZE THEN t - h ELSE 0)
            /\ head' = IF idle THEN 0 ELSE h + n
            /\ tail' = IF idle THEN 0 ELSE t

\* the burst is taken from the end of the backlog
FlushNewestFirst(a, h, t) ==
    \E n \in 0 .. Offer(h, t) :
        LET rest == IF t = TX_QUEUE_SIZE THEN Mbufs(a, h + n, t) ELSE {}
            idle == h + n = t \/ t = TX_QUEUE_SIZE
        IN  /\ wire' = wire \cup Mbufs(a, t - n, t)
            /\ freed' = freed \cup rest
            /\ txDrop' = txDrop + (IF t = TX_QUEUE_SIZE THEN t - (h + n) ELSE 0)
            /\ head' = IF idle THEN 0 ELSE h + n
            /\ tail' = IF idle THEN 0 ELSE t

-----------------------------------------------------------------------------
(***************************************************************************)
(* work_space_tx_flush on the array a with indices h and t.  The NIC       *)
(* accepts n packets in all; an emptied queue restarts at slot 0, a queue  *)
(* that is still backlogged keeps its slots unless the array is full, and  *)
(* then the rest is dropped.                                               *)
(***************************************************************************)
Flush(a, h, t) ==
    \E n \in 0 .. Offer(h, t) :
        LET rest == IF t = TX_QUEUE_SIZE THEN Mbufs(a, h + n, t) ELSE {}
            idle == h + n = t \/ t = TX_QUEUE_SIZE
        IN  /\ wire' = wire \cup Mbufs(a, h, h + n)
            /\ freed' = freed \cup rest
            /\ txDrop' = txDrop + (IF t = TX_QUEUE_SIZE THEN t - (h + n) ELSE 0)
            /\ head' = IF idle THEN 0 ELSE h + n
            /\ tail' = IF idle THEN 0 ELSE t

\* mutant: the tick flushes whole bursts only
TxFlushWholeBursts ==
    /\ tail - head >= TX_BURST
    /\ Flush(tx, head, tail)
    /\ UNCHANGED <<tx, count>>

\* work_space_tx_flush, called by the loops on every tick
TxFlush ==
    /\ head # tail
    /\ Flush(tx, head, tail)
    /\ UNCHANGED <<tx, count>>

\* work_space_tx_send: store, advance tail, flush when a burst is ready
TxSend ==
    /\ count < MaxMbufs
    /\ count' = count + 1
    /\ tx' = [tx EXCEPT ![tail] = count]
    /\ IF (tail + 1) - head >= TX_BURST \/ tail + 1 = TX_QUEUE_SIZE
       THEN Flush(tx', head, tail + 1)
       ELSE /\ tail' = tail + 1
            /\ UNCHANGED <<head, wire, freed, txDrop>>

Next == TxSend \/ TxFlush

Spec == Init /\ [][Next]_vars

(***************************************************************************)
(* The tick of the worker loop flushes again and again, and a NIC that     *)
(* keeps draining its ring eventually takes something.                     *)
(***************************************************************************)
Fairness == WF_vars(TxFlush /\ wire' # wire)

FairSpec == Spec /\ Fairness
-----------------------------------------------------------------------------
\* Types, and the index invariant every caller of tx_send relies on: the
\* slot tx[tail] that the next work_space_tx_send writes is inside the array.
TypeOK ==
    /\ tx \in [Slots -> 0 .. MaxMbufs - 1 \cup {NoMbuf}]
    /\ head \in Slots /\ tail \in Slots /\ head <= tail
    /\ count \in 0 .. MaxMbufs
    /\ wire \subseteq 0 .. count - 1
    /\ freed \subseteq 0 .. count - 1
    /\ txDrop \in Nat

\* Slots h .. t-1 of the array a hold consecutive packets, the last of them c - 1.
Consecutive(a, h, t, c) == \A i \in h .. t - 1 : a[i] = c - (t - i)

\* The inductive invariant: between head and tail the array holds the last
\* tail - head packets in the order they were sent, and all earlier packets
\* have left, each by exactly one of the two exits.
QueueInv ==
    /\ TypeOK
    /\ tail - head <= count
    /\ Consecutive(tx, head, tail, count)
    /\ wire \cup freed = 0 .. count - (tail - head) - 1
    /\ wire \cap freed = {}

\* Every mbuf given to work_space_tx_send has exactly one owner: the queue, the
\* NIC, or its pool.  An mbuf is neither leaked nor freed after the NIC took it.
SingleOwner ==
    /\ 0 .. count - 1 = Queued \cup wire \cup freed
    /\ Queued \cap wire = {}
    /\ Queued \cap freed = {}
    /\ wire \cap freed = {}

\* tx_drop counts exactly the mbufs that were freed unsent.
DropsCounted == txDrop = Cardinality(freed)

\* The NIC receives packets in the order the stack sent them: whatever a step
\* puts on the wire was sent after everything already there.
NewestLast == \A a \in wire' \ wire : \A b \in wire : b < a
WireInOrder == [][NewestLast]_vars

\* A worker that goes quiet still gets its last packets out, though they are
\* fewer than tx_burst: each packet reaches the wire or is dropped.
EventuallyOut == \A m \in 0 .. MaxMbufs - 1 : m \in Queued ~> m \notin Queued
-----------------------------------------------------------------------------
\* The abstract queue: a FIFO of packets whose backlog may be dropped whole.
Backlog == [i \in 1 .. tail - head |-> tx[head + i - 1]]
Fifo == INSTANCE TxFifo WITH q <- Backlog

\* The array with its two indices behaves as that FIFO: a step adds at most one
\* packet at the end, the NIC takes a prefix, and a drop takes all of the rest.
ImplementsFifo == Fifo!Spec
=============================================================================
