-------------------------------- MODULE Mbuf --------------------------------
(***************************************************************************)
(* Who owns the mbufs of one port: the mempools of its queues, the batches *)
(* of mbuf_free2, the transmit queues, the ring on which workers hand      *)
(* packets to the worker of queue 0, the kernel interface and the NIC.     *)
(* The calls that move mbufs are operators on a record s of these places,  *)
(* so that a handler is a composition of the calls it makes.               *)
(*                                                                         *)
(* A transmit queue is the FIFO that module TxFifo describes and that      *)
(* module TxQueue implements: mbufs enter here and leave in TxOut.         *)
(***************************************************************************)
EXTENDS Integers, Sequences, FiniteSets

CONSTANTS
    QUEUE_NUM,            \* port->queue_num: one worker per queue
    PER_QUEUE,            \* NB_MBUF: mbufs in the pool of a queue
    MBUF_FREE_POOL_SIZE,  \* slots of g_mbuf_free_pool
    KNI_RING_SIZE,        \* slots of port->kni_mbuf_queue
    NB_RXD,               \* slots of the array in kni_recv
    PCI_NUM               \* port->pci_num: slaves of a bond

ASSUME MbufAssumption ==
    /\ QUEUE_NUM \in Nat \ {0} /\ PER_QUEUE \in Nat \ {0}
    /\ MBUF_FREE_POOL_SIZE \in Nat \ {0} /\ KNI_RING_SIZE \in Nat \ {0}
    /\ NB_RXD \in Nat \ {0} /\ PCI_NUM \in Nat \ {0}

Queues == 0 .. QUEUE_NUM - 1

\* An mbuf, named after the queue whose pool it comes from
Mbufs == Queues \X (1 .. PER_QUEUE)

Count(q, m) == Cardinality({i \in DOMAIN q : q[i] = m})

(* Where an mbuf can be.  A place whose order does not matter counts how   *)
(* often it holds each mbuf.                                               *)
Held == [Mbufs -> Nat]

Places ==
    [avail : Held,                    \* in the pool
     batch : [Queues -> Seq(Mbufs)],  \* g_mbuf_free_pool of each worker
     tx    : [Queues -> Held],        \* ws->tx_queue
     ring  : Seq(Mbufs),              \* port->kni_mbuf_queue
     fifo  : Held,                    \* with the kernel interface
     nic   : Held]                    \* given to the slaves of a bond

None == [m \in Mbufs |-> 0]

AllFree ==
    [avail |-> [m \in Mbufs |-> 1],
     batch |-> [w \in Queues |-> <<>>], tx |-> [w \in Queues |-> None],
     ring |-> <<>>, fifo |-> None, nic |-> None]

\* How often the places that workers share hold m, and how often a worker does
Shared(s, m) == s.avail[m] + s.fifo[m] + s.nic[m] + Count(s.ring, m)
Private(s, w, m) == s.tx[w][m] + Count(s.batch[w], m)
-----------------------------------------------------------------------------
FreeBulk(s, q) == [s EXCEPT !.avail = [m \in Mbufs |-> s.avail[m] + Count(q, m)]]

MbufFree(s, m) == [s EXCEPT !.avail[m] = @ + 1]

\* mbuf_free2: put into the worker's batch, which is freed when it is full
MbufFree2NoFlush(s, w, m) == [s EXCEPT !.batch[w] = Append(@, m)]

MbufFree2(s, w, m) ==
    LET b == Append(s.batch[w], m)
    IN  IF Len(b) >= MBUF_FREE_POOL_SIZE
        THEN FreeBulk([s EXCEPT !.batch[w] = <<>>], b)
        ELSE [s EXCEPT !.batch[w] = b]

\* mbuf_free2 for the mbufs of q in turn: the batch is freed whenever it is full, so
\* all full batches go back and the rest stays
MbufFree2All(s, w, q) ==
    LET b == s.batch[w] \o q
        k == Len(b) - (Len(b) % MBUF_FREE_POOL_SIZE)
    IN  FreeBulk([s EXCEPT !.batch[w] = SubSeq(b, k + 1, Len(b))], SubSeq(b, 1, k))

\* mbuf_free2_flush, when a worker closes its work space
MbufFree2Flush(s, w) == FreeBulk([s EXCEPT !.batch[w] = <<>>], s.batch[w])

\* work_space_alloc_mbuf takes from the pool of the worker's queue
CanAlloc(s, w) == \E i \in 1 .. PER_QUEUE : s.avail[<<w, i>>] > 0

NextMbuf(s, w) == CHOOSE m \in Mbufs : m[1] = w /\ s.avail[m] > 0

Take(s, m) == [s EXCEPT !.avail[m] = @ - 1]

TxSend(s, w, m) == [s EXCEPT !.tx[w][m] = @ + 1]

\* The first n mbufs of the pool of w, or all if it has fewer: what a loop gets that
\* allocates n times, or until there is none
Several(s, w, n) ==
    LET free == {m \in Mbufs : m[1] = w /\ s.avail[m] > 0}
    IN  {m \in free : Cardinality({x \in free : x[2] < m[2]}) < n}

\* A place of which d mbufs are added (taken) for each mbuf of M
Change(held, M, d) == [m \in Mbufs |-> IF m \in M THEN held[m] + d ELSE held[m]]
-----------------------------------------------------------------------------
(* kni_recv.  own is <<m>>, or <<>> for the call with NULL; taken says how *)
(* many mbufs the kernel interface accepts of those offered.               *)
KniRing(s, w, m, kni) ==
    IF kni /\ Len(s.ring) < KNI_RING_SIZE
    THEN [s EXCEPT !.ring = Append(@, m)]
    ELSE MbufFree2(s, w, m)

KniOfferAgain(s, own, kni, taken) ==
    LET cnt   == IF Len(s.ring) < NB_RXD - Len(own) THEN Len(s.ring) ELSE NB_RXD - Len(own)
        n     == Len(own) + cnt
        mbufs == own \o SubSeq(s.ring, 1, cnt)
        sent  == IF ~kni THEN 0 ELSE IF taken < n THEN taken ELSE n
        left  == [s EXCEPT !.ring = SubSeq(@, cnt + 1, Len(@)),
                           !.fifo = [m \in Mbufs |-> @[m] + Count(SubSeq(mbufs, 1, sent), m)]]
    IN  MbufFree2All(left, 0, mbufs)

KniOffer(s, own, kni, taken) ==
    LET cnt   == IF Len(s.ring) < NB_RXD - Len(own) THEN Len(s.ring) ELSE NB_RXD - Len(own)
        n     == Len(own) + cnt
        mbufs == own \o SubSeq(s.ring, 1, cnt)
        sent  == IF ~kni THEN 0 ELSE IF taken < n THEN taken ELSE n
        left  == [s EXCEPT !.ring = SubSeq(@, cnt + 1, Len(@)),
                           !.fifo = [m \in Mbufs |-> @[m] + Count(SubSeq(mbufs, 1, sent), m)]]
    IN  MbufFree2All(left, 0, SubSeq(mbufs, sent + 1, n))

KniRecv(s, w, own, kni, taken) ==
    IF w = 0 THEN KniOffer(s, own, kni, taken)
    ELSE IF own = <<>> THEN s
    ELSE KniRing(s, w, own[1], kni)

\* kni_broadcast: hand a copy to the kernel interface, if there is an mbuf for it
KniBroadcast(s, w, kni, taken) ==
    IF ~CanAlloc(s, w) THEN s
    ELSE LET m2 == NextMbuf(s, w) IN KniRecv(Take(s, m2), w, <<m2>>, kni, taken)

\* bond_broadcast: a copy to each slave, until the pool is empty; accepted is the
\* set of slaves whose transmit queue has room.  The copy for one that has none is
\* freed, and so is there for the next.
BondBroadcast(s, w, accepted) ==
    LET copies == Several(s, w, Cardinality(accepted))
    IN  [s EXCEPT !.avail = Change(@, copies, -1), !.nic = Change(@, copies, 1)]
=============================================================================
