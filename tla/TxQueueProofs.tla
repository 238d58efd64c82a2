--------------------------- MODULE TxQueueProofs ---------------------------
(***************************************************************************)
(* Proofs about the transmit queue, for every array size, burst size,      *)
(* number of tries and number of packets.                                  *)
(***************************************************************************)
EXTENDS TxQueue, FiniteSetTheorems, TLAPS

\* The packets in slots h .. t-1 of an array that holds consecutive numbers
\* there, the last one being c - 1, are the numbers c - (t - h) .. c - 1.
LEMMA MbufsAreInterval ==
    ASSUME NEW a, NEW h \in Nat, NEW t \in Nat, NEW c \in Nat,
           h <= t, t - h <= c,
           Consecutive(a, h, t, c),
           NEW k \in Nat, h <= k, k <= t
    PROVE  /\ \A x : x \in Mbufs(a, h, k) <=> x \in c - (t - h) .. c - (t - k) - 1
           /\ \A x : x \in Mbufs(a, k, t) <=> x \in c - (t - k) .. c - 1
<1>1. \A x \in c - (t - h) .. c - (t - k) - 1 :
          /\ x - c + t \in h .. k - 1
          /\ a[x - c + t] = x
  BY DEF Consecutive
<1>2. \A x \in c - (t - k) .. c - 1 :
          /\ x - c + t \in k .. t - 1
          /\ a[x - c + t] = x
  BY DEF Consecutive
<1>3. \A i \in h .. k - 1 : a[i] \in c - (t - h) .. c - (t - k) - 1
  BY DEF Consecutive
<1>4. \A i \in k .. t - 1 : a[i] \in c - (t - k) .. c - 1
  BY DEF Consecutive
<1> QED
  BY <1>1, <1>2, <1>3, <1>4 DEF Mbufs

\* What one flush does to a queue that satisfies the invariant just before it
\* (h, t and c are head, tail and count at that moment): the invariant holds
\* again, and what goes out is newer than everything on the wire.
LEMMA FlushKeepsInv ==
    ASSUME QueueInv,
           NEW a \in [Slots -> 0 .. MaxMbufs - 1 \cup {NoMbuf}],
           NEW h \in Nat, NEW t \in Nat, NEW c \in 0 .. MaxMbufs,
           h <= t, t <= TX_QUEUE_SIZE, t - h <= c, h < TX_QUEUE_SIZE,
           Consecutive(a, h, t, c),
           wire \cup freed = 0 .. c - (t - h) - 1,
           tx' = a, count' = c,
           Flush(a, h, t)
    PROVE  /\ QueueInv'
           /\ \A x \in wire' \ wire : \A y \in wire : y < x
<1>1. PICK n \in 0 .. Offer(h, t) :
         /\ wire' = wire \cup Mbufs(a, h, h + n)
         /\ freed' = freed \cup (IF t = TX_QUEUE_SIZE THEN Mbufs(a, h + n, t) ELSE {})
         /\ txDrop' = txDrop + (IF t = TX_QUEUE_SIZE THEN t - (h + n) ELSE 0)
         /\ head' = IF h + n = t \/ t = TX_QUEUE_SIZE THEN 0 ELSE h + n
         /\ tail' = IF h + n = t \/ t = TX_QUEUE_SIZE THEN 0 ELSE t
  BY DEF Flush
<1>2. /\ n \in Nat /\ h + n \in Nat /\ h <= h + n /\ h + n <= t /\ c \in Nat
  BY <1>1, TxQueueAssumption DEF Offer, Least
<1>3. /\ \A x : x \in Mbufs(a, h, h + n) <=> x \in c - (t - h) .. c - (t - (h + n)) - 1
      /\ \A x : x \in Mbufs(a, h + n, t) <=> x \in c - (t - (h + n)) .. c - 1
  <2>1. PICK k \in Nat : k = h + n
    BY <1>2
  <2>2. /\ \A x : x \in Mbufs(a, h, k) <=> x \in c - (t - h) .. c - (t - k) - 1
        /\ \A x : x \in Mbufs(a, k, t) <=> x \in c - (t - k) .. c - 1
    BY <1>2, <2>1, MbufsAreInterval
  <2> QED
    BY <2>1, <2>2
<1>4. \A y \in wire \cup freed : y \in Int /\ y < c - (t - h)
  OBVIOUS
<1>5. \A x \in wire' \ wire : \A y \in wire : y < x
  BY <1>1, <1>2, <1>3, <1>4
<1>6. TypeOK'
  <2>1. tail' \in Slots /\ head' \in Slots /\ head' <= tail'
    BY <1>1, <1>2, TxQueueAssumption DEF Slots
  <2>2. wire' \subseteq 0 .. c - 1 /\ freed' \subseteq 0 .. c - 1
    BY <1>1, <1>2, <1>3
  <2>3. txDrop' \in Nat
    BY <1>1, <1>2 DEF QueueInv, TypeOK
  <2> QED
    BY <2>1, <2>2, <2>3 DEF TypeOK
<1>7. wire' \cap freed' = {}
  BY <1>1, <1>2, <1>3, <1>4 DEF QueueInv
<1>8. CASE h + n = t \/ t = TX_QUEUE_SIZE
  <2>1. wire' \cup freed' = 0 .. c - 1
    BY <1>1, <1>2, <1>3, <1>8
  <2> QED
    BY <1>1, <1>5, <1>6, <1>7, <1>8, <2>1 DEF QueueInv, Consecutive
<1>9. CASE ~(h + n = t \/ t = TX_QUEUE_SIZE)
  <2>1. wire' \cup freed' = 0 .. c - (t - (h + n)) - 1
    BY <1>1, <1>2, <1>3, <1>9
  <2> QED
    BY <1>1, <1>2, <1>5, <1>6, <1>7, <1>9, <2>1 DEF QueueInv, Consecutive
<1> QED
  BY <1>8, <1>9

\* A new work space has an empty queue.
LEMMA InitQueueInv == Init => QueueInv
  BY TxQueueAssumption DEF Init, QueueInv, TypeOK, Slots, Consecutive

\* What work_space_tx_send has done when it reaches the test for a flush: the new
\* packet is in the array behind the others, and tail has moved past it.
LEMMA Stored ==
    ASSUME QueueInv, TxSend
    PROVE  \E a \in [Slots -> 0 .. MaxMbufs - 1 \cup {NoMbuf}], t \in Nat, c \in 0 .. MaxMbufs :
              /\ a = [tx EXCEPT ![tail] = count] /\ t = tail + 1 /\ c = count + 1
              /\ tx' = a /\ count' = c
              /\ head \in Nat /\ tail \in Nat /\ count \in Nat /\ c \in Nat
              /\ head <= tail /\ tail \in Slots
              /\ head <= t /\ t <= TX_QUEUE_SIZE /\ t - head <= c /\ head < TX_QUEUE_SIZE
              /\ Consecutive(a, head, t, c)
              /\ wire \cup freed = 0 .. c - (t - head) - 1
<1>1. /\ head \in Nat /\ tail \in Slots /\ head <= tail
      /\ tail \in Nat /\ tail + 1 <= TX_QUEUE_SIZE
      /\ count \in Nat /\ count \in 0 .. MaxMbufs - 1
  BY TxQueueAssumption DEF QueueInv, TypeOK, Slots, TxSend
<1>a. PICK a : a = [tx EXCEPT ![tail] = count]
  OBVIOUS
<1>b. PICK t \in Nat, c \in 0 .. MaxMbufs : t = tail + 1 /\ c = count + 1
  BY <1>1, TxQueueAssumption
<1>2. a \in [Slots -> 0 .. MaxMbufs - 1 \cup {NoMbuf}]
  BY <1>1, <1>a DEF QueueInv, TypeOK
<1>3. Consecutive(a, head, t, c)
  <2> SUFFICES ASSUME NEW i \in head .. t - 1 PROVE a[i] = c - (t - i)
    BY DEF Consecutive
  <2>1. i \in Int /\ head <= i /\ i <= tail /\ i \in Slots /\ count \in Int /\ tail \in Int
    BY <1>1, <1>b, TxQueueAssumption DEF Slots
  <2>2. CASE i = tail
    BY <1>1, <1>a, <1>b, <2>1, <2>2 DEF QueueInv, TypeOK
  <2>3. CASE i # tail
    <3>1. i \in head .. tail - 1 /\ a[i] = tx[i]
      BY <1>1, <1>a, <2>1, <2>3 DEF QueueInv, TypeOK
    <3>2. tx[i] = count - (tail - i)
      BY <3>1 DEF QueueInv, Consecutive
    <3> QED
      BY <1>b, <2>1, <3>1, <3>2
  <2> QED
    BY <2>2, <2>3
<1>4. /\ t - head <= c /\ head <= t /\ t <= TX_QUEUE_SIZE /\ head < TX_QUEUE_SIZE
      /\ wire \cup freed = 0 .. c - (t - head) - 1 /\ c \in Nat
  BY <1>1, <1>b, TxQueueAssumption DEF QueueInv
<1>5. tx' = a /\ count' = c
  BY <1>a, <1>b DEF TxSend
<1> QED
  BY <1>1, <1>a, <1>b, <1>2, <1>3, <1>4, <1>5

\* One step of the worker keeps the invariant and the wire in order.
LEMMA NextQueueInv ==
    QueueInv /\ [Next]_vars =>
        /\ QueueInv'
        /\ \A x \in wire' \ wire : \A y \in wire : y < x
<1> SUFFICES ASSUME QueueInv, [Next]_vars
             PROVE  /\ QueueInv'
                    /\ \A x \in wire' \ wire : \A y \in wire : y < x
  OBVIOUS
<1>1. CASE TxFlush
  <2>1. /\ head \in Nat /\ tail \in Nat /\ head < TX_QUEUE_SIZE
        /\ tail <= TX_QUEUE_SIZE
    BY TxQueueAssumption DEF QueueInv, TypeOK, Slots
  <2> QED
    BY <1>1, <2>1, FlushKeepsInv DEF TxFlush, QueueInv, TypeOK
<1>2. CASE TxSend
  <2>1. PICK a \in [Slots -> 0 .. MaxMbufs - 1 \cup {NoMbuf}], t \in Nat, c \in 0 .. MaxMbufs :
              /\ a = [tx EXCEPT ![tail] = count] /\ t = tail + 1 /\ c = count + 1
              /\ tx' = a /\ count' = c
              /\ head \in Nat /\ tail \in Nat /\ count \in Nat /\ c \in Nat
              /\ head <= tail /\ tail \in Slots
              /\ head <= t /\ t <= TX_QUEUE_SIZE /\ t - head <= c /\ head < TX_QUEUE_SIZE
              /\ Consecutive(a, head, t, c)
              /\ wire \cup freed = 0 .. c - (t - head) - 1
    BY <1>2, Stored
  <2>7. CASE (tail + 1) - head >= TX_BURST \/ tail + 1 = TX_QUEUE_SIZE
    <3>1. Flush(a, head, t)
      BY <1>2, <2>1, <2>7 DEF TxSend
    <3> QED
      BY <2>1, <3>1, FlushKeepsInv
  <2>8. CASE ~((tail + 1) - head >= TX_BURST \/ tail + 1 = TX_QUEUE_SIZE)
    <3>1. tail' = t /\ UNCHANGED <<head, wire, freed, txDrop>>
      BY <1>2, <2>1, <2>8 DEF TxSend
    <3>2. TypeOK'
      BY <2>1, <2>8, <3>1, TxQueueAssumption DEF QueueInv, TypeOK, Slots
    <3>3. Consecutive(tx, head, tail, count)'
      BY <2>1, <3>1
    <3> QED
      BY <2>1, <3>1, <3>2, <3>3 DEF QueueInv
  <2> QED
    BY <2>7, <2>8
<1>3. CASE UNCHANGED vars
  BY <1>3 DEF vars, QueueInv, TypeOK
<1> QED
  BY <1>1, <1>2, <1>3 DEF Next

\* tx_drop grows by the number of mbufs that a flush of a full array leaves behind:
\* the slots it frees hold different packets, none of which was freed before.
LEMMA FlushCounts ==
    ASSUME QueueInv, DropsCounted,
           NEW a, NEW h \in Nat, NEW t \in Nat, NEW c \in Nat,
           h <= t, t - h <= c, Consecutive(a, h, t, c),
           wire \cup freed = 0 .. c - (t - h) - 1,
           Flush(a, h, t)
    PROVE  DropsCounted'
<1>1. PICK n \in 0 .. Offer(h, t) :
         /\ freed' = freed \cup (IF t = TX_QUEUE_SIZE THEN Mbufs(a, h + n, t) ELSE {})
         /\ txDrop' = txDrop + (IF t = TX_QUEUE_SIZE THEN t - (h + n) ELSE 0)
  BY DEF Flush
<1>2. PICK k \in Nat : k = h + n /\ h <= k /\ k <= t
  BY <1>1, TxQueueAssumption DEF Offer, Least
<1>3. Mbufs(a, k, t) = c - (t - k) .. c - 1
  <2>1. \A x : x \in Mbufs(a, k, t) <=> x \in c - (t - k) .. c - 1
    BY <1>2, MbufsAreInterval
  <2> QED
    BY <2>1
<1>4. IsFiniteSet(freed) /\ Cardinality(freed) \in Nat
  <2>1. IsFiniteSet(0 .. count - 1) /\ freed \subseteq 0 .. count - 1
    BY FS_Interval DEF QueueInv, TypeOK
  <2>2. IsFiniteSet(freed)
    BY <2>1, FS_Subset
  <2> QED
    BY <2>2, FS_CardinalityType
<1>5. CASE t = TX_QUEUE_SIZE
  <2>1. freed \cap (c - (t - k) .. c - 1) = {}
    BY <1>2
  <2>2. c - (t - k) \in Int /\ c - 1 \in Int
    BY <1>2
  <2>3. IsFiniteSet(c - (t - k) .. c - 1)
        /\ Cardinality(c - (t - k) .. c - 1) = IF c - (t - k) > c - 1 THEN 0
                                               ELSE c - 1 - (c - (t - k)) + 1
    BY <2>2, FS_Interval
  <2>4. Cardinality(c - (t - k) .. c - 1) = t - k
    BY <1>2, <2>3
  <2>5. Cardinality(freed \cap (c - (t - k) .. c - 1)) = 0
    BY <2>1, FS_EmptySet
  <2>6. Cardinality(freed \cup (c - (t - k) .. c - 1)) = Cardinality(freed) + (t - k)
    <3>1. PICK R : R = c - (t - k) .. c - 1
      OBVIOUS
    <3>2. Cardinality(freed \cup R) = Cardinality(freed) + Cardinality(R) - Cardinality(freed \cap R)
      BY <1>4, <2>3, <3>1, FS_Union
    <3>3. Cardinality(R) = t - k /\ Cardinality(freed \cap R) = 0
      BY <2>4, <2>5, <3>1
    <3>4. Cardinality(freed \cup R) = Cardinality(freed) + (t - k)
      BY <1>2, <1>4, <3>2, <3>3
    <3> QED
      BY <3>1, <3>4
  <2> QED
    BY <1>1, <1>2, <1>3, <1>5, <2>6 DEF DropsCounted
<1>6. CASE t # TX_QUEUE_SIZE
  BY <1>1, <1>4, <1>6 DEF DropsCounted
<1> QED
  BY <1>5, <1>6

\* At every step the slots between head and tail hold the packets sent last, in
\* order, and every earlier packet has left by exactly one exit.
THEOREM QueueInvariant == Spec => []QueueInv
  BY InitQueueInv, NextQueueInv, PTL DEF Spec

\* Each mbuf handed to work_space_tx_send is owned by exactly one of the queue,
\* the NIC and its pool, and work_space_tx_send never writes past the array.
THEOREM MbufsHaveOneOwner == Spec => [](TypeOK /\ SingleOwner)
<1>1. QueueInv => TypeOK /\ SingleOwner
  <2> SUFFICES ASSUME QueueInv PROVE TypeOK /\ SingleOwner
    OBVIOUS
  <2>1. head \in Nat /\ tail \in Nat /\ count \in Nat /\ head <= tail
    BY DEF QueueInv, TypeOK, Slots
  <2>2. Queued = Mbufs(tx, head, tail)
    BY DEF Queued, Mbufs
  <2>3. \A x : x \in Mbufs(tx, head, tail) <=> x \in count - (tail - head) .. count - 1
    <3>1. head <= head
      BY <2>1
    <3> QED
      BY <2>1, <3>1, MbufsAreInterval DEF QueueInv
  <2> QED
    BY <2>1, <2>2, <2>3 DEF QueueInv, SingleOwner
<1> QED
  BY <1>1, QueueInvariant, PTL

\* The NIC is given the packets in the order the stack sent them.
THEOREM WireIsFifo == Spec => WireInOrder
<1>1. QueueInv /\ [Next]_vars => [NewestLast]_vars
  BY NextQueueInv DEF NewestLast
<1> QED
  BY <1>1, QueueInvariant, PTL DEF Spec, WireInOrder

\* net_stats' tx_drop is exact: it counts every mbuf that was freed unsent, once.
THEOREM DropsAreCounted == Spec => []DropsCounted
<1>1. Init => DropsCounted
  BY FS_EmptySet DEF Init, DropsCounted
<1>2. QueueInv /\ DropsCounted /\ [Next]_vars => DropsCounted'
  <2> SUFFICES ASSUME QueueInv, DropsCounted, [Next]_vars PROVE DropsCounted'
    OBVIOUS
  <2>1. CASE TxFlush
    <3>1. head \in Nat /\ tail \in Nat /\ count \in Nat
      BY DEF QueueInv, TypeOK, Slots
    <3> QED
      BY <2>1, <3>1, FlushCounts DEF TxFlush, QueueInv, TypeOK
  <2>2. CASE TxSend
    <3>1. PICK a \in {tx'}, t \in Nat, c \in Nat :
              /\ tx' = a /\ t = tail + 1 /\ head \in Nat /\ head <= t /\ t - head <= c
              /\ Consecutive(a, head, t, c)
              /\ wire \cup freed = 0 .. c - (t - head) - 1
      BY <2>2, Stored
    <3>2. CASE (tail + 1) - head >= TX_BURST \/ tail + 1 = TX_QUEUE_SIZE
      <4>1. Flush(a, head, t)
        BY <2>2, <3>1, <3>2 DEF TxSend
      <4> QED
        BY <3>1, <4>1, FlushCounts
    <3>3. CASE ~((tail + 1) - head >= TX_BURST \/ tail + 1 = TX_QUEUE_SIZE)
      BY <2>2, <3>3 DEF TxSend, DropsCounted
    <3> QED
      BY <3>2, <3>3
  <2>3. CASE UNCHANGED vars
    BY <2>3 DEF vars, DropsCounted
  <2> QED
    BY <2>1, <2>2, <2>3 DEF Next
<1> QED
  BY <1>1, <1>2, QueueInvariant, PTL DEF Spec

-----------------------------------------------------------------------------
(***************************************************************************)
(* The refinement of the FIFO.  A flush of the slots h .. t-1 is the Exit  *)
(* of the abstract queue from the sequence those slots hold.               *)
(***************************************************************************)
Slice(a, h, t) == [i \in 1 .. t - h |-> a[h + i - 1]]

\* The sequence in the slots h .. t-1: its length, its elements, and its parts on
\* either side of a slot between them.
LEMMA SliceFacts ==
    ASSUME NEW a, NEW h \in Nat, NEW t \in Nat, h <= t, NEW n \in 0 .. t - h
    PROVE  /\ Len(Slice(a, h, t)) = t - h
           /\ SubSeq(Slice(a, h, t), 1, n) = Slice(a, h, h + n)
           /\ SubSeq(Slice(a, h, t), n + 1, t - h) = Slice(a, h + n, t)
           /\ Fifo!Elems(Slice(a, h, t)) = Mbufs(a, h, t)
<1>1. t - h \in Nat /\ n \in Nat /\ n <= t - h
  OBVIOUS
<1>2. /\ Slice(a, h, t) \in Seq({a[i] : i \in h .. t - 1})
      /\ Len(Slice(a, h, t)) = t - h
  BY <1>1 DEF Slice
<1>3. SubSeq(Slice(a, h, t), 1, n) = Slice(a, h, h + n)
  BY <1>1, <1>2 DEF Slice
<1>4. SubSeq(Slice(a, h, t), n + 1, t - h) = Slice(a, h + n, t)
  BY <1>1, <1>2 DEF Slice
<1>5. Fifo!Elems(Slice(a, h, t)) = Mbufs(a, h, t)
  <2>1. \A i \in 1 .. t - h : h + i - 1 \in h .. t - 1 /\ Slice(a, h, t)[i] = a[h + i - 1]
    BY <1>1 DEF Slice
  <2>2. \A j \in h .. t - 1 : /\ j - h + 1 \in 1 .. t - h
                              /\ Slice(a, h, t)[j - h + 1] = a[j]
    BY <1>1 DEF Slice
  <2>3. Fifo!Elems(Slice(a, h, t)) = {Slice(a, h, t)[i] : i \in 1 .. t - h}
    BY <1>2 DEF Fifo!Elems
  <2> QED
    BY <2>1, <2>2, <2>3 DEF Mbufs
<1> QED
  BY <1>2, <1>3, <1>4, <1>5

(***************************************************************************)
(* A slice cut at its beginning: nothing before the cut, all of it after.  *)
(* This is the queue after a flush that handed the device no packet.       *)
(***************************************************************************)
LEMMA SliceWhole ==
    ASSUME NEW a, NEW h \in Nat, NEW t \in Nat, h <= t
    PROVE  /\ Len(Slice(a, h, t)) \in Nat
           /\ SubSeq(Slice(a, h, t), 0 + 1, Len(Slice(a, h, t))) = Slice(a, h, t)
           /\ SubSeq(Slice(a, h, t), 1, 0) = << >>
<1>1. PICK n \in 0 .. t - h : n = 0
  OBVIOUS
<1>2. /\ Len(Slice(a, h, t)) = t - h
      /\ SubSeq(Slice(a, h, t), 1, n) = Slice(a, h, h + n)
      /\ SubSeq(Slice(a, h, t), n + 1, t - h) = Slice(a, h + n, t)
  BY SliceFacts, ZenonT(60)
<1>3. Slice(a, h, h) = << >>
  BY DEF Slice
<1> QED
  BY <1>1, <1>2, <1>3

\* One flush is one Exit of the FIFO.
LEMMA FlushIsExit ==
    ASSUME NEW a, NEW h \in Nat, NEW t \in Nat, h <= t, tx' = a, Flush(a, h, t)
    PROVE  Fifo!Exit(Slice(a, h, t))
<1>1. PICK n \in 0 .. Offer(h, t) :
         /\ wire' = wire \cup Mbufs(a, h, h + n)
         /\ freed' = freed \cup (IF t = TX_QUEUE_SIZE THEN Mbufs(a, h + n, t) ELSE {})
         /\ head' = IF h + n = t \/ t = TX_QUEUE_SIZE THEN 0 ELSE h + n
         /\ tail' = IF h + n = t \/ t = TX_QUEUE_SIZE THEN 0 ELSE t
  BY DEF Flush
<1>2. PICK k \in Nat : k = h + n /\ h <= k /\ k <= t /\ k - h = n /\ n \in 0 .. t - h
  BY <1>1, TxQueueAssumption DEF Offer, Least
<1>3. /\ Len(Slice(a, h, t)) = t - h
      /\ SubSeq(Slice(a, h, t), 1, n) = Slice(a, h, k)
      /\ SubSeq(Slice(a, h, t), n + 1, Len(Slice(a, h, t))) = Slice(a, k, t)
  <2>1. n \in 0 .. t - h
    BY <1>2
  <2>2. Len(Slice(a, h, t)) = t - h
    BY <2>1, SliceFacts, Zenon
  <2>3. SubSeq(Slice(a, h, t), 1, n) = Slice(a, h, h + n)
    BY <2>1, SliceFacts, Zenon
  <2>4. SubSeq(Slice(a, h, t), n + 1, t - h) = Slice(a, h + n, t)
    BY <2>1, SliceFacts, ZenonT(60)
  <2> QED
    BY <1>2, <2>2, <2>3, <2>4
<1>4. Fifo!Elems(Slice(a, h, k)) = Mbufs(a, h, k) /\ Fifo!Elems(Slice(a, k, t)) = Mbufs(a, k, t)
  <2>1. 0 \in 0 .. k - h /\ 0 \in 0 .. t - k
    BY <1>2
  <2> QED
    BY <1>2, <2>1, SliceFacts
<1>5. Backlog' = Slice(a, head', tail')
  BY DEF Backlog, Slice
<1>6. CASE t = TX_QUEUE_SIZE
  <2>1. Backlog' = << >>
    BY <1>1, <1>5, <1>6 DEF Slice
  <2>2. freed' = freed \cup Mbufs(a, k, t)
    BY <1>1, <1>2, <1>6
  <2> QED
    BY <1>1, <1>2, <1>3, <1>4, <2>1, <2>2 DEF Fifo!Exit
<1>7. CASE t # TX_QUEUE_SIZE
  <2>1. freed' = freed
    BY <1>1, <1>7
  <2>2. Backlog' = Slice(a, k, t)
    <3>1. CASE k = t
      BY <1>1, <1>2, <1>5, <3>1 DEF Slice
    <3>2. CASE k # t
      BY <1>1, <1>2, <1>5, <1>7, <3>2
    <3> QED
      BY <3>1, <3>2
  <2> QED
    BY <1>1, <1>2, <1>3, <1>4, <2>1, <2>2 DEF Fifo!Exit
<1> QED
  BY <1>6, <1>7

\* The array that has just taken packet `count' holds the old backlog and that
\* packet behind it.
LEMMA StoreAppends ==
    ASSUME QueueInv, TxSend
    PROVE  Slice(tx', head, tail + 1) = Append(Backlog, count)
<1>1. /\ tx \in [Slots -> 0 .. MaxMbufs - 1 \cup {NoMbuf}] /\ tail \in Slots
      /\ head \in Nat /\ tail \in Nat /\ head <= tail /\ \A i \in head .. tail : i \in Slots
  BY TxQueueAssumption DEF QueueInv, TypeOK, Slots
<1>2. tx' = [tx EXCEPT ![tail] = count]
  BY DEF TxSend
<1>3. /\ tx'[tail] = count
      /\ \A i \in 1 .. tail - head : tx'[head + i - 1] = tx[head + i - 1]
  BY <1>1, <1>2
<1>4. /\ Backlog \in Seq(Int) /\ Len(Backlog) = tail - head
      /\ \A i \in 1 .. tail - head : Backlog[i] = tx[head + i - 1]
  BY <1>1 DEF Backlog, NoMbuf
<1>5. PICK r : r = Slice(tx', head, tail + 1)
  OBVIOUS
<1>6. r \in Seq(Int) /\ Len(r) = tail - head + 1 /\ count \in Int
  <2>1. \A i \in 1 .. (tail + 1) - head : tx'[head + i - 1] \in Int
    BY <1>1, <1>2 DEF QueueInv, TypeOK, NoMbuf
  <2>2. (tail + 1) - head = tail - head + 1 /\ (tail + 1) - head \in Nat
    BY <1>1
  <2>3. r = [i \in 1 .. (tail + 1) - head |-> tx'[head + i - 1]]
    BY <1>5 DEF Slice
  <2>4. r \in Seq(Int) /\ Len(r) = (tail + 1) - head
    BY <2>1, <2>2, <2>3
  <2> QED
    BY <2>2, <2>4 DEF QueueInv, TypeOK
<1>7. \A i \in 1 .. tail - head + 1 : r[i] = tx'[head + i - 1]
  BY <1>1, <1>5 DEF Slice
<1>8. r[tail - head + 1] = count
  <2>1. head + (tail - head + 1) - 1 = tail /\ tail - head + 1 \in 1 .. tail - head + 1
    BY <1>1
  <2> QED
    BY <1>3, <1>7, <2>1
<1>9. \A i \in 1 .. tail - head : r[i] = Backlog[i]
  BY <1>1, <1>3, <1>4, <1>7
<1>10. \A s, u \in Seq(Int), e \in Int :
          /\ Len(u) = Len(s) + 1 /\ u[Len(s) + 1] = e
          /\ \A i \in 1 .. Len(s) : u[i] = s[i]
          => u = Append(s, e)
  OBVIOUS
<1>11. r = Append(Backlog, count)
  BY <1>4, <1>6, <1>8, <1>9, <1>10
<1> QED
  BY <1>5, <1>11

\* The array with its head and tail implements the abstract FIFO: a call appends at
\* most one packet, the NIC takes a prefix, and a drop takes all of the rest.
THEOREM QueueIsFifo == Spec => ImplementsFifo
<1>1. Init => Fifo!FifoInit
  <2> SUFFICES ASSUME Init PROVE Fifo!FifoInit
    OBVIOUS
  <2>1. Backlog = << >>
    BY DEF Init, Backlog
  <2> QED
    BY <2>1 DEF Init, Fifo!FifoInit
<1>2. QueueInv /\ [Next]_vars => [Fifo!FifoNext]_(Fifo!fvars)
  <2> SUFFICES ASSUME QueueInv, [Next]_vars PROVE [Fifo!FifoNext]_(Fifo!fvars)
    OBVIOUS
  <2>t. head \in Nat /\ tail \in Nat /\ head <= tail /\ tail + 1 \in Nat /\ head <= tail + 1
    BY DEF QueueInv, TypeOK, Slots
  <2>1. CASE TxFlush
    <3>1. tx' = tx /\ count' = count /\ Flush(tx, head, tail)
      BY <2>1 DEF TxFlush
    <3>2. Fifo!Exit(Backlog)
      <4>1. Backlog = Slice(tx, head, tail)
        BY DEF Backlog, Slice
      <4> QED
        BY <2>t, <3>1, <4>1, FlushIsExit
    <3> QED
      BY <3>1, <3>2 DEF Fifo!FifoNext, Fifo!Take
  <2>2. CASE TxSend
    <3>1. count' = count + 1 /\ Slice(tx', head, tail + 1) = Append(Backlog, count)
      BY <2>2, StoreAppends DEF TxSend
    <3>2. CASE (tail + 1) - head >= TX_BURST \/ tail + 1 = TX_QUEUE_SIZE
      <4>1. PICK a : a = tx'
        OBVIOUS
      <4>2. Flush(a, head, tail + 1)
        BY <2>2, <3>2, <4>1 DEF TxSend
      <4>3. Fifo!Exit(Slice(a, head, tail + 1))
        BY <2>t, <4>1, <4>2, FlushIsExit
      <4> QED
        BY <3>1, <4>1, <4>3 DEF Fifo!FifoNext, Fifo!Put
    <3>3. CASE ~((tail + 1) - head >= TX_BURST \/ tail + 1 = TX_QUEUE_SIZE)
      <4>1. tail' = tail + 1 /\ UNCHANGED <<head, wire, freed>>
        BY <2>2, <3>3 DEF TxSend
      <4>2. Backlog' = Append(Backlog, count)
        BY <3>1, <4>1 DEF Backlog, Slice
      <4>3. Fifo!Exit(Append(Backlog, count))
        <5>1. PICK s : s = Append(Backlog, count)
          OBVIOUS
        <5>2. Len(s) \in Nat /\ SubSeq(s, 0 + 1, Len(s)) = s /\ SubSeq(s, 1, 0) = << >>
          <6>1. PICK a \in {tx'}, t \in Nat, h \in Nat : t = tail + 1 /\ h = head
            BY <2>t
          <6>2. h <= t
            BY <2>t, <6>1
          <6>3. s = Slice(a, h, t)
            BY <3>1, <5>1, <6>1
          <6>4. /\ Len(Slice(a, h, t)) \in Nat
                /\ SubSeq(Slice(a, h, t), 0 + 1, Len(Slice(a, h, t))) = Slice(a, h, t)
                /\ SubSeq(Slice(a, h, t), 1, 0) = << >>
            BY ONLY <6>2, SliceWhole
          <6> QED
            BY <6>3, <6>4
        <5>3. Fifo!Elems(<< >>) = {}
          BY DEF Fifo!Elems
        <5>4. /\ 0 \in 0 .. Len(s) /\ wire' = wire \cup Fifo!Elems(SubSeq(s, 1, 0))
              /\ Backlog' = SubSeq(s, 0 + 1, Len(s)) /\ freed' = freed
          <6>1. 0 \in 0 .. Len(s)
            BY <5>2
          <6>2. wire' = wire \cup Fifo!Elems(SubSeq(s, 1, 0))
            BY <4>1, <5>2, <5>3
          <6>3. Backlog' = SubSeq(s, 0 + 1, Len(s))
            BY <4>2, <5>1, <5>2
          <6> QED
            BY <4>1, <6>1, <6>2, <6>3
        <5> QED
          BY <5>1, <5>4 DEF Fifo!Exit
      <4> QED
        BY <3>1, <4>3 DEF Fifo!FifoNext, Fifo!Put
    <3> QED
      BY <3>2, <3>3
  <2>3. CASE UNCHANGED vars
    BY <2>3 DEF vars, Fifo!fvars, Backlog
  <2> QED
    BY <2>1, <2>2, <2>3 DEF Next
<1> QED
  BY <1>1, <1>2, QueueInvariant, PTL DEF Spec, ImplementsFifo, Fifo!Spec
=============================================================================
