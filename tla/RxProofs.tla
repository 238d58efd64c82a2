------------------------------ MODULE RxProofs ------------------------------
(***************************************************************************)
(* For every number of workers and whatever they receive: templates get    *)
(* the gateway's address in all work spaces, an update never meets a work  *)
(* space that has been freed, and an mbuf always has exactly one owner.    *)
(***************************************************************************)
EXTENDS Rx, FiniteSetTheorems, SequenceTheorems, TLAPS

UpdType == [at : -2 .. QUEUE_NUM, mac : {0} \cup Macs, m : Mbufs \cup {NO_MBUF}]

GwTypes ==
    /\ phase \in [Queues -> {"neigh", "run", "closed", "dead"}]
    /\ gwmac \in {0} \cup Macs
    /\ dmac \in [Queues -> {0} \cup Macs]
    /\ upd \in [Queues -> UpdType]
    /\ exit \in BOOLEAN

(* A worker that updates is still looking for the gateway.                 *)
Updating ==
    \A w \in Queues : Busy(w) => phase[w] = "neigh" /\ upd[w].at # -2 /\ upd[w].mac # 0

(* Work spaces are freed only after exit, which waits for all workers.     *)
Closing ==
    /\ exit => \A w \in Queues : phase[w] # "neigh"
    /\ \A w \in Queues : phase[w] = "closed" => exit

Started == \A w \in Queues : phase[w] \in {"run", "closed"} => gwmac # 0

(* A template without address is ahead of some update.                     *)
Pending ==
    gwmac # 0 =>
      \A w \in Queues : dmac[w] = 0 => \E v \in Queues : Busy(v) /\ upd[v].at \in 0 .. w

GwInv == GwTypes /\ Updating /\ Closing /\ Started /\ Pending

(* The invariant holds when lcore_main enters neigh_check_gateway: no      *)
(* address is known and no update is under way.                            *)
LEMMA InitGwInv == Init => GwInv
  <1> SUFFICES ASSUME Init PROVE GwInv
    OBVIOUS
  <1>0. QUEUE_NUM \in Nat \ {0}
    BY MbufAssumption
  <1>1. NoUpdate \in UpdType
    BY <1>0 DEF NoUpdate, UpdType
  <1>2. GwTypes
    BY <1>1, RxAssumption DEF Init, GwTypes, ConfType
  <1>3. Updating /\ Closing /\ Started /\ Pending
    BY DEF Init, Updating, Busy, Closing, Started, Pending
  <1> QED
    BY <1>2, <1>3 DEF GwInv

(* The mbuf of a received frame is one of the port's.                      *)
LEMMA NextMbufIsMbuf ==
    ASSUME NEW s, NEW w \in Queues, CanAlloc(s, w)
    PROVE  NextMbuf(s, w) \in Mbufs
  <1>1. PICK i \in 1 .. PER_QUEUE : s.avail[<<w, i>>] > 0
    BY DEF CanAlloc
  <1>2. /\ <<w, i>> \in Mbufs
        /\ <<w, i>>[1] = w
    BY DEF Mbufs
  <1>3. \E m \in Mbufs : m[1] = w /\ s.avail[m] > 0
    BY <1>1, <1>2
  <1> QED
    BY <1>3 DEF NextMbuf

(* A received answer starts an update (arp_process_reply and               *)
(* icmp6_na_process calling work_space_update_gw).                         *)
LEMMA RecvGatewayStep ==
    ASSUME GwInv, NEW w \in Queues, NEW f \in Frames, RecvGateway(w, f)
    PROVE  GwInv'
  <1> USE DEF GwInv
  <1>0. QUEUE_NUM \in Nat \ {0}
    BY MbufAssumption
  <1> DEFINE u == [at |-> -1, mac |-> f.mac, m |-> NextMbuf(mem, w)]
  <1>1. f.mac \in Macs
    BY RxAssumption DEF FrameType
  <1>2. NextMbuf(mem, w) \in Mbufs
    BY NextMbufIsMbuf DEF RecvGateway, Receives
  <1>3. u \in UpdType
    BY <1>0, <1>1, <1>2 DEF UpdType
  <1>4. /\ upd' = [upd EXCEPT ![w] = u]
        /\ UNCHANGED <<phase, gwmac, dmac, exit>>
        /\ gwmac = 0
        /\ phase[w] \in {"neigh", "run"}
    BY DEF RecvGateway, Learns, Receives
  <1>5. phase[w] = "neigh"
    BY <1>4 DEF Started
  <1> HIDE DEF u
  <1>6. GwTypes'
    BY <1>3, <1>4 DEF GwTypes
  <1>7. u.at = -1 /\ u.mac # 0
    BY <1>1, RxAssumption DEF u
  <1>8. Updating'
    <2> SUFFICES ASSUME NEW v \in Queues, Busy(v)'
                 PROVE  phase[v]' = "neigh" /\ upd[v].at' # -2 /\ upd[v].mac' # 0
      BY DEF Updating
    <2>1. CASE v = w
      BY <2>1, <1>4, <1>5, <1>7 DEF GwTypes
    <2>2. CASE v # w
      BY <2>2, <1>4 DEF GwTypes, Updating, Busy
    <2> QED
      BY <2>1, <2>2
  <1>9. Closing' /\ Started' /\ Pending'
    BY <1>4 DEF Closing, Started, Pending
  <1> QED
    BY <1>6, <1>8, <1>9

(* work_space_update_gw writes the port: every template is ahead of it.    *)
LEMMA UpdatePortStep ==
    ASSUME GwInv, NEW w \in Queues, UpdatePort(w)
    PROVE  GwInv'
  <1> USE DEF GwInv
  <1>0. QUEUE_NUM \in Nat \ {0}
    BY MbufAssumption
  <1>1. /\ upd[w] # NoUpdate /\ upd[w].at = -1 /\ upd[w].mac # 0
        /\ gwmac' = upd[w].mac
        /\ upd' = [upd EXCEPT ![w].at = 0]
        /\ UNCHANGED <<phase, dmac, exit>>
    BY DEF UpdatePort, Updating, Busy
  <1>2. /\ upd[w].mac \in Macs
        /\ GwTypes'
    BY <1>0, <1>1 DEF GwTypes, UpdType
  <1>3. /\ upd'[w].at = 0 /\ upd'[w].mac = upd[w].mac
        /\ \A v \in Queues : v # w => upd'[v] = upd[v]
    BY <1>1 DEF GwTypes, UpdType
  <1>4. upd'[w] # NoUpdate
    BY <1>3 DEF NoUpdate
  <1>5. Updating'
    BY <1>1, <1>3 DEF Updating, Busy
  <1>6. Closing' /\ Started'
    BY <1>1 DEF Closing, Started
  <1>7. Pending'
    BY <1>0, <1>3, <1>4 DEF Pending, Busy, Queues
  <1> QED
    BY <1>2, <1>5, <1>6, <1>7

(* ... then one template after the other.                                  *)
LEMMA UpdateWorkerStep ==
    ASSUME GwInv, NEW w \in Queues, UpdateWorker(w)
    PROVE  GwInv'
  <1> USE DEF GwInv
  <1>0. QUEUE_NUM \in Nat \ {0}
    BY MbufAssumption
  <1>1. /\ upd[w] # NoUpdate /\ upd[w].at \in Queues /\ upd[w].mac # 0
        /\ dmac' = [dmac EXCEPT ![upd[w].at] = upd[w].mac]
        /\ upd' = [upd EXCEPT ![w].at = upd[w].at + 1]
        /\ UNCHANGED <<phase, gwmac, exit>>
    BY DEF UpdateWorker, Updating, Busy
  <1>2. GwTypes'
    <2>1. /\ upd[w] \in UpdType /\ upd[w].mac \in {0} \cup Macs
          /\ upd[w].at + 1 \in -2 .. QUEUE_NUM
      BY <1>0, <1>1 DEF GwTypes, UpdType, Queues
    <2>2. [upd[w] EXCEPT !.at = upd[w].at + 1] \in UpdType
      BY <2>1 DEF UpdType
    <2>3. upd' \in [Queues -> UpdType]
      BY <1>1, <2>2 DEF GwTypes
    <2> QED
      BY <1>1, <2>1, <2>3 DEF GwTypes
  <1>3. /\ upd'[w].at = upd[w].at + 1 /\ upd'[w].mac = upd[w].mac
        /\ \A v \in Queues : v # w => upd'[v] = upd[v]
    BY <1>1 DEF GwTypes, UpdType
  <1>4. upd'[w] # NoUpdate
    BY <1>0, <1>1, <1>3 DEF NoUpdate, Queues
  <1>5. Updating'
    BY <1>0, <1>1, <1>3 DEF Updating, Busy, Queues
  <1>6. Closing' /\ Started'
    BY <1>1 DEF Closing, Started
  <1>7. Pending'
    <2> SUFFICES ASSUME gwmac' # 0, NEW x \in Queues, dmac'[x] = 0
                 PROVE  \E v \in Queues : Busy(v)' /\ upd'[v].at \in 0 .. x
      BY DEF Pending
    <2>1. x # upd[w].at /\ dmac[x] = 0
      BY <1>1 DEF GwTypes
    <2>2. PICK v \in Queues : Busy(v) /\ upd[v].at \in 0 .. x
      BY <1>1, <2>1 DEF Pending
    <2>3. CASE v = w
      <3>1. upd'[w].at \in 0 .. x
        BY <2>1, <2>2, <2>3, <1>3, <1>0 DEF Queues
      <3> QED
        BY <3>1, <1>4 DEF Busy
    <2>4. CASE v # w
      BY <2>2, <2>4, <1>3 DEF Busy
    <2> QED
      BY <2>3, <2>4
  <1> QED
    BY <1>2, <1>5, <1>6, <1>7

(* An update that is at its end is ahead of nothing.                       *)
LEMMA UpdateEndStep ==
    ASSUME GwInv, NEW w \in Queues, UpdateEnd(w)
    PROVE  GwInv'
  <1> USE DEF GwInv
  <1>0. QUEUE_NUM \in Nat \ {0}
    BY MbufAssumption
  <1>1. /\ upd[w].at = QUEUE_NUM
        /\ upd' = [upd EXCEPT ![w] = NoUpdate]
        /\ UNCHANGED <<phase, gwmac, dmac, exit>>
    BY DEF UpdateEnd
  <1>2. NoUpdate \in UpdType
    BY <1>0 DEF NoUpdate, UpdType
  <1>3. GwTypes'
    BY <1>1, <1>2 DEF GwTypes
  <1>4. /\ upd'[w] = NoUpdate
        /\ \A v \in Queues : v # w => upd'[v] = upd[v]
    BY <1>1 DEF GwTypes
  <1>5. Updating'
    BY <1>1, <1>4 DEF Updating, Busy
  <1>6. Closing' /\ Started'
    BY <1>1 DEF Closing, Started
  <1>7. Pending'
    <2> SUFFICES ASSUME gwmac' # 0, NEW x \in Queues, dmac'[x] = 0
                 PROVE  \E v \in Queues : Busy(v)' /\ upd'[v].at \in 0 .. x
      BY DEF Pending
    <2>1. PICK v \in Queues : Busy(v) /\ upd[v].at \in 0 .. x
      BY <1>1 DEF Pending
    <2>2. v # w
      BY <2>1, <1>1, <1>0 DEF Queues
    <2> QED
      BY <2>1, <2>2, <1>4 DEF Busy
  <1> QED
    BY <1>3, <1>5, <1>6, <1>7

(* The steps of lcore_main and of the control thread.                      *)
LEMMA PhaseStep ==
    ASSUME GwInv, NEW w \in Queues,
           NeighFound(w) \/ NeighPoll(w) \/ Close(w) \/ ExitAll
    PROVE  GwInv'
  <1> USE DEF GwInv
  <1>1. CASE NeighFound(w)
    <2>1. /\ phase' = [phase EXCEPT ![w] = "run"] /\ phase[w] = "neigh" /\ gwmac # 0
          /\ ~Busy(w)
          /\ UNCHANGED <<gwmac, dmac, upd, exit>>
      BY <1>1 DEF NeighFound
    <2> QED
      BY <2>1 DEF GwTypes, Updating, Busy, Closing, Started, Pending
  <1>2. CASE NeighPoll(w)
    <2>1. /\ phase' = [phase EXCEPT ![w] = "dead"] \/ phase' = phase
          /\ ~Busy(w) /\ phase[w] = "neigh"
          /\ UNCHANGED <<gwmac, dmac, upd, exit>>
      BY <1>2 DEF NeighPoll
    <2> QED
      BY <2>1 DEF GwTypes, Updating, Busy, Closing, Started, Pending
  <1>3. CASE Close(w)
    <2>1. /\ phase' = [phase EXCEPT ![w] = "closed"] /\ phase[w] = "run" /\ exit
          /\ ~Busy(w)
          /\ UNCHANGED <<gwmac, dmac, upd, exit>>
      BY <1>3 DEF Close
    <2> QED
      BY <2>1 DEF GwTypes, Updating, Busy, Closing, Started, Pending
  <1>4. CASE ExitAll
    <2>1. /\ exit' = TRUE /\ \A v \in Queues : phase[v] # "neigh"
          /\ UNCHANGED <<phase, gwmac, dmac, upd>>
      BY <1>4 DEF ExitAll
    <2> QED
      BY <2>1 DEF GwTypes, Updating, Busy, Closing, Started, Pending
  <1> QED
    BY <1>1, <1>2, <1>3, <1>4

(* All other steps leave these variables alone.                            *)
LEMMA OtherStep ==
    ASSUME GwInv, UNCHANGED <<phase, gwmac, dmac, upd, exit>>
    PROVE  GwInv'
  BY DEF GwInv, GwTypes, Updating, Busy, Closing, Started, Pending

(* Every step of every worker keeps the invariant.                         *)
LEMMA NextGwInv == GwInv /\ [Next]_vars => GwInv'
  <1> SUFFICES ASSUME GwInv, [Next]_vars PROVE GwInv'
    OBVIOUS
  <1>1. CASE UNCHANGED vars
    BY <1>1, OtherStep DEF vars, gwvars
  <1>2. ASSUME NEW w \in Queues, NEW f \in Frames, Recv(w, f) \/ RecvGateway(w, f)
        PROVE  GwInv'
    <2>1. CASE Recv(w, f)
      BY <2>1, OtherStep DEF Recv, gwvars
    <2> QED
      BY <2>1, <1>2, RecvGatewayStep
  <1>3. ASSUME NEW w \in Queues, UpdatePort(w) \/ UpdateWorker(w) \/ UpdateEnd(w)
        PROVE  GwInv'
    BY <1>3, UpdatePortStep, UpdateWorkerStep, UpdateEndStep
  <1>4. ASSUME NEW w \in Queues, NeighFound(w) \/ NeighPoll(w) \/ Close(w)
        PROVE  GwInv'
    BY <1>4, PhaseStep
  <1>5. ASSUME NEW w \in Queues, NeighSecond(w) \/ SendData(w)
        PROVE  GwInv'
    BY <1>5, OtherStep DEF NeighSecond, SendData
  <1>6. ASSUME NEW w \in Queues, SlowTimerRun(w) \/ TxOut(w)
        PROVE  GwInv'
    BY <1>6, OtherStep DEF SlowTimerRun, TxOut, gwvars
  <1>7. CASE NicDone \/ KernelDone
    BY <1>7, OtherStep DEF NicDone, KernelDone, gwvars
  <1>8. CASE ExitAll
    <2>1. 0 \in Queues
      BY MbufAssumption DEF Queues
    <2> QED
      BY <1>8, <2>1, PhaseStep
  <1> QED
    BY <1>1, <1>2, <1>3, <1>4, <1>5, <1>6, <1>7, <1>8 DEF Next

(* For every number of workers: once the gateway is known and no update is *)
(* under way, the templates of all workers carry an address.               *)
THEOREM GatewayReachesAll == Spec => []GatewayEverywhere
  <1>1. GwInv => GatewayEverywhere
    BY DEF GwInv, Pending, GatewayEverywhere, Busy
  <1> QED
    BY <1>1, InitGwInv, NextGwInv, PTL DEF Spec

(* For every number of workers: work_space_update_gw never writes into a   *)
(* work space that work_space_close has freed.                             *)
THEOREM NoUpdateAfterClose == Spec => []UpdatesLive
  <1>1. GwInv => UpdatesLive
    BY DEF GwInv, Updating, Closing, UpdatesLive, Busy
  <1> QED
    BY <1>1, InitGwInv, NextGwInv, PTL DEF Spec
-----------------------------------------------------------------------------
(***************************************************************************)
(* Where the mbufs are.  Every call that moves mbufs conserves them: for   *)
(* the worker w that makes it, the sum of what w and the shared places     *)
(* hold grows by the mbuf the call was given, and by nothing else.         *)
(***************************************************************************)
PlacesOK(s) ==
    /\ s \in Places
    /\ \A w \in Queues : Len(s.batch[w]) < MBUF_FREE_POOL_SIZE
    /\ Len(s.ring) <= KNI_RING_SIZE

Sum(s, w, x) == Shared(s, x) + Private(s, w, x)

\* From s to t worker w has put the mbufs of the sequence q away.
Gives(s, t, w, q) ==
    /\ PlacesOK(t)
    /\ \A x \in Mbufs : Sum(t, w, x) = Sum(s, w, x) + Count(q, x)
    /\ \A v \in Queues \ {w}, x \in Mbufs : Private(t, v, x) = Private(s, v, x)

(* The occurrences of an element in a concatenation.                       *)
LEMMA CountConcat ==
    ASSUME NEW S, NEW q \in Seq(S), NEW r \in Seq(S), NEW m
    PROVE  /\ Count(q \o r, m) = Count(q, m) + Count(r, m)
           /\ Count(q, m) \in Nat /\ Count(r, m) \in Nat
  <1> DEFINE k == Len(q)
             A == {i \in 1 .. k : q[i] = m}
             B == {i \in (k + 1) .. (k + Len(r)) : r[i - k] = m}
             C == {j \in 1 .. Len(r) : r[j] = m}
  <1>0. k \in Nat /\ Len(r) \in Nat
    OBVIOUS
  <1>1. Count(q, m) = Cardinality(A) /\ Count(r, m) = Cardinality(C)
    <2>1. DOMAIN q = 1 .. k /\ DOMAIN r = 1 .. Len(r)
      OBVIOUS
    <2> QED
      BY <2>1 DEF Count
  <1>2. Count(q \o r, m) = Cardinality(A \cup B)
    <2>1. /\ DOMAIN (q \o r) = 1 .. (k + Len(r))
          /\ \A i \in 1 .. k : (q \o r)[i] = q[i]
          /\ \A i \in (k + 1) .. (k + Len(r)) : (q \o r)[i] = r[i - k]
      OBVIOUS
    <2>2. {i \in 1 .. (k + Len(r)) : (q \o r)[i] = m} = A \cup B
      BY <1>0, <2>1
    <2> QED
      BY <2>1, <2>2 DEF Count
  <1>3. A \cap B = {}
    BY <1>0
  <1>4. IsFiniteSet(A) /\ IsFiniteSet(C)
    <2>1. IsFiniteSet(1 .. k) /\ IsFiniteSet(1 .. Len(r))
      BY <1>0, FS_Interval
    <2>2. A \in SUBSET (1 .. k) /\ C \in SUBSET (1 .. Len(r))
      OBVIOUS
    <2> QED
      BY <2>1, <2>2, FS_Subset
  <1>5. IsFiniteSet(B) /\ Cardinality(B) = Cardinality(C)
    <2> DEFINE f == [j \in C |-> k + j]
    <2>1. f \in [C -> B]
      BY <1>0
    <2>2. \A i, j \in C : f[i] = f[j] => i = j
      BY <1>0
    <2>3. \A b \in B : \E j \in C : f[j] = b
      <3> SUFFICES ASSUME NEW b \in B PROVE \E j \in C : f[j] = b
        OBVIOUS
      <3>1. b - k \in C /\ f[b - k] = b
        BY <1>0
      <3> QED
        BY <3>1
    <2>4. f \in Bijection(C, B)
      BY <2>1, <2>2, <2>3 DEF Bijection, Injection, Surjection, IsInjective
    <2>5. ExistsBijection(C, B)
      BY <2>4 DEF ExistsBijection
    <2> QED
      BY <1>4, <2>5, FS_Bijection
  <1>6. Cardinality(A) \in Nat /\ Cardinality(C) \in Nat
    BY <1>4, FS_CardinalityType
  <1>7. Cardinality(A \cup B) = Cardinality(A) + Cardinality(C)
    <2>1. Cardinality(A \cap B) = 0
      BY <1>3, FS_EmptySet
    <2>2. Cardinality(A \cup B) = Cardinality(A) + Cardinality(B) - Cardinality(A \cap B)
      BY <1>4, <1>5, FS_Union
    <2> QED
      BY <1>5, <1>6, <2>1, <2>2
  <1> QED
    BY <1>1, <1>2, <1>6, <1>7

\* low and high are the first k elements of q and the others; cutting a sequence in
\* two cuts the occurrences of its elements in two.
Cut(q, k, low, high) ==
    /\ low = SubSeq(q, 1, k) /\ Len(low) = k
    /\ high = SubSeq(q, k + 1, Len(q)) /\ Len(high) = Len(q) - k
    /\ \A m : Count(q, m) = Count(low, m) + Count(high, m)

(* Every sequence can be cut everywhere.                                   *)
LEMMA CountSplit ==
    ASSUME NEW S, NEW q \in Seq(S), NEW k \in 0 .. Len(q)
    PROVE  \E low, high \in Seq(S) : Cut(q, k, low, high)
  <1>0. Len(q) \in Nat /\ k \in Nat /\ k <= Len(q)
    OBVIOUS
  <1>1. SubSeq(q, 1, k) \in Seq(S) /\ Len(SubSeq(q, 1, k)) = k
    BY <1>0
  <1>2. SubSeq(q, k + 1, Len(q)) \in Seq(S) /\ Len(SubSeq(q, k + 1, Len(q))) = Len(q) - k
    BY <1>0
  <1>3. SubSeq(q, 1, k) \o SubSeq(q, k + 1, Len(q)) = q
    <2>1. 1 \in 1 .. Len(q) + 1 /\ k \in 1 - 1 .. Len(q) /\ Len(q) \in k .. Len(q)
      BY <1>0
    <2>2. SubSeq(q, 1, k) \o SubSeq(q, k + 1, Len(q)) = SubSeq(q, 1, Len(q))
      BY <2>1, ConcatAdjacentSubSeq, Zenon
    <2> QED
      BY <2>2, SubSeqFull, Zenon
  <1>4. PICK low \in Seq(S), high \in Seq(S) :
           /\ low = SubSeq(q, 1, k) /\ Len(low) = k
           /\ high = SubSeq(q, k + 1, Len(q)) /\ Len(high) = Len(q) - k
           /\ low \o high = q
    BY <1>1, <1>2, <1>3, Zenon
  <1>5. \A m : Count(low \o high, m) = Count(low, m) + Count(high, m)
    BY CountConcat
  <1>6. \A m : Count(q, m) = Count(low, m) + Count(high, m)
    BY <1>4, <1>5
  <1> QED
    BY <1>4, <1>6, Zenon DEF Cut

(* The shortest sequences: none, and one mbuf.                             *)
LEMMA CountShort ==
    ASSUME NEW m, NEW x
    PROVE  Count(<< >>, m) = 0 /\ Count(<<x>>, m) = IF m = x THEN 1 ELSE 0
  <1>1. {i \in DOMAIN << >> : << >>[i] = m} = {}
    OBVIOUS
  <1>2. DOMAIN <<x>> = {1} /\ <<x>>[1] = x
    OBVIOUS
  <1>3. {i \in DOMAIN <<x>> : <<x>>[i] = m} = IF m = x THEN {1} ELSE {}
    BY <1>2
  <1>4. Cardinality({}) = 0 /\ Cardinality({1}) = 1
    BY FS_EmptySet, FS_Singleton
  <1> QED
    BY <1>1, <1>3, <1>4 DEF Count
(* What the sums consist of are natural numbers.                           *)
LEMMA SumParts ==
    ASSUME NEW s \in Places, NEW w \in Queues, NEW x \in Mbufs
    PROVE  /\ s.avail[x] \in Nat /\ s.fifo[x] \in Nat /\ s.nic[x] \in Nat /\ s.tx[w][x] \in Nat
           /\ s.ring \in Seq(Mbufs) /\ s.batch[w] \in Seq(Mbufs)
           /\ Count(s.ring, x) \in Nat /\ Count(s.batch[w], x) \in Nat
           /\ Shared(s, x) \in Nat /\ Private(s, w, x) \in Nat /\ Sum(s, w, x) \in Nat
  <1>1. /\ s.avail[x] \in Nat /\ s.fifo[x] \in Nat /\ s.nic[x] \in Nat /\ s.tx[w][x] \in Nat
        /\ s.ring \in Seq(Mbufs) /\ s.batch[w] \in Seq(Mbufs)
    BY DEF Places, Held
  <1>2. Count(s.ring, x) \in Nat /\ Count(s.batch[w], x) \in Nat
    BY <1>1, CountConcat
  <1>3. Shared(s, x) \in Nat
    <2>1. \A a, b, c, d \in Nat : a + b + c + d \in Nat
      OBVIOUS
    <2> QED
      BY <1>1, <1>2, <2>1, Zenon DEF Shared
  <1>4. Private(s, w, x) \in Nat
    BY <1>1, <1>2 DEF Private
  <1>5. Sum(s, w, x) \in Nat
    BY <1>3, <1>4 DEF Sum
  <1> QED
    BY <1>1, <1>2, <1>3, <1>4, <1>5

(* A call that puts nothing away, followed by one that puts q away, puts   *)
(* q away.                                                                 *)
LEMMA GivesThenGives ==
    ASSUME NEW s \in Places, NEW t, NEW u, NEW w \in Queues, NEW q,
           Gives(s, t, w, << >>), Gives(t, u, w, q)
    PROVE  Gives(s, u, w, q)
  <1>1. \A x \in Mbufs : Count(<< >>, x) = 0 /\ Sum(s, w, x) \in Nat
    BY CountShort, SumParts
  <1>2. \A x \in Mbufs : Sum(t, w, x) = Sum(s, w, x)
    BY <1>1 DEF Gives
  <1> QED
    BY <1>2 DEF Gives

(* A worker that does nothing puts nothing away.                           *)
LEMMA GivesNothing ==
    ASSUME NEW s, PlacesOK(s), NEW w \in Queues
    PROVE  Gives(s, s, w, << >>)
  <1>1. \A x \in Mbufs : Count(<< >>, x) = 0 /\ Sum(s, w, x) \in Nat
    BY CountShort, SumParts DEF PlacesOK
  <1> QED
    BY <1>1 DEF Gives

(* It puts one mbuf away when the sums change for that one by one.         *)
LEMMA GivesOne ==
    ASSUME NEW s, NEW t, NEW w \in Queues, NEW m \in Mbufs, PlacesOK(t),
           \A x \in Mbufs : Sum(t, w, x) = Sum(s, w, x) + (IF x = m THEN 1 ELSE 0),
           \A v \in Queues \ {w}, x \in Mbufs : Private(t, v, x) = Private(s, v, x)
    PROVE  Gives(s, t, w, <<m>>)
  <1>1. \A x \in Mbufs : Count(<<m>>, x) = IF x = m THEN 1 ELSE 0
    BY CountShort
  <1> QED
    BY <1>1 DEF Gives

(* mbuf_free returns the mbuf to its pool.                                 *)
LEMMA MbufFreeGives ==
    ASSUME NEW s, PlacesOK(s), NEW w \in Queues, NEW m \in Mbufs
    PROVE  Gives(s, MbufFree(s, m), w, <<m>>)
  <1> DEFINE t == MbufFree(s, m)
  <1>1. s \in Places
    BY DEF PlacesOK
  <1>2. /\ t.avail = [s.avail EXCEPT ![m] = s.avail[m] + 1]
        /\ t.batch = s.batch /\ t.tx = s.tx /\ t.ring = s.ring /\ t.fifo = s.fifo /\ t.nic = s.nic
    BY <1>1 DEF MbufFree, Places
  <1>3. t \in Places
    <2>1. t.avail \in Held
      BY <1>1, <1>2 DEF Places, Held
    <2> QED
      BY <1>1, <2>1 DEF MbufFree, Places
  <1>4. PlacesOK(t)
    BY <1>2, <1>3 DEF PlacesOK
  <1>5. \A v \in Queues, x \in Mbufs : Private(t, v, x) = Private(s, v, x)
    BY <1>2 DEF Private
  <1>6. \A x \in Mbufs : t.avail[x] = s.avail[x] + (IF x = m THEN 1 ELSE 0)
    BY <1>1, <1>2 DEF Places, Held
  <1>7. \A x \in Mbufs : Sum(t, w, x) = Sum(s, w, x) + (IF x = m THEN 1 ELSE 0)
    <2> SUFFICES ASSUME NEW x \in Mbufs
                 PROVE  Sum(t, w, x) = Sum(s, w, x) + (IF x = m THEN 1 ELSE 0)
      OBVIOUS
    <2> HIDE DEF t
    <2>1. /\ s.avail[x] \in Nat /\ s.fifo[x] \in Nat /\ s.nic[x] \in Nat
          /\ Count(s.ring, x) \in Nat /\ Private(s, w, x) \in Nat
      BY <1>1, SumParts
    <2>2. Shared(t, x) = t.avail[x] + s.fifo[x] + s.nic[x] + Count(s.ring, x)
      BY <1>2 DEF Shared
    <2> QED
      BY <1>5, <1>6, <2>1, <2>2 DEF Sum, Shared
  <1> HIDE DEF t
  <1>8. Gives(s, t, w, <<m>>)
    BY <1>4, <1>5, <1>7, GivesOne
  <1> QED
    BY <1>8 DEF t

(* work_space_tx_send puts the mbuf into the worker's own queue.           *)
LEMMA TxSendGives ==
    ASSUME NEW s, PlacesOK(s), NEW w \in Queues, NEW m \in Mbufs
    PROVE  Gives(s, TxSend(s, w, m), w, <<m>>)
  <1> DEFINE t == TxSend(s, w, m)
  <1>1. s \in Places
    BY DEF PlacesOK
  <1>2. /\ t.tx = [s.tx EXCEPT ![w] = [s.tx[w] EXCEPT ![m] = s.tx[w][m] + 1]]
        /\ t.batch = s.batch /\ t.avail = s.avail /\ t.ring = s.ring /\ t.fifo = s.fifo /\ t.nic = s.nic
    BY <1>1 DEF TxSend, Places
  <1>3. t.tx \in [Queues -> Held]
    BY <1>1, <1>2 DEF Places, Held
  <1>4. t \in Places
    BY <1>1, <1>3 DEF TxSend, Places
  <1>5. PlacesOK(t)
    BY <1>2, <1>4 DEF PlacesOK
  <1>6. /\ \A v \in Queues \ {w} : t.tx[v] = s.tx[v]
        /\ \A x \in Mbufs : t.tx[w][x] = s.tx[w][x] + (IF x = m THEN 1 ELSE 0)
    BY <1>1, <1>2 DEF Places, Held
  <1>7. \A v \in Queues \ {w}, x \in Mbufs : Private(t, v, x) = Private(s, v, x)
    BY <1>2, <1>6 DEF Private
  <1>8. \A x \in Mbufs : Sum(t, w, x) = Sum(s, w, x) + (IF x = m THEN 1 ELSE 0)
    <2> SUFFICES ASSUME NEW x \in Mbufs
                 PROVE  Sum(t, w, x) = Sum(s, w, x) + (IF x = m THEN 1 ELSE 0)
      OBVIOUS
    <2> HIDE DEF t
    <2>1. s.tx[w][x] \in Nat /\ Count(s.batch[w], x) \in Nat /\ Shared(s, x) \in Nat
      BY <1>1, SumParts
    <2>2. Private(t, w, x) = t.tx[w][x] + Count(s.batch[w], x) /\ Shared(t, x) = Shared(s, x)
      BY <1>2 DEF Private, Shared
    <2> QED
      BY <1>6, <2>1, <2>2 DEF Sum, Private
  <1> HIDE DEF t
  <1>9. Gives(s, t, w, <<m>>)
    BY <1>5, <1>7, <1>8, GivesOne
  <1> QED
    BY <1>9 DEF t
\* From s to t the batch of w has become `high', and `low' was freed.
Batched(s, t, w, low, high) ==
    /\ t \in Places
    /\ t.batch = [s.batch EXCEPT ![w] = high]
    /\ \A x \in Mbufs : t.avail[x] = s.avail[x] + Count(low, x)
    /\ t.tx = s.tx /\ t.ring = s.ring /\ t.fifo = s.fifo /\ t.nic = s.nic

\* The arithmetic of that: l and h are what is freed and kept of the batch o and of
\* the c mbufs added to it; e is what the shared places held.
Balanced(e, y, o, l, h, c) == (e + l) + (y + h) = (e + (y + o)) + c

\* Of four places, the first gets l more.
FirstGets(a, f, n, r, l) == (a + l) + f + n + r = (a + f + n + r) + l

(* Both hold for all numbers.                                              *)
LEMMA BatchArithmetic ==
    ASSUME NEW e \in Nat, NEW y \in Nat, NEW o \in Nat,
           NEW l \in Nat, NEW h \in Nat, NEW c \in Nat, l + h = o + c
    PROVE  Balanced(e, y, o, l, h, c)
  BY DEF Balanced

(* The same for the shared places alone.                                   *)
LEMMA SharedArithmetic ==
    ASSUME NEW a \in Nat, NEW f \in Nat, NEW n \in Nat, NEW r \in Nat, NEW l \in Nat
    PROVE  FirstGets(a, f, n, r, l)
  BY DEF FirstGets

(* How the sum of a worker that frees low and keeps high of the batch adds *)
(* up for an mbuf.                                                         *)
LEMMA BatchSum ==
    ASSUME NEW s \in Places, NEW t, NEW w \in Queues, NEW x \in Mbufs,
           NEW low \in Seq(Mbufs), NEW high \in Seq(Mbufs), NEW q \in Seq(Mbufs),
           Count(low, x) + Count(high, x) = Count(s.batch[w], x) + Count(q, x),
           Batched(s, t, w, low, high)
    PROVE  Sum(t, w, x) = Sum(s, w, x) + Count(q, x)
  <1>1. /\ s.avail[x] \in Nat /\ s.fifo[x] \in Nat /\ s.nic[x] \in Nat /\ s.tx[w][x] \in Nat
        /\ Count(s.ring, x) \in Nat /\ Count(s.batch[w], x) \in Nat /\ Shared(s, x) \in Nat
    BY SumParts
  <1>2. Count(low, x) \in Nat /\ Count(high, x) \in Nat /\ Count(q, x) \in Nat
    BY CountConcat
  <1>3. Shared(t, x) = Shared(s, x) + Count(low, x)
    <2>1. Shared(t, x) = (s.avail[x] + Count(low, x)) + s.fifo[x] + s.nic[x] + Count(s.ring, x)
      BY DEF Shared, Batched
    <2>2. FirstGets(s.avail[x], s.fifo[x], s.nic[x], Count(s.ring, x), Count(low, x))
      BY <1>1, <1>2, SharedArithmetic, Zenon
    <2>3. Shared(s, x) = s.avail[x] + s.fifo[x] + s.nic[x] + Count(s.ring, x)
      BY DEF Shared
    <2> QED
      BY <2>1, <2>2, <2>3, Zenon DEF FirstGets
  <1>4. Private(t, w, x) = s.tx[w][x] + Count(high, x)
    BY DEF Private, Batched, Places
  <1>5. /\ Sum(t, w, x) = (Shared(s, x) + Count(low, x)) + (s.tx[w][x] + Count(high, x))
        /\ Sum(s, w, x) = Shared(s, x) + (s.tx[w][x] + Count(s.batch[w], x))
    BY <1>3, <1>4, Zenon DEF Sum, Private
  <1>6. Balanced(Shared(s, x), s.tx[w][x], Count(s.batch[w], x), Count(low, x),
                 Count(high, x), Count(q, x))
    BY <1>1, <1>2, BatchArithmetic, Zenon
  <1> QED
    BY <1>5, <1>6, Zenon DEF Balanced

(* The batch of mbuf_free2: what is in it and what is added is either      *)
(* freed (low) or stays (high).                                            *)
LEMMA BatchGives ==
    ASSUME NEW s, PlacesOK(s), NEW t, NEW w \in Queues,
           NEW low \in Seq(Mbufs), NEW high \in Seq(Mbufs), NEW q \in Seq(Mbufs),
           Len(high) < MBUF_FREE_POOL_SIZE,
           \A x : Count(low, x) + Count(high, x) = Count(s.batch[w], x) + Count(q, x),
           Batched(s, t, w, low, high)
    PROVE  Gives(s, t, w, q)
  <1>1. s \in Places /\ s.batch \in [Queues -> Seq(Mbufs)]
    BY DEF PlacesOK, Places
  <1>2. t.batch[w] = high /\ \A v \in Queues \ {w} : t.batch[v] = s.batch[v]
    BY <1>1 DEF Batched
  <1>3. PlacesOK(t)
    BY <1>2 DEF PlacesOK, Batched
  <1>4. \A v \in Queues \ {w}, x \in Mbufs : Private(t, v, x) = Private(s, v, x)
    BY <1>2 DEF Private, Batched
  <1>5. \A x \in Mbufs : Sum(t, w, x) = Sum(s, w, x) + Count(q, x)
    BY <1>1, BatchSum
  <1> QED
    BY <1>3, <1>4, <1>5 DEF Gives

(* rte_pktmbuf_free_bulk after the batch of w became `high'.               *)
LEMMA FreeBulkBatched ==
    ASSUME NEW s \in Places, NEW w \in Queues, NEW low \in Seq(Mbufs), NEW high \in Seq(Mbufs)
    PROVE  Batched(s, FreeBulk([s EXCEPT !.batch[w] = high], low), w, low, high)
  <1> DEFINE u == [s EXCEPT !.batch[w] = high]
             t == FreeBulk(u, low)
  <1>1. /\ u \in Places /\ u.avail = s.avail /\ u.batch = [s.batch EXCEPT ![w] = high]
        /\ u.tx = s.tx /\ u.ring = s.ring /\ u.fifo = s.fifo /\ u.nic = s.nic
    <2>1. [s.batch EXCEPT ![w] = high] \in [Queues -> Seq(Mbufs)]
      BY DEF Places
    <2> QED
      BY <2>1 DEF Places
  <1> HIDE DEF u
  <1>2. /\ t.avail = [m \in Mbufs |-> u.avail[m] + Count(low, m)]
        /\ t.batch = u.batch /\ t.tx = u.tx /\ t.ring = u.ring /\ t.fifo = u.fifo /\ t.nic = u.nic
    BY <1>1 DEF FreeBulk, Places
  <1>3. \A x \in Mbufs : u.avail[x] \in Nat /\ Count(low, x) \in Nat
    BY <1>1, CountConcat DEF Places, Held
  <1>4. t \in Places
    <2>1. \A x \in Mbufs : u.avail[x] + Count(low, x) \in Nat
      BY <1>3
    <2>2. t.avail \in Held
      BY <1>2, <2>1 DEF Held
    <2> QED
      BY <1>1, <2>2 DEF FreeBulk, Places
  <1> HIDE DEF t
  <1>5. Batched(s, t, w, low, high)
    BY <1>1, <1>2, <1>4 DEF Batched
  <1> QED
    BY <1>5 DEF t, u

(* The rest of a division.                                                 *)
LEMMA ModBound ==
    ASSUME NEW a \in Nat, NEW n \in Nat \ {0}
    PROVE  a % n \in 0 .. (n - 1) /\ a % n <= a
  OBVIOUS

(* mbuf_free2 for all mbufs of q.                                          *)
LEMMA MbufFree2AllGives ==
    ASSUME NEW s, PlacesOK(s), NEW w \in Queues, NEW q \in Seq(Mbufs)
    PROVE  Gives(s, MbufFree2All(s, w, q), w, q)
  <1>1. s \in Places /\ s.batch[w] \in Seq(Mbufs)
    BY DEF PlacesOK, Places
  <1>2. PICK b \in Seq(Mbufs) : b = s.batch[w] \o q
    <2>1. s.batch[w] \o q \in Seq(Mbufs)
      BY <1>1, ConcatProperties, Zenon
    <2> QED
      BY <2>1, Zenon
  <1>3. \A x : Count(b, x) = Count(s.batch[w], x) + Count(q, x)
    BY <1>1, <1>2, CountConcat
  <1>4. PICK k \in 0 .. Len(b) : /\ k = Len(b) - (Len(b) % MBUF_FREE_POOL_SIZE)
                                 /\ Len(b) - k < MBUF_FREE_POOL_SIZE
    <2>1. Len(b) \in Nat /\ MBUF_FREE_POOL_SIZE \in Nat \ {0}
      BY MbufAssumption
    <2>2. /\ Len(b) % MBUF_FREE_POOL_SIZE \in 0 .. (MBUF_FREE_POOL_SIZE - 1)
          /\ Len(b) % MBUF_FREE_POOL_SIZE <= Len(b)
      BY <2>1, ModBound
    <2>3. PICK k : k = Len(b) - (Len(b) % MBUF_FREE_POOL_SIZE)
      OBVIOUS
    <2>4. k \in 0 .. Len(b) /\ Len(b) - k < MBUF_FREE_POOL_SIZE
      BY <2>1, <2>2, <2>3
    <2> QED
      BY <2>3, <2>4, Zenon
  <1>5. PICK low, high \in Seq(Mbufs) : Cut(b, k, low, high)
    BY CountSplit, Zenon
  <1>6. PICK t : t = FreeBulk([s EXCEPT !.batch[w] = high], low)
    OBVIOUS
  <1>7. MbufFree2All(s, w, q) = t
    BY <1>2, <1>4, <1>5, <1>6, Zenon DEF MbufFree2All, Cut
  <1>8. Batched(s, t, w, low, high)
    BY <1>1, <1>6, FreeBulkBatched, Zenon
  <1>9. \A x : Count(low, x) + Count(high, x) = Count(s.batch[w], x) + Count(q, x)
    BY <1>3, <1>5, Zenon DEF Cut
  <1>10. Len(high) < MBUF_FREE_POOL_SIZE
    BY <1>4, <1>5 DEF Cut
  <1> QED
    BY <1>7, <1>8, <1>9, <1>10, BatchGives

(* An mbuf more at the end of a sequence.                                  *)
LEMMA AppendCount ==
    ASSUME NEW q \in Seq(Mbufs), NEW m \in Mbufs
    PROVE  /\ Append(q, m) \in Seq(Mbufs) /\ Len(Append(q, m)) = Len(q) + 1
           /\ \A x : Count(Append(q, m), x) = Count(q, x) + Count(<<m>>, x)
  <1>1. <<m>> \in Seq(Mbufs) /\ Append(q, m) = q \o <<m>>
    OBVIOUS
  <1>2. \A x : Count(q \o <<m>>, x) = Count(q, x) + Count(<<m>>, x)
    BY <1>1, CountConcat
  <1>3. Append(q, m) \in Seq(Mbufs) /\ Len(Append(q, m)) = Len(q) + 1
    OBVIOUS
  <1> QED
    BY <1>1, <1>2, <1>3

(* A batch that is kept: nothing is freed.                                 *)
LEMMA KeepBatched ==
    ASSUME NEW s \in Places, NEW w \in Queues, NEW high \in Seq(Mbufs)
    PROVE  Batched(s, [s EXCEPT !.batch[w] = high], w, << >>, high)
  <1> DEFINE t == [s EXCEPT !.batch[w] = high]
  <1>1. /\ t \in Places /\ t.avail = s.avail /\ t.batch = [s.batch EXCEPT ![w] = high]
        /\ t.tx = s.tx /\ t.ring = s.ring /\ t.fifo = s.fifo /\ t.nic = s.nic
    <2>1. [s.batch EXCEPT ![w] = high] \in [Queues -> Seq(Mbufs)]
      BY DEF Places
    <2> QED
      BY <2>1 DEF Places
  <1> HIDE DEF t
  <1>2. \A x \in Mbufs : s.avail[x] \in Nat /\ Count(<< >>, x) = 0
    BY CountShort DEF Places, Held
  <1>3. \A x \in Mbufs : t.avail[x] = s.avail[x] + Count(<< >>, x)
    BY <1>1, <1>2
  <1>4. Batched(s, t, w, << >>, high)
    BY <1>1, <1>3 DEF Batched
  <1> QED
    BY <1>4 DEF t

(* mbuf_free2 of one mbuf, whether it fills the batch or not.              *)
LEMMA MbufFree2Gives ==
    ASSUME NEW s, PlacesOK(s), NEW w \in Queues, NEW m \in Mbufs
    PROVE  Gives(s, MbufFree2(s, w, m), w, <<m>>)
  <1>1. s \in Places /\ s.batch[w] \in Seq(Mbufs)
    BY DEF PlacesOK, Places
  <1>2. PICK b \in Seq(Mbufs) : /\ b = Append(s.batch[w], m)
                                /\ \A x : Count(b, x) = Count(s.batch[w], x) + Count(<<m>>, x)
    BY <1>1, AppendCount, Zenon
  <1>3. << >> \in Seq(Mbufs) /\ <<m>> \in Seq(Mbufs)
    OBVIOUS
  <1>4. \A x : Count(<< >>, x) = 0 /\ Count(b, x) \in Nat
    BY CountShort, CountConcat
  <1>5. CASE Len(b) >= MBUF_FREE_POOL_SIZE
    <2>1. MbufFree2(s, w, m) = FreeBulk([s EXCEPT !.batch[w] = << >>], b)
      BY <1>2, <1>5, Zenon DEF MbufFree2
    <2>2. Batched(s, MbufFree2(s, w, m), w, b, << >>)
      BY <1>1, <1>3, <2>1, FreeBulkBatched, Zenon
    <2>3. \A x : Count(b, x) + Count(<< >>, x) = Count(s.batch[w], x) + Count(<<m>>, x)
      <3>1. \A x : Count(b, x) + Count(<< >>, x) = Count(b, x)
        BY <1>4
      <3> QED
        BY <1>2, <3>1, Zenon
    <2>4. Len(<< >>) < MBUF_FREE_POOL_SIZE
      BY MbufAssumption
    <2> QED
      BY <1>3, <2>2, <2>3, <2>4, BatchGives, Zenon
  <1>6. CASE ~(Len(b) >= MBUF_FREE_POOL_SIZE)
    <2>1. MbufFree2(s, w, m) = [s EXCEPT !.batch[w] = b]
      BY <1>2, <1>6, Zenon DEF MbufFree2
    <2>2. Batched(s, MbufFree2(s, w, m), w, << >>, b)
      BY <1>1, <2>1, KeepBatched, Zenon
    <2>3. \A x : Count(<< >>, x) + Count(b, x) = Count(s.batch[w], x) + Count(<<m>>, x)
      <3>1. \A x : Count(<< >>, x) + Count(b, x) = Count(b, x)
        BY <1>4
      <3> QED
        BY <1>2, <3>1, Zenon
    <2>4. Len(b) < MBUF_FREE_POOL_SIZE
      BY <1>6, MbufAssumption
    <2> QED
      BY <1>3, <2>2, <2>3, <2>4, BatchGives, Zenon
  <1> QED
    BY <1>5, <1>6

(* mbuf_free2_flush frees the whole batch.                                 *)
LEMMA MbufFree2FlushGives ==
    ASSUME NEW s, PlacesOK(s), NEW w \in Queues
    PROVE  Gives(s, MbufFree2Flush(s, w), w, << >>)
  <1>1. s \in Places /\ s.batch[w] \in Seq(Mbufs) /\ << >> \in Seq(Mbufs)
    BY DEF PlacesOK, Places
  <1>2. Batched(s, MbufFree2Flush(s, w), w, s.batch[w], << >>)
    BY <1>1, FreeBulkBatched, Zenon DEF MbufFree2Flush
  <1>3. \A x : Count(s.batch[w], x) + Count(<< >>, x) = Count(s.batch[w], x) + Count(<< >>, x)
    OBVIOUS
  <1>4. Len(<< >>) < MBUF_FREE_POOL_SIZE
    BY MbufAssumption
  <1> QED
    BY <1>1, <1>2, <1>3, <1>4, BatchGives, Zenon

(* A worker that has taken m and puts it away has put nothing away.        *)
LEMMA TakeAndGive ==
    ASSUME NEW s \in Places, NEW t \in Places, NEW u, NEW w \in Queues, NEW q \in Seq(Mbufs),
           Gives(t, s, w, q), Gives(t, u, w, q)
    PROVE  Gives(s, u, w, << >>)
  <1>1. \A x \in Mbufs : Sum(u, w, x) = Sum(s, w, x)
    BY DEF Gives
  <1>2. \A x \in Mbufs : Sum(s, w, x) \in Nat /\ Count(<< >>, x) = 0
    BY SumParts, CountShort
  <1>3. \A x \in Mbufs : Sum(u, w, x) = Sum(s, w, x) + Count(<< >>, x)
    BY <1>1, <1>2
  <1>4. \A v \in Queues \ {w}, x \in Mbufs : Private(u, v, x) = Private(s, v, x)
    BY DEF Gives
  <1> QED
    BY <1>3, <1>4 DEF Gives

(* Taking an mbuf from the pool is undone by freeing it.                   *)
LEMMA TakeGives ==
    ASSUME NEW s, PlacesOK(s), NEW w \in Queues, NEW m \in Mbufs, s.avail[m] > 0
    PROVE  PlacesOK(Take(s, m)) /\ Gives(Take(s, m), s, w, <<m>>)
  <1> DEFINE t == Take(s, m)
  <1>1. s \in Places /\ s.avail \in [Mbufs -> Nat] /\ s.avail[m] - 1 \in Nat
    BY DEF PlacesOK, Places, Held
  <1>2. /\ t.avail = [s.avail EXCEPT ![m] = s.avail[m] - 1]
        /\ t.batch = s.batch /\ t.ring = s.ring
    BY <1>1 DEF Take, Places
  <1>3. t \in Places
    <2>1. t.avail \in Held
      BY <1>1, <1>2 DEF Held
    <2> QED
      BY <1>1, <1>2, <2>1 DEF Take, Places
  <1>4. PlacesOK(t)
    BY <1>2, <1>3 DEF PlacesOK
  <1>5. MbufFree(t, m) = s
    <2>1. [t.avail EXCEPT ![m] = t.avail[m] + 1] = s.avail
      BY <1>1, <1>2
    <2>2. MbufFree(t, m) = [s EXCEPT !.avail = s.avail]
      BY <1>1, <2>1 DEF MbufFree, Take, Places
    <2> QED
      BY <1>1, <2>2 DEF Places
  <1> HIDE DEF t
  <1>6. Gives(t, s, w, <<m>>)
    BY <1>4, <1>5, MbufFreeGives
  <1> QED
    BY <1>4, <1>6 DEF t

\* Shifts of summands that the lemmas below need.
Shifted(a, b, c) == (a + c) + b = (a + b) + c
SecondGets(a, f, n, r, c) == a + (f + c) + n + r = (a + f + n + r) + c
ThirdGets(a, f, n, r, c) == a + f + (n + c) + r = (a + f + n + r) + c
FourthGets(a, f, n, r, c) == a + f + n + (r + c) = (a + f + n + r) + c

(* They hold for all numbers.                                              *)
LEMMA Shifts ==
    ASSUME NEW a \in Nat, NEW f \in Nat, NEW n \in Nat, NEW r \in Nat, NEW c \in Nat
    PROVE  /\ Shifted(a, f, c) /\ SecondGets(a, f, n, r, c)
           /\ ThirdGets(a, f, n, r, c) /\ FourthGets(a, f, n, r, c)
  BY DEF Shifted, SecondGets, ThirdGets, FourthGets

(* The shared places get q; any worker may have put it there.              *)
LEMMA SharedGives ==
    ASSUME NEW s, PlacesOK(s), NEW t, PlacesOK(t), NEW w \in Queues, NEW q \in Seq(Mbufs),
           t.tx = s.tx, t.batch = s.batch,
           \A x \in Mbufs : Shared(t, x) = Shared(s, x) + Count(q, x)
    PROVE  Gives(s, t, w, q)
  <1>1. \A v \in Queues, x \in Mbufs : Private(t, v, x) = Private(s, v, x)
    BY DEF Private
  <1>2. ASSUME NEW x \in Mbufs
        PROVE  Sum(t, w, x) = Sum(s, w, x) + Count(q, x)
    <2>1. Shared(s, x) \in Nat /\ Private(s, w, x) \in Nat /\ Count(q, x) \in Nat
      BY SumParts, CountConcat DEF PlacesOK
    <2>2. Shifted(Shared(s, x), Private(s, w, x), Count(q, x))
      BY <2>1, Shifts, Zenon
    <2>3. Shared(t, x) = Shared(s, x) + Count(q, x) /\ Private(t, w, x) = Private(s, w, x)
      BY <1>1
    <2> QED
      BY <2>2, <2>3, Zenon DEF Sum, Shifted
  <1> QED
    BY <1>1, <1>2 DEF Gives

(* The ring of the port gets m.                                            *)
LEMMA RingGives ==
    ASSUME NEW s, PlacesOK(s), NEW w \in Queues, NEW m \in Mbufs, Len(s.ring) < KNI_RING_SIZE
    PROVE  Gives(s, [s EXCEPT !.ring = Append(@, m)], w, <<m>>)
  <1> DEFINE t == [s EXCEPT !.ring = Append(@, m)]
  <1>1. s \in Places /\ s.ring \in Seq(Mbufs) /\ <<m>> \in Seq(Mbufs)
    BY DEF PlacesOK, Places
  <1>2. /\ Append(s.ring, m) \in Seq(Mbufs) /\ Len(Append(s.ring, m)) = Len(s.ring) + 1
        /\ \A x : Count(Append(s.ring, m), x) = Count(s.ring, x) + Count(<<m>>, x)
    BY <1>1, AppendCount
  <1>3. /\ t.ring = Append(s.ring, m)
        /\ t.avail = s.avail /\ t.batch = s.batch /\ t.tx = s.tx /\ t.fifo = s.fifo /\ t.nic = s.nic
    BY <1>1 DEF Places
  <1>4. t \in Places
    BY <1>1, <1>2 DEF Places
  <1> HIDE DEF t
  <1>5. PlacesOK(t)
    <2>1. Len(t.ring) <= KNI_RING_SIZE
      <3>1. Len(s.ring) \in Nat
        BY <1>1
      <3> QED
        BY <1>2, <1>3, <3>1, MbufAssumption
    <2> QED
      BY <1>3, <1>4, <2>1 DEF PlacesOK
  <1>6. ASSUME NEW x \in Mbufs
        PROVE  Shared(t, x) = Shared(s, x) + Count(<<m>>, x)
    <2>1. /\ s.avail[x] \in Nat /\ s.fifo[x] \in Nat /\ s.nic[x] \in Nat
          /\ Count(s.ring, x) \in Nat /\ Count(<<m>>, x) \in Nat
      BY <1>1, SumParts, CountConcat
    <2>2. FourthGets(s.avail[x], s.fifo[x], s.nic[x], Count(s.ring, x), Count(<<m>>, x))
      BY <2>1, Shifts, Zenon
    <2>3. Shared(t, x) = s.avail[x] + s.fifo[x] + s.nic[x] + (Count(s.ring, x) + Count(<<m>>, x))
      BY <1>2, <1>3, Zenon DEF Shared
    <2> QED
      BY <2>2, <2>3, Zenon DEF FourthGets, Shared
  <1>7. Gives(s, t, w, <<m>>)
    BY <1>1, <1>3, <1>5, <1>6, SharedGives, Zenon
  <1> QED
    BY <1>7 DEF t

(* kni_recv of a worker other than that of queue 0.                        *)
LEMMA KniRingGives ==
    ASSUME NEW s, PlacesOK(s), NEW w \in Queues, NEW m \in Mbufs, NEW kni
    PROVE  Gives(s, KniRing(s, w, m, kni), w, <<m>>)
  BY RingGives, MbufFree2Gives DEF KniRing

\* A worker offers own and the head of the ring; lo is taken, hi comes back.
OfferBalance(a, f, n, p, rest, head, own, lo, hi) ==
    ((a + (f + lo) + n + rest) + p) + hi = ((a + f + n + (head + rest)) + p) + own

(* That is right when what was offered is what was taken or came back.     *)
LEMMA OfferArithmetic ==
    ASSUME NEW a \in Nat, NEW f \in Nat, NEW n \in Nat, NEW p \in Nat, NEW rest \in Nat,
           NEW head \in Nat, NEW own \in Nat, NEW lo \in Nat, NEW hi \in Nat,
           own + head = lo + hi
    PROVE  OfferBalance(a, f, n, p, rest, head, own, lo, hi)
  BY DEF OfferBalance

\* From s to t the head of the ring was cut off and the kernel took lo.
Offered(s, t, rest, lo) ==
    /\ PlacesOK(t)
    /\ t.ring = rest
    /\ \A x \in Mbufs : t.fifo[x] = s.fifo[x] + Count(lo, x)
    /\ t.avail = s.avail /\ t.batch = s.batch /\ t.tx = s.tx /\ t.nic = s.nic

(* What the offer changes before the rest is freed.                        *)
LEMMA OfferStep ==
    ASSUME NEW s, PlacesOK(s), NEW rest \in Seq(Mbufs), NEW lo \in Seq(Mbufs),
           Len(rest) <= Len(s.ring)
    PROVE  Offered(s, [s EXCEPT !.ring = rest,
                                !.fifo = [m \in Mbufs |-> @[m] + Count(lo, m)]], rest, lo)
  <1> DEFINE fifo2 == [m \in Mbufs |-> s.fifo[m] + Count(lo, m)]
             t == [s EXCEPT !.ring = rest, !.fifo = fifo2]
  <1>1. s \in Places
    BY DEF PlacesOK
  <1>2. \A m \in Mbufs : s.fifo[m] \in Nat /\ Count(lo, m) \in Nat
    BY <1>1, CountConcat DEF Places, Held
  <1>3. \A m \in Mbufs : s.fifo[m] + Count(lo, m) \in Nat
    BY <1>2
  <1>4. fifo2 \in Held /\ \A x \in Mbufs : fifo2[x] = s.fifo[x] + Count(lo, x)
    BY <1>3 DEF Held
  <1> HIDE DEF fifo2
  <1>5. /\ t \in Places /\ t.ring = rest /\ t.fifo = fifo2
        /\ t.avail = s.avail /\ t.batch = s.batch /\ t.tx = s.tx /\ t.nic = s.nic
    BY <1>1, <1>4 DEF Places
  <1> HIDE DEF t
  <1>6. PlacesOK(t)
    <2>1. Len(s.ring) \in Nat /\ Len(rest) \in Nat /\ Len(s.ring) <= KNI_RING_SIZE
      BY <1>1 DEF PlacesOK, Places
    <2>2. Len(t.ring) <= KNI_RING_SIZE
      BY <1>5, <2>1, MbufAssumption
    <2> QED
      BY <1>5, <2>2 DEF PlacesOK
  <1>7. Offered(s, t, rest, lo)
    BY <1>4, <1>5, <1>6 DEF Offered
  <1> QED
    BY <1>7 DEF t, fifo2

\* The ring consists of head and rest, and own and head are cut into lo and hi.
Covers(ring, head, rest, own, lo, hi) ==
    \A x : /\ Count(ring, x) = Count(head, x) + Count(rest, x)
           /\ Count(own, x) + Count(head, x) = Count(lo, x) + Count(hi, x)

(* The offer and the freeing of what came back together put own away.      *)
LEMMA OfferSum ==
    ASSUME NEW s, PlacesOK(s), NEW t, NEW u, NEW w \in Queues, NEW x \in Mbufs,
           NEW rest \in Seq(Mbufs), NEW head \in Seq(Mbufs), NEW own \in Seq(Mbufs),
           NEW lo \in Seq(Mbufs), NEW hi \in Seq(Mbufs),
           Covers(s.ring, head, rest, own, lo, hi),
           Offered(s, t, rest, lo), Gives(t, u, w, hi)
    PROVE  Sum(u, w, x) = Sum(s, w, x) + Count(own, x)
  <1>1. s \in Places
    BY DEF PlacesOK
  <1>2. /\ s.avail[x] \in Nat /\ s.fifo[x] \in Nat /\ s.nic[x] \in Nat /\ Private(s, w, x) \in Nat
    BY <1>1, SumParts
  <1>3. /\ Count(rest, x) \in Nat /\ Count(head, x) \in Nat /\ Count(own, x) \in Nat
        /\ Count(lo, x) \in Nat /\ Count(hi, x) \in Nat
    BY CountConcat
  <1>4. OfferBalance(s.avail[x], s.fifo[x], s.nic[x], Private(s, w, x), Count(rest, x),
                     Count(head, x), Count(own, x), Count(lo, x), Count(hi, x))
    <2>1. Count(own, x) + Count(head, x) = Count(lo, x) + Count(hi, x)
      BY DEF Covers
    <2> QED
      BY <1>2, <1>3, <2>1, OfferArithmetic, Zenon
  <1>5. Shared(t, x) = s.avail[x] + (s.fifo[x] + Count(lo, x)) + s.nic[x] + Count(rest, x)
    BY DEF Shared, Offered
  <1>6. Private(t, w, x) = Private(s, w, x)
    BY DEF Private, Offered
  <1>7. Sum(u, w, x) = Sum(t, w, x) + Count(hi, x)
    BY DEF Gives
  <1>8. Shared(s, x) = s.avail[x] + s.fifo[x] + s.nic[x] + (Count(head, x) + Count(rest, x))
    BY Zenon DEF Shared, Covers
  <1> QED
    BY <1>4, <1>5, <1>6, <1>7, <1>8, Zenon DEF Sum, OfferBalance

(* The numbers of kni_recv: how many mbufs it takes from the ring.         *)
LEMMA OfferCounts ==
    ASSUME NEW r \in Nat, NEW o \in Nat, NEW k \in Nat, o <= k, NEW taken \in Nat, NEW kni
    PROVE  LET cnt == IF r < k - o THEN r ELSE k - o
               sent == IF ~kni THEN 0 ELSE IF taken < o + cnt THEN taken ELSE o + cnt
           IN  cnt \in 0 .. r /\ sent \in 0 .. (o + cnt)
  OBVIOUS

(* kni_recv of the worker of queue 0.                                      *)
LEMMA KniOfferGives ==
    ASSUME NEW s, PlacesOK(s), NEW own \in Seq(Mbufs), Len(own) <= NB_RXD, NEW kni,
           NEW taken \in Nat, 0 \in Queues
    PROVE  Gives(s, KniOffer(s, own, kni, taken), 0, own)
  <1>1. s \in Places /\ s.ring \in Seq(Mbufs) /\ Len(s.ring) \in Nat /\ Len(own) \in Nat
    BY DEF PlacesOK, Places
  <1>2. PICK cnt \in 0 .. Len(s.ring) :
           cnt = IF Len(s.ring) < NB_RXD - Len(own) THEN Len(s.ring) ELSE NB_RXD - Len(own)
    <2>1. (IF Len(s.ring) < NB_RXD - Len(own) THEN Len(s.ring) ELSE NB_RXD - Len(own))
            \in 0 .. Len(s.ring)
      BY <1>1, OfferCounts, MbufAssumption
    <2> QED
      BY <2>1, Zenon
  <1>3. PICK head, rest \in Seq(Mbufs) : Cut(s.ring, cnt, head, rest)
    BY <1>1, CountSplit, Zenon
  <1>4. PICK mbufs \in Seq(Mbufs) : mbufs = own \o head
    <2>1. own \o head \in Seq(Mbufs)
      BY ConcatProperties, Zenon
    <2> QED
      BY <2>1, Zenon
  <1>5. Len(mbufs) = Len(own) + cnt
    <2>1. Len(head) = cnt
      BY <1>3 DEF Cut
    <2>2. Len(own \o head) = Len(own) + Len(head)
      BY ConcatProperties, Zenon
    <2> QED
      BY <1>4, <2>1, <2>2, Zenon
  <1>6. PICK sent \in 0 .. Len(mbufs) :
           sent = IF ~kni THEN 0 ELSE IF taken < Len(own) + cnt THEN taken ELSE Len(own) + cnt
    <2>1. (IF ~kni THEN 0 ELSE IF taken < Len(own) + cnt THEN taken ELSE Len(own) + cnt)
            \in 0 .. (Len(own) + cnt)
      BY <1>1, <1>2, OfferCounts, MbufAssumption
    <2> QED
      BY <1>5, <2>1, Zenon
  <1>7. PICK lo, hi \in Seq(Mbufs) : Cut(mbufs, sent, lo, hi)
    BY CountSplit, Zenon
  <1>8. PICK t : t = [s EXCEPT !.ring = rest,
                               !.fifo = [m \in Mbufs |-> @[m] + Count(lo, m)]]
    OBVIOUS
  <1>9. Offered(s, t, rest, lo)
    <2>1. Len(rest) <= Len(s.ring)
      BY <1>1, <1>2, <1>3 DEF Cut
    <2> QED
      BY <1>8, <2>1, OfferStep, Zenon
  <1>10. KniOffer(s, own, kni, taken) = MbufFree2All(t, 0, hi)
    <2>1. /\ head = SubSeq(s.ring, 1, cnt) /\ rest = SubSeq(s.ring, cnt + 1, Len(s.ring))
          /\ lo = SubSeq(mbufs, 1, sent) /\ hi = SubSeq(mbufs, sent + 1, Len(own) + cnt)
      BY <1>3, <1>5, <1>7, Zenon DEF Cut
    <2> QED
      BY <1>2, <1>4, <1>6, <1>8, <2>1, Zenon DEF KniOffer
  <1>11. Gives(t, MbufFree2All(t, 0, hi), 0, hi)
    BY <1>9, MbufFree2AllGives, Zenon DEF Offered
  <1>12. Covers(s.ring, head, rest, own, lo, hi)
    <2>1. \A x : Count(mbufs, x) = Count(own, x) + Count(head, x)
      BY <1>4, CountConcat
    <2> QED
      BY <1>3, <1>7, <2>1, Zenon DEF Cut, Covers
  <1>13. PICK u : u = MbufFree2All(t, 0, hi)
    OBVIOUS
  <1>14. ASSUME NEW x \in Mbufs
         PROVE  Sum(u, 0, x) = Sum(s, 0, x) + Count(own, x)
    <2>1. Gives(t, u, 0, hi)
      BY <1>11, <1>13, Zenon
    <2> QED
      BY <1>9, <1>12, <2>1, OfferSum, SMTT(30)
  <1>15. PlacesOK(u) /\ \A v \in Queues \ {0}, x \in Mbufs : Private(u, v, x) = Private(s, v, x)
    <2>1. \A v \in Queues, x \in Mbufs : Private(t, v, x) = Private(s, v, x)
      BY <1>9 DEF Offered, Private
    <2> QED
      BY <1>11, <1>13, <2>1, Zenon DEF Gives
  <1>16. Gives(s, u, 0, own)
    BY <1>14, <1>15 DEF Gives
  <1> QED
    BY <1>10, <1>13, <1>16, Zenon

(* kni_recv, of whichever worker, with an mbuf or without.                 *)
LEMMA KniRecvGives ==
    ASSUME NEW s, PlacesOK(s), NEW w \in Queues, NEW m \in Mbufs, NEW kni, NEW taken \in Nat
    PROVE  /\ Gives(s, KniRecv(s, w, <<m>>, kni, taken), w, <<m>>)
           /\ Gives(s, KniRecv(s, w, << >>, kni, taken), w, << >>)
  <1>1. /\ <<m>> \in Seq(Mbufs) /\ Len(<<m>>) <= NB_RXD /\ <<m>>[1] = m /\ <<m>> # << >>
        /\ << >> \in Seq(Mbufs) /\ Len(<< >>) <= NB_RXD
    BY MbufAssumption
  <1>2. CASE w = 0
    <2>1. /\ KniRecv(s, w, <<m>>, kni, taken) = KniOffer(s, <<m>>, kni, taken)
          /\ KniRecv(s, w, << >>, kni, taken) = KniOffer(s, << >>, kni, taken)
      BY <1>2, Zenon DEF KniRecv
    <2>2. Gives(s, KniOffer(s, <<m>>, kni, taken), 0, <<m>>)
      BY <1>1, <1>2, KniOfferGives, Zenon
    <2>3. Gives(s, KniOffer(s, << >>, kni, taken), 0, << >>)
      BY <1>1, <1>2, KniOfferGives, Zenon
    <2> QED
      BY <1>2, <2>1, <2>2, <2>3, Zenon
  <1>3. CASE w # 0
    <2>1. /\ KniRecv(s, w, <<m>>, kni, taken) = KniRing(s, w, m, kni)
          /\ KniRecv(s, w, << >>, kni, taken) = s
      BY <1>1, <1>3, Zenon DEF KniRecv
    <2> QED
      BY <2>1, KniRingGives, GivesNothing, Zenon
  <1> QED
    BY <1>2, <1>3

(* The mbuf that an allocation returns was in the pool.                    *)
LEMMA NextMbufIsFree ==
    ASSUME NEW s, NEW w \in Queues, CanAlloc(s, w)
    PROVE  NextMbuf(s, w) \in Mbufs /\ s.avail[NextMbuf(s, w)] > 0
  <1>1. PICK i \in 1 .. PER_QUEUE : s.avail[<<w, i>>] > 0
    BY DEF CanAlloc
  <1>2. /\ <<w, i>> \in Mbufs
        /\ <<w, i>>[1] = w
    BY DEF Mbufs
  <1>3. \E m \in Mbufs : m[1] = w /\ s.avail[m] > 0
    BY <1>1, <1>2
  <1> QED
    BY <1>3 DEF NextMbuf

(* A worker that allocates an mbuf and puts it away keeps the sums.        *)
LEMMA AllocAndGive ==
    ASSUME NEW s, PlacesOK(s), NEW w \in Queues, CanAlloc(s, w), NEW u,
           Gives(Take(s, NextMbuf(s, w)), u, w, <<NextMbuf(s, w)>>)
    PROVE  Gives(s, u, w, << >>)
  <1>1. PICK m \in Mbufs : m = NextMbuf(s, w) /\ s.avail[m] > 0
    BY NextMbufIsFree, Zenon
  <1>2. PICK t : t = Take(s, m)
    OBVIOUS
  <1>3. PlacesOK(t) /\ Gives(t, s, w, <<m>>)
    BY <1>1, <1>2, TakeGives, Zenon
  <1>4. Gives(t, u, w, <<m>>)
    BY <1>1, <1>2, Zenon
  <1>5. s \in Places /\ t \in Places /\ <<m>> \in Seq(Mbufs)
    BY <1>3 DEF PlacesOK
  <1> QED
    BY <1>3, <1>4, <1>5, TakeAndGive, Zenon

(* kni_broadcast uses an mbuf of its own for the copy.                     *)
LEMMA KniBroadcastGives ==
    ASSUME NEW s, PlacesOK(s), NEW w \in Queues, NEW kni, NEW taken \in Nat
    PROVE  Gives(s, KniBroadcast(s, w, kni, taken), w, << >>)
  <1>1. CASE ~CanAlloc(s, w)
    <2>1. KniBroadcast(s, w, kni, taken) = s
      BY <1>1, Zenon DEF KniBroadcast
    <2> QED
      BY <2>1, GivesNothing, Zenon
  <1>2. CASE CanAlloc(s, w)
    <2>1. PICK m \in Mbufs : m = NextMbuf(s, w) /\ s.avail[m] > 0
      BY <1>2, NextMbufIsFree, Zenon
    <2>2. PlacesOK(Take(s, m))
      BY <2>1, TakeGives, Zenon
    <2>3. Gives(Take(s, m), KniRecv(Take(s, m), w, <<m>>, kni, taken), w, <<m>>)
      BY <2>2, KniRecvGives, Zenon
    <2>4. KniBroadcast(s, w, kni, taken) = KniRecv(Take(s, m), w, <<m>>, kni, taken)
      BY <1>2, <2>1, Zenon DEF KniBroadcast
    <2>5. Gives(Take(s, NextMbuf(s, w)), KniBroadcast(s, w, kni, taken), w, <<NextMbuf(s, w)>>)
      BY <2>1, <2>3, <2>4, Zenon
    <2> QED
      BY <1>2, <2>5, AllocAndGive, Zenon
  <1> QED
    BY <1>1, <1>2

(* An allocation loop gets mbufs that were in the pool.                    *)
LEMMA SeveralAreFree ==
    ASSUME NEW s, NEW w, NEW n
    PROVE  Several(s, w, n) \subseteq Mbufs /\ \A m \in Several(s, w, n) : s.avail[m] > 0
  BY DEF Several

\* One more of each mbuf of M, and one less.
More(after, held, M) ==
    /\ after \in Held
    /\ \A x \in Mbufs : after[x] = IF x \in M THEN held[x] + 1 ELSE held[x]

Less(after, held, M) ==
    /\ after \in Held
    /\ \A x \in Mbufs : after[x] = IF x \in M THEN held[x] - 1 ELSE held[x]

(* What Change does to the numbers of a place.                             *)
LEMMA ChangeMore ==
    ASSUME NEW held \in Held, NEW M \in SUBSET Mbufs
    PROVE  More(Change(held, M, 1), held, M)
  BY DEF Change, Held, More

(* Nothing is taken from a place that is not there.                        *)
LEMMA ChangeLess ==
    ASSUME NEW held \in Held, NEW M \in SUBSET Mbufs, \A m \in M : held[m] > 0
    PROVE  Less(Change(held, M, -1), held, M)
  BY DEF Change, Held, Less

(* The empty sequence adds nothing to a number.                            *)
LEMMA NothingMore ==
    ASSUME NEW a \in Nat, NEW x
    PROVE  a = a + Count(<< >>, x)
  <1>1. Count(<< >>, x) = 0
    BY CountShort, Zenon
  <1> QED
    BY <1>1

\* One mbuf more in a place, one less in the pool.
MovedToNic(a, f, n, r) == (a - 1) + f + (n + 1) + r = a + f + n + r
MovedToTx(a, f, n, r, y, b) == ((a - 1) + f + n + r) + ((y + 1) + b) = (a + f + n + r) + (y + b)

(* The sums stay as they were.                                             *)
LEMMA MoveArithmetic ==
    ASSUME NEW a \in Nat, NEW f \in Nat, NEW n \in Nat, NEW r \in Nat, NEW y \in Nat, NEW b \in Nat
    PROVE  MovedToNic(a, f, n, r) /\ MovedToTx(a, f, n, r, y, b)
  BY DEF MovedToNic, MovedToTx

(* bond_broadcast: copies go from the pool to the slaves.                  *)
LEMMA BondBroadcastGives ==
    ASSUME NEW s, PlacesOK(s), NEW w \in Queues, NEW accepted
    PROVE  Gives(s, BondBroadcast(s, w, accepted), w, << >>)
  <1>1. /\ s \in Places /\ s.avail \in Held /\ s.nic \in Held
    BY DEF PlacesOK, Places
  <1>2. PICK M \in SUBSET Mbufs : M = Several(s, w, Cardinality(accepted)) /\ \A m \in M : s.avail[m] > 0
    BY SeveralAreFree
  <1>3. PICK avail2 : avail2 = Change(s.avail, M, -1) /\ Less(avail2, s.avail, M)
    BY <1>1, <1>2, ChangeLess, Zenon
  <1>4. PICK nic2 : nic2 = Change(s.nic, M, 1) /\ More(nic2, s.nic, M)
    BY <1>1, ChangeMore, Zenon
  <1>5. PICK t : t = [s EXCEPT !.avail = avail2, !.nic = nic2]
    OBVIOUS
  <1>6. BondBroadcast(s, w, accepted) = t
    BY <1>2, <1>3, <1>4, <1>5, Zenon DEF BondBroadcast
  <1>7. /\ t \in Places /\ t.avail = avail2 /\ t.nic = nic2
        /\ t.batch = s.batch /\ t.tx = s.tx /\ t.ring = s.ring /\ t.fifo = s.fifo
    BY <1>1, <1>3, <1>4, <1>5 DEF Places, More, Less
  <1>8. PlacesOK(t)
    BY <1>7 DEF PlacesOK
  <1>9. ASSUME NEW x \in Mbufs
        PROVE  Shared(t, x) = Shared(s, x) + Count(<< >>, x)
    <2>1. /\ s.avail[x] \in Nat /\ s.fifo[x] \in Nat /\ s.nic[x] \in Nat
          /\ Count(s.ring, x) \in Nat /\ Shared(s, x) \in Nat
      BY <1>1, SumParts
    <2>2. Shared(t, x) = avail2[x] + s.fifo[x] + nic2[x] + Count(s.ring, x)
      BY <1>7 DEF Shared
    <2>3. Shared(t, x) = Shared(s, x)
      <3>1. CASE x \in M
        <4>1. MovedToNic(s.avail[x], s.fifo[x], s.nic[x], Count(s.ring, x))
          BY <2>1, MoveArithmetic, Zenon
        <4>2. avail2[x] = s.avail[x] - 1 /\ nic2[x] = s.nic[x] + 1
          BY <1>3, <1>4, <3>1 DEF More, Less
        <4> QED
          BY <2>2, <4>1, <4>2, Zenon DEF MovedToNic, Shared
      <3>2. CASE x \notin M
        <4>1. avail2[x] = s.avail[x] /\ nic2[x] = s.nic[x]
          BY <1>3, <1>4, <3>2 DEF More, Less
        <4> QED
          BY <2>2, <4>1, Zenon DEF Shared
      <3> QED
        BY <3>1, <3>2
    <2>4. Shared(s, x) = Shared(s, x) + Count(<< >>, x)
      BY <2>1, NothingMore, Zenon
    <2> QED
      BY <2>3, <2>4, Zenon
  <1>10. << >> \in Seq(Mbufs)
    OBVIOUS
  <1> QED
    BY <1>6, <1>7, <1>8, <1>9, <1>10, SharedGives, Zenon

(* lldp_send: packets go from the pool to the worker's transmit queue.     *)
LEMMA LldpSendGives ==
    ASSUME NEW s, PlacesOK(s), NEW w \in Queues
    PROVE  Gives(s, LldpSend(s, w), w, << >>)
  <1>1. /\ s \in Places /\ s.avail \in Held /\ s.tx \in [Queues -> Held] /\ s.tx[w] \in Held
    BY DEF PlacesOK, Places
  <1>2. PICK M \in SUBSET Mbufs : M = Several(s, w, 2 * PCI_NUM) /\ \A m \in M : s.avail[m] > 0
    BY SeveralAreFree
  <1>3. PICK avail2 : avail2 = Change(s.avail, M, -1) /\ Less(avail2, s.avail, M)
    BY <1>1, <1>2, ChangeLess, Zenon
  <1>4. PICK txw : txw = Change(s.tx[w], M, 1) /\ More(txw, s.tx[w], M)
    BY <1>1, ChangeMore, Zenon
  <1>5. PICK t : t = [s EXCEPT !.avail = avail2, !.tx[w] = txw]
    OBVIOUS
  <1>6. LldpSend(s, w) = t
    BY <1>2, <1>3, <1>4, <1>5, Zenon DEF LldpSend
  <1>7. /\ t.avail = avail2 /\ t.tx = [s.tx EXCEPT ![w] = txw]
        /\ t.batch = s.batch /\ t.nic = s.nic /\ t.ring = s.ring /\ t.fifo = s.fifo
    BY <1>1, <1>5 DEF Places
  <1>8. t \in Places
    <2>1. [s.tx EXCEPT ![w] = txw] \in [Queues -> Held]
      BY <1>1, <1>4 DEF More
    <2> QED
      BY <1>1, <1>3, <1>5, <2>1 DEF Places, Less
  <1>9. PlacesOK(t)
    BY <1>7, <1>8 DEF PlacesOK
  <1>10. t.tx[w] = txw /\ \A v \in Queues \ {w} : t.tx[v] = s.tx[v]
    BY <1>1, <1>7
  <1>11. \A v \in Queues \ {w}, x \in Mbufs : Private(t, v, x) = Private(s, v, x)
    BY <1>7, <1>10 DEF Private
  <1>12. ASSUME NEW x \in Mbufs
         PROVE  Sum(t, w, x) = Sum(s, w, x) + Count(<< >>, x)
    <2>1. /\ s.avail[x] \in Nat /\ s.fifo[x] \in Nat /\ s.nic[x] \in Nat /\ s.tx[w][x] \in Nat
          /\ Count(s.ring, x) \in Nat /\ Count(s.batch[w], x) \in Nat /\ Sum(s, w, x) \in Nat
      BY <1>1, SumParts
    <2>2. /\ Shared(t, x) = avail2[x] + s.fifo[x] + s.nic[x] + Count(s.ring, x)
          /\ Private(t, w, x) = txw[x] + Count(s.batch[w], x)
      BY <1>7, <1>10 DEF Shared, Private
    <2>3. Sum(t, w, x) = Sum(s, w, x)
      <3>1. CASE x \in M
        <4>1. MovedToTx(s.avail[x], s.fifo[x], s.nic[x], Count(s.ring, x), s.tx[w][x],
                        Count(s.batch[w], x))
          BY <2>1, MoveArithmetic, Zenon
        <4>2. avail2[x] = s.avail[x] - 1 /\ txw[x] = s.tx[w][x] + 1
          BY <1>3, <1>4, <3>1 DEF More, Less
        <4> QED
          BY <2>2, <4>1, <4>2, Zenon DEF MovedToTx, Shared, Private, Sum
      <3>2. CASE x \notin M
        <4>1. avail2[x] = s.avail[x] /\ txw[x] = s.tx[w][x]
          BY <1>3, <1>4, <3>2 DEF More, Less
        <4> QED
          BY <2>2, <4>1, Zenon DEF Shared, Private, Sum
      <3> QED
        BY <3>1, <3>2
    <2>4. Sum(s, w, x) = Sum(s, w, x) + Count(<< >>, x)
      BY <2>1, NothingMore, Zenon
    <2> QED
      BY <2>3, <2>4, Zenon
  <1>13. Gives(s, t, w, << >>)
    BY <1>9, <1>11, <1>12 DEF Gives
  <1> QED
    BY <1>6, <1>13, Zenon

(* A packet leaves the transmit queue and is freed.                        *)
LEMMA TxOutGives ==
    ASSUME NEW s, PlacesOK(s), NEW w \in Queues, NEW m \in Mbufs, s.tx[w][m] > 0
    PROVE  Gives(s, MbufFree([s EXCEPT !.tx[w][m] = @ - 1], m), w, << >>)
  <1> DEFINE t == [s EXCEPT !.tx[w][m] = @ - 1]
  <1>1. /\ s \in Places /\ s.tx \in [Queues -> [Mbufs -> Nat]] /\ s.tx[w][m] - 1 \in Nat
        /\ <<m>> \in Seq(Mbufs)
    BY DEF PlacesOK, Places, Held
  <1>2. /\ t.tx = [s.tx EXCEPT ![w][m] = s.tx[w][m] - 1]
        /\ t.batch = s.batch /\ t.ring = s.ring
    BY <1>1 DEF Places
  <1>3. t \in Places
    <2>1. t.tx \in [Queues -> Held]
      BY <1>1, <1>2 DEF Held
    <2> QED
      BY <1>1, <1>2, <2>1 DEF Places
  <1>4. PlacesOK(t)
    BY <1>2, <1>3 DEF PlacesOK
  <1>5. TxSend(t, w, m) = s
    <2>1. [t.tx EXCEPT ![w][m] = t.tx[w][m] + 1] = s.tx
      BY <1>1, <1>2
    <2>2. TxSend(t, w, m) = [s EXCEPT !.tx = s.tx]
      BY <1>1, <2>1 DEF TxSend, Places
    <2> QED
      BY <1>1, <2>2 DEF Places
  <1> HIDE DEF t
  <1>6. Gives(t, s, w, <<m>>)
    BY <1>4, <1>5, TxSendGives
  <1>7. Gives(t, MbufFree(t, m), w, <<m>>)
    BY <1>4, MbufFreeGives
  <1>8. Gives(s, MbufFree(t, m), w, << >>)
    BY <1>1, <1>3, <1>6, <1>7, TakeAndGive, Zenon
  <1> QED
    BY <1>8 DEF t

(* A slave of the bond sends a packet and frees it.                        *)
LEMMA NicDoneGives ==
    ASSUME NEW s, PlacesOK(s), NEW w \in Queues, NEW m \in Mbufs, s.nic[m] > 0
    PROVE  Gives(s, MbufFree([s EXCEPT !.nic[m] = @ - 1], m), w, << >>)
  <1> DEFINE t == [s EXCEPT !.nic[m] = @ - 1]
  <1>1. /\ s \in Places /\ s.nic \in [Mbufs -> Nat] /\ s.nic[m] - 1 \in Nat
        /\ <<m>> \in Seq(Mbufs)
    BY DEF PlacesOK, Places, Held
  <1>2. /\ t.nic = [s.nic EXCEPT ![m] = s.nic[m] - 1]
        /\ t.avail = s.avail /\ t.batch = s.batch /\ t.tx = s.tx /\ t.ring = s.ring /\ t.fifo = s.fifo
    BY <1>1 DEF Places
  <1>3. t \in Places
    <2>1. t.nic \in Held
      BY <1>1, <1>2 DEF Held
    <2> QED
      BY <1>1, <1>2, <2>1 DEF Places
  <1>4. PlacesOK(t)
    BY <1>2, <1>3 DEF PlacesOK
  <1> HIDE DEF t
  <1>5. ASSUME NEW x \in Mbufs
        PROVE  Shared(s, x) = Shared(t, x) + Count(<<m>>, x)
    <2>1. /\ t.avail[x] \in Nat /\ t.fifo[x] \in Nat /\ t.nic[x] \in Nat
          /\ Count(t.ring, x) \in Nat /\ Count(<<m>>, x) \in Nat
      BY <1>1, <1>3, SumParts, CountConcat
    <2>2. s.nic[x] = t.nic[x] + Count(<<m>>, x)
      <3>1. Count(<<m>>, x) = IF x = m THEN 1 ELSE 0
        BY CountShort, Zenon
      <3>2. t.nic[x] = IF x = m THEN s.nic[x] - 1 ELSE s.nic[x]
        BY <1>1, <1>2
      <3>3. s.nic[x] \in Nat
        BY <1>1
      <3> QED
        BY <3>1, <3>2, <3>3
    <2>3. ThirdGets(t.avail[x], t.fifo[x], t.nic[x], Count(t.ring, x), Count(<<m>>, x))
      BY <2>1, Shifts, Zenon
    <2>4. Shared(s, x) = t.avail[x] + t.fifo[x] + (t.nic[x] + Count(<<m>>, x)) + Count(t.ring, x)
      BY <1>2, <2>2, Zenon DEF Shared
    <2> QED
      BY <2>3, <2>4, Zenon DEF ThirdGets, Shared
  <1>6. Gives(t, s, w, <<m>>)
    BY <1>1, <1>2, <1>4, <1>5, SharedGives, Zenon
  <1>7. Gives(t, MbufFree(t, m), w, <<m>>)
    BY <1>4, MbufFreeGives
  <1>8. Gives(s, MbufFree(t, m), w, << >>)
    BY <1>1, <1>3, <1>6, <1>7, TakeAndGive, Zenon
  <1> QED
    BY <1>8 DEF t

(* The kernel frees a packet it was given.                                 *)
LEMMA KernelDoneGives ==
    ASSUME NEW s, PlacesOK(s), NEW w \in Queues, NEW m \in Mbufs, s.fifo[m] > 0
    PROVE  Gives(s, MbufFree([s EXCEPT !.fifo[m] = @ - 1], m), w, << >>)
  <1> DEFINE t == [s EXCEPT !.fifo[m] = @ - 1]
  <1>1. /\ s \in Places /\ s.fifo \in [Mbufs -> Nat] /\ s.fifo[m] - 1 \in Nat
        /\ <<m>> \in Seq(Mbufs)
    BY DEF PlacesOK, Places, Held
  <1>2. /\ t.fifo = [s.fifo EXCEPT ![m] = s.fifo[m] - 1]
        /\ t.avail = s.avail /\ t.batch = s.batch /\ t.tx = s.tx /\ t.ring = s.ring /\ t.nic = s.nic
    BY <1>1 DEF Places
  <1>3. t \in Places
    <2>1. t.fifo \in Held
      BY <1>1, <1>2 DEF Held
    <2> QED
      BY <1>1, <1>2, <2>1 DEF Places
  <1>4. PlacesOK(t)
    BY <1>2, <1>3 DEF PlacesOK
  <1> HIDE DEF t
  <1>5. ASSUME NEW x \in Mbufs
        PROVE  Shared(s, x) = Shared(t, x) + Count(<<m>>, x)
    <2>1. /\ t.avail[x] \in Nat /\ t.fifo[x] \in Nat /\ t.nic[x] \in Nat
          /\ Count(t.ring, x) \in Nat /\ Count(<<m>>, x) \in Nat
      BY <1>1, <1>3, SumParts, CountConcat
    <2>2. s.fifo[x] = t.fifo[x] + Count(<<m>>, x)
      <3>1. Count(<<m>>, x) = IF x = m THEN 1 ELSE 0
        BY CountShort, Zenon
      <3>2. t.fifo[x] = IF x = m THEN s.fifo[x] - 1 ELSE s.fifo[x]
        BY <1>1, <1>2
      <3>3. s.fifo[x] \in Nat
        BY <1>1
      <3> QED
        BY <3>1, <3>2, <3>3
    <2>3. SecondGets(t.avail[x], t.fifo[x], t.nic[x], Count(t.ring, x), Count(<<m>>, x))
      BY <2>1, Shifts, Zenon
    <2>4. Shared(s, x) = t.avail[x] + (t.fifo[x] + Count(<<m>>, x)) + t.nic[x] + Count(t.ring, x)
      BY <1>2, <2>2, Zenon DEF Shared
    <2> QED
      BY <2>3, <2>4, Zenon DEF SecondGets, Shared
  <1>6. Gives(t, s, w, <<m>>)
    BY <1>1, <1>2, <1>4, <1>5, SharedGives, Zenon
  <1>7. Gives(t, MbufFree(t, m), w, <<m>>)
    BY <1>4, MbufFreeGives
  <1>8. Gives(s, MbufFree(t, m), w, << >>)
    BY <1>1, <1>3, <1>6, <1>7, TakeAndGive, Zenon
  <1> QED
    BY <1>8 DEF t
-----------------------------------------------------------------------------
(* The handlers: each puts the mbuf of the frame away, and nothing else.   *)

(* What a bond does before a neighbour message is sent.                    *)
LEMMA ArpSendGives ==
    ASSUME NEW s, PlacesOK(s), NEW w \in Queues, NEW m \in Mbufs, NEW slaves, NEW bond
    PROVE  Gives(s, TxSend(IF bond THEN BondBroadcast(s, w, slaves) ELSE s, w, m), w, <<m>>)
  <1>1. PICK t : t = IF bond THEN BondBroadcast(s, w, slaves) ELSE s
    OBVIOUS
  <1>2. Gives(s, t, w, << >>)
    BY <1>1, BondBroadcastGives, GivesNothing, Zenon
  <1>3. PlacesOK(t) /\ s \in Places
    BY <1>2, Zenon DEF Gives, PlacesOK
  <1>4. Gives(t, TxSend(t, w, m), w, <<m>>)
    BY <1>3, TxSendGives, Zenon
  <1>5. Gives(s, TxSend(t, w, m), w, <<m>>)
    BY <1>2, <1>3, <1>4, GivesThenGives, Zenon
  <1> QED
    BY <1>1, <1>5, Zenon

(* arp_process: the kernel interface gets a copy of an ARP packet.         *)
LEMMA ArpProcessGives ==
    ASSUME NEW s, PlacesOK(s), NEW w \in Queues, NEW m \in Mbufs, NEW f, NEW taken \in Nat, NEW slaves
    PROVE  Gives(s, ArpProcess(s, w, m, f, taken, slaves), w, <<m>>)
  <1>1. PICK t : t = IF conf.kni THEN KniBroadcast(s, w, TRUE, taken) ELSE s
    OBVIOUS
  <1>2. Gives(s, t, w, << >>)
    BY <1>1, KniBroadcastGives, GivesNothing, Zenon
  <1>3. PlacesOK(t) /\ s \in Places
    BY <1>2, Zenon DEF Gives, PlacesOK
  <1>4. Gives(t, MbufFree(t, m), w, <<m>>)
    BY <1>3, MbufFreeGives, Zenon
  <1>5. Gives(t, ArpSend(t, w, m, slaves), w, <<m>>)
    BY <1>3, ArpSendGives, Zenon DEF ArpSend
  <1>6. Gives(t, ArpProcessRequest(t, w, m, f, slaves), w, <<m>>)
    BY <1>4, <1>5, Zenon DEF ArpProcessRequest
  <1>7. PICK u : u = IF f.op = "req" THEN ArpProcessRequest(t, w, m, f, slaves) ELSE MbufFree(t, m)
    OBVIOUS
  <1>8. Gives(t, u, w, <<m>>)
    BY <1>4, <1>6, <1>7, Zenon
  <1>9. ArpProcess(s, w, m, f, taken, slaves) = u
    BY <1>1, <1>7, Zenon DEF ArpProcess
  <1> QED
    BY <1>2, <1>3, <1>8, <1>9, GivesThenGives, Zenon

(* icmp_process.                                                           *)
LEMMA IcmpProcessGives ==
    ASSUME NEW s, PlacesOK(s), NEW w \in Queues, NEW m \in Mbufs, NEW f, NEW taken \in Nat
    PROVE  Gives(s, IcmpProcess(s, w, m, f, taken), w, <<m>>)
  BY TxSendGives, KniRecvGives, MbufFreeGives, Zenon DEF IcmpProcess

(* icmp6_ns_process: a neighbour solicitation.                             *)
LEMMA Icmp6NsProcessGives ==
    ASSUME NEW s, PlacesOK(s), NEW w \in Queues, NEW m \in Mbufs, NEW f, NEW taken \in Nat, NEW slaves
    PROVE  Gives(s, Icmp6NsProcess(s, w, m, f, taken, slaves), w, <<m>>)
  <1>1. CASE ~Ip6Exist(f) \/ f.flaw = "hops"
    BY <1>1, MbufFreeGives, Zenon DEF Icmp6NsProcess
  <1>2. CASE ~(~Ip6Exist(f) \/ f.flaw = "hops")
    <2>1. PICK t : t = KniBroadcast(s, w, conf.kni, taken)
      OBVIOUS
    <2>2. Gives(s, t, w, << >>)
      BY <2>1, KniBroadcastGives, Zenon
    <2>3. PlacesOK(t) /\ s \in Places
      BY <2>2, Zenon DEF Gives, PlacesOK
    <2>4. Gives(t, MbufFree(t, m), w, <<m>>)
      BY <2>3, MbufFreeGives, Zenon
    <2>5. Gives(t, Icmp6Send(t, w, m, slaves), w, <<m>>)
      BY <2>3, ArpSendGives, Zenon DEF Icmp6Send
    <2>6. PICK u : u = IF conf.ignore /\ f.to = "local" THEN MbufFree(t, m)
                       ELSE Icmp6Send(t, w, m, slaves)
      OBVIOUS
    <2>7. Gives(t, u, w, <<m>>)
      BY <2>4, <2>5, <2>6, Zenon
    <2>8. Icmp6NsProcess(s, w, m, f, taken, slaves) = u
      BY <1>2, <2>1, <2>6, Zenon DEF Icmp6NsProcess
    <2> QED
      BY <2>2, <2>3, <2>7, <2>8, GivesThenGives, Zenon
  <1> QED
    BY <1>1, <1>2

(* icmp6_process.                                                          *)
LEMMA Icmp6ProcessGives ==
    ASSUME NEW s, PlacesOK(s), NEW w \in Queues, NEW m \in Mbufs, NEW f, NEW taken \in Nat, NEW slaves
    PROVE  Gives(s, Icmp6Process(s, w, m, f, taken, slaves), w, <<m>>)
  <1>1. /\ Gives(s, MbufFree(s, m), w, <<m>>)
        /\ Gives(s, TxSend(s, w, m), w, <<m>>)
        /\ Gives(s, KniRecv(s, w, <<m>>, TRUE, taken), w, <<m>>)
    BY MbufFreeGives, TxSendGives, KniRecvGives, Zenon
  <1>2. Gives(s, Icmp6EchoProcess(s, w, m, f), w, <<m>>)
    BY <1>1, Zenon DEF Icmp6EchoProcess
  <1>3. Gives(s, Icmp6NaProcess(s, w, m, taken), w, <<m>>)
    BY <1>1, Zenon DEF Icmp6NaProcess
  <1>4. Gives(s, Icmp6NsProcess(s, w, m, f, taken, slaves), w, <<m>>)
    BY Icmp6NsProcessGives, Zenon
  <1> QED
    BY <1>1, <1>2, <1>3, <1>4 DEF Icmp6Process

(* TCP and UDP packets, before the loop runs and in it.                    *)
LEMMA L4InputGives ==
    ASSUME NEW s, PlacesOK(s), NEW w \in Queues, NEW m \in Mbufs, NEW f, NEW taken \in Nat,
           NEW found \in BOOLEAN, L3Input(f) \in {"tcp", "udp"}
    PROVE  Gives(s, L4Input(s, w, m, f, taken, found), w, <<m>>)
  <1>1. /\ Gives(s, MbufFree(s, m), w, <<m>>)
        /\ Gives(s, MbufFree2(s, w, m), w, <<m>>)
        /\ Gives(s, TxSend(s, w, m), w, <<m>>)
        /\ Gives(s, KniRecv(s, w, <<m>>, TRUE, taken), w, <<m>>)
    BY MbufFreeGives, MbufFree2Gives, TxSendGives, KniRecvGives, Zenon
  <1>2. /\ Gives(s, TcpDrop(s, w, m, f, taken), w, <<m>>)
        /\ Gives(s, UdpDrop(s, w, m, f, taken), w, <<m>>)
        /\ Gives(s, TcpReplyRst(s, w, m), w, <<m>>)
        /\ Gives(s, UdpProcess(s, w, m, f, taken, found), w, <<m>>)
    BY <1>1, Zenon DEF TcpDrop, UdpDrop, TcpReplyRst, UdpProcess
  <1>3. Gives(s, TcpProcess(s, w, m, f, taken, found), w, <<m>>)
    BY <1>1, <1>2 DEF TcpProcess
  <1> QED
    BY <1>2, <1>3 DEF L4Input

(* The layer-3 entry always finds a handler.                               *)
LEMMA L3InputKnown ==
    ASSUME conf \in ConfType, NEW f \in FrameType
    PROVE  L3Input(f) \in {"free", "kni", "arp", "icmp", "icmp6", "tcp", "udp"}
  <1>1. Unknown \in {"kni", "free"}
    BY DEF Unknown
  <1>2. f.proto \in {"tcp", "udp", "icmp", "other"} /\ conf.l3 \in {"ipv4", "ipv6", "vxlan"}
    BY DEF FrameType, ConfType
  <1>3. Ipv4Input(f) \in {"free", "kni", "arp", "icmp", "tcp", "udp"}
    BY <1>1, <1>2 DEF Ipv4Input
  <1>4. Ipv6Input(f) \in {"free", "kni", "icmp6", "tcp", "udp"}
    BY <1>1, <1>2 DEF Ipv6Input
  <1>5. VxlanInput(f) \in {"free", "kni", "arp", "icmp", "tcp", "udp"}
    BY <1>1, <1>2 DEF VxlanInput
  <1> QED
    BY <1>2, <1>3, <1>4, <1>5 DEF L3Input

(* Whatever arrives, the handler puts its mbuf away.                       *)
LEMMA HandleGives ==
    ASSUME NEW s, PlacesOK(s), NEW w \in Queues, NEW m \in Mbufs, conf \in ConfType,
           NEW f \in FrameType, NEW taken \in Nat, NEW slaves, NEW found \in BOOLEAN
    PROVE  Gives(s, Handle(s, w, m, f, taken, slaves, found), w, <<m>>)
  <1>1. L3Input(f) \in {"free", "kni", "arp", "icmp", "icmp6", "tcp", "udp"}
    BY L3InputKnown
  <1>2. /\ Gives(s, MbufFree(s, m), w, <<m>>)
        /\ Gives(s, KniRecv(s, w, <<m>>, TRUE, taken), w, <<m>>)
        /\ Gives(s, ArpProcess(s, w, m, f, taken, slaves), w, <<m>>)
        /\ Gives(s, IcmpProcess(s, w, m, f, taken), w, <<m>>)
        /\ Gives(s, Icmp6Process(s, w, m, f, taken, slaves), w, <<m>>)
    BY MbufFreeGives, KniRecvGives, ArpProcessGives, IcmpProcessGives, Icmp6ProcessGives, Zenon
  <1>3. L3Input(f) \in {"tcp", "udp"} => Gives(s, L4Input(s, w, m, f, taken, found), w, <<m>>)
    BY L4InputGives, Zenon
  <1> QED
    BY <1>1, <1>2, <1>3 DEF Handle

(* arp_request_gw2, icmp6_ns_request: the request is an mbuf of the pool.  *)
LEMMA RequestGw2Gives ==
    ASSUME NEW s, PlacesOK(s), 0 \in Queues, NEW slaves
    PROVE  Gives(s, RequestGw2(s, slaves), 0, << >>)
  <1>1. CASE ~CanAlloc(s, 0)
    BY <1>1, GivesNothing, Zenon DEF RequestGw2
  <1>2. CASE CanAlloc(s, 0)
    <2>1. PICK m \in Mbufs : m = NextMbuf(s, 0) /\ s.avail[m] > 0
      BY <1>2, NextMbufIsFree, Zenon
    <2>2. PlacesOK(Take(s, m))
      BY <2>1, TakeGives, Zenon
    <2>3. Gives(Take(s, m), ArpSend(Take(s, m), 0, m, slaves), 0, <<m>>)
      BY <2>2, ArpSendGives, Zenon DEF ArpSend
    <2>4. RequestGw2(s, slaves) = ArpSend(Take(s, m), 0, m, slaves)
      BY <1>2, <2>1, Zenon DEF RequestGw2
    <2>5. Gives(Take(s, NextMbuf(s, 0)), RequestGw2(s, slaves), 0, <<NextMbuf(s, 0)>>)
      BY <2>1, <2>3, <2>4, Zenon
    <2> QED
      BY <1>2, <2>5, AllocAndGive, Zenon
  <1> QED
    BY <1>1, <1>2

(* neigh_resolve_gateway_mac_address.                                      *)
LEMMA ResolveGives ==
    ASSUME NEW s, PlacesOK(s), NEW w \in Queues, NEW slaves
    PROVE  Gives(s, Resolve(s, w, slaves), w, << >>)
  <1>1. CASE w # 0
    BY <1>1, GivesNothing, Zenon DEF Resolve
  <1>2. CASE w = 0
    <2>1. PICK t : t = RequestGw2(s, slaves)
      OBVIOUS
    <2>2. Gives(s, t, 0, << >>) /\ s \in Places
      BY <1>2, <2>1, RequestGw2Gives, Zenon DEF PlacesOK
    <2>3. Gives(t, RequestGw2(t, slaves), 0, << >>)
      BY <1>2, <2>2, RequestGw2Gives, Zenon DEF Gives
    <2>4. Gives(s, RequestGw2(t, slaves), 0, << >>)
      BY <1>2, <2>2, <2>3, GivesThenGives, Zenon
    <2>5. Gives(s, ArpRequestGw(s, slaves), 0, << >>)
      BY <2>1, <2>2, <2>4, Zenon DEF ArpRequestGw
    <2>6. Gives(s, Icmp6NsRequest(s, slaves), 0, << >>)
      BY <2>1, <2>2, Zenon DEF Icmp6NsRequest
    <2> QED
      BY <1>2, <2>5, <2>6, Zenon DEF Resolve
  <1> QED
    BY <1>1, <1>2

(* kni_send.                                                               *)
LEMMA KniSendGives ==
    ASSUME NEW s, PlacesOK(s), 0 \in Queues, NEW f, NEW slaves
    PROVE  Gives(s, KniSend(s, f, slaves), 0, << >>)
  <1>1. CASE ~CanAlloc(s, 0)
    BY <1>1, GivesNothing, Zenon DEF KniSend
  <1>2. CASE CanAlloc(s, 0)
    <2>1. PICK m \in Mbufs : m = NextMbuf(s, 0) /\ s.avail[m] > 0
      BY <1>2, NextMbufIsFree, Zenon
    <2>2. PICK t : t = Take(s, m)
      OBVIOUS
    <2>3. PlacesOK(t)
      BY <2>1, <2>2, TakeGives, Zenon
    <2>4. PICK bond \in BOOLEAN :
             bond <=> (conf.bond4 /\ (f.eth = "arp"
                         \/ (f.eth = "ip6" /\ f.proto = "icmp" /\ f.op \in {"req", "rep"})))
      OBVIOUS
    <2>5. PICK u : u = TxSend(IF bond THEN BondBroadcast(t, 0, slaves) ELSE t, 0, m)
      OBVIOUS
    <2>6. Gives(t, u, 0, <<m>>)
      BY <2>3, <2>5, ArpSendGives, Zenon
    <2>7. KniSend(s, f, slaves) = u
      BY <1>2, <2>1, <2>2, <2>4, <2>5 DEF KniSend
    <2>8. Gives(Take(s, NextMbuf(s, 0)), u, 0, <<NextMbuf(s, 0)>>)
      BY <2>1, <2>2, <2>6, Zenon
    <2> QED
      BY <1>2, <2>7, <2>8, AllocAndGive, Zenon
  <1> QED
    BY <1>1, <1>2

(* slow_timer_run: three calls, each of which puts nothing away.           *)
LEMMA SlowTimerGives ==
    ASSUME NEW s, PlacesOK(s), NEW w \in Queues, NEW taken \in Nat, NEW f, NEW slaves,
           NEW kni, NEW out, NEW lldp, NEW s0, NEW s1, NEW s2,
           s0 = IF kni THEN KniRecv(s, w, << >>, TRUE, taken) ELSE s,
           s1 = IF kni /\ w = 0 /\ out THEN KniSend(s0, f, slaves) ELSE s0,
           s2 = IF lldp THEN LldpSend(s1, w) ELSE s1
    PROVE  Gives(s, s2, w, << >>)
  <1>0. PICK m \in Mbufs : TRUE
    <2>1. <<w, 1>> \in Mbufs
      BY MbufAssumption DEF Mbufs
    <2> QED
      BY <2>1
  <1>1. Gives(s, s0, w, << >>)
    BY KniRecvGives, GivesNothing, Zenon
  <1>2. PlacesOK(s0) /\ s \in Places
    BY <1>1, Zenon DEF Gives, PlacesOK
  <1>3. Gives(s0, s1, w, << >>)
    <2>1. Gives(s0, s0, w, << >>)
      BY <1>2, GivesNothing, Zenon
    <2>2. w = 0 => Gives(s0, KniSend(s0, f, slaves), w, << >>)
      BY <1>2, KniSendGives, Zenon
    <2> QED
      BY <2>1, <2>2, Zenon
  <1>4. PlacesOK(s1) /\ s0 \in Places
    BY <1>2, <1>3, Zenon DEF Gives, PlacesOK
  <1>5. Gives(s1, s2, w, << >>)
    BY <1>4, LldpSendGives, GivesNothing, Zenon
  <1>6. Gives(s0, s2, w, << >>)
    BY <1>3, <1>4, <1>5, GivesThenGives, Zenon
  <1> QED
    BY <1>1, <1>2, <1>6, GivesThenGives, Zenon
-----------------------------------------------------------------------------
(* The invariant.                                                          *)

\* An mbuf held by n shared places and by worker w own[w] times has one owner.
One(n, own) ==
    \/ n = 1 /\ \A w \in Queues : own[w] = 0
    \/ n = 0 /\ \E w \in Queues : own[w] = 1 /\ \A v \in Queues \ {w} : own[v] = 0

Hand(u, w, m) == IF u[w].m = m THEN 1 ELSE 0
Owns(s, u, m) == [w \in Queues |-> Private(s, w, m) + Hand(u, w, m)]

(* A worker that moves an mbuf between its own places and the shared ones  *)
(* leaves it with one owner.                                               *)
LEMMA OneKept ==
    ASSUME NEW n \in Nat, NEW k \in Nat, NEW own \in [Queues -> Nat], NEW own2 \in [Queues -> Nat],
           NEW w \in Queues, k + own2[w] = n + own[w],
           \A v \in Queues \ {w} : own2[v] = own[v], One(n, own)
    PROVE  One(k, own2)
  <1>1. CASE n = 1 /\ \A v \in Queues : own[v] = 0
    <2>1. (k = 1 /\ own2[w] = 0) \/ (k = 0 /\ own2[w] = 1)
      BY <1>1
    <2> QED
      BY <1>1, <2>1 DEF One
  <1>2. ASSUME NEW v \in Queues, n = 0, own[v] = 1, \A y \in Queues \ {v} : own[y] = 0
        PROVE  One(k, own2)
    <2>1. CASE v = w
      <3>1. (k = 1 /\ own2[w] = 0) \/ (k = 0 /\ own2[w] = 1)
        BY <1>2, <2>1
      <3> QED
        BY <1>2, <2>1, <3>1 DEF One
    <2>2. CASE v # w
      <3>1. k = 0 /\ own2[w] = 0 /\ own2[v] = 1
        BY <1>2, <2>2
      <3> QED
        BY <1>2, <2>2, <3>1 DEF One
    <2> QED
      BY <2>1, <2>2
  <1> QED
    BY <1>1, <1>2 DEF One

(* OneOwner in these terms.                                                *)
LEMMA OneOwnerMeans ==
    OneOwner <=> \A m \in Mbufs : One(Shared(mem, m), Owns(mem, upd, m))
  BY DEF OneOwner, One, Owns, Hand

(* The same in the next state.                                             *)
LEMMA OneOwnerNext ==
    OneOwner' <=> \A m \in Mbufs : One(Shared(mem', m), Owns(mem', upd', m))
  BY DEF OneOwner, One, Owns, Hand

\* Only worker w has put mbufs away or taken them, and the sums are what they were.
Steps(s, t, u, u2, w) ==
    /\ PlacesOK(t)
    /\ \A x \in Mbufs : Sum(t, w, x) + Hand(u2, w, x) = Sum(s, w, x) + Hand(u, w, x)
    /\ \A v \in Queues \ {w}, x \in Mbufs : Private(t, v, x) = Private(s, v, x)
    /\ \A v \in Queues \ {w} : u2[v] = u[v]

\* Regrouping of the sum of an mbuf.
Regroup(a, b, c) == (a + b) + c = a + (b + c)

(* It holds for all numbers.                                               *)
LEMMA RegroupArithmetic ==
    ASSUME NEW a \in Nat, NEW b \in Nat, NEW c \in Nat
    PROVE  Regroup(a, b, c)
  BY DEF Regroup

(* Such a step leaves every mbuf with one owner.                           *)
LEMMA StepsKeep ==
    ASSUME PlacesOK(mem), OneOwner, NEW w \in Queues, Steps(mem, mem', upd, upd', w)
    PROVE  OneOwner'
  <1>1. mem \in Places /\ mem' \in Places
    BY DEF PlacesOK, Steps
  <1> SUFFICES ASSUME NEW m \in Mbufs PROVE One(Shared(mem', m), Owns(mem', upd', m))
    BY OneOwnerNext
  <1>2. /\ Shared(mem, m) \in Nat /\ Shared(mem', m) \in Nat
        /\ \A v \in Queues : Private(mem, v, m) \in Nat /\ Private(mem', v, m) \in Nat
    BY <1>1, SumParts
  <1>3. \A v \in Queues : Hand(upd, v, m) \in Nat /\ Hand(upd', v, m) \in Nat
    BY DEF Hand
  <1>4. PICK own, own2 : own = Owns(mem, upd, m) /\ own2 = Owns(mem', upd', m)
    OBVIOUS
  <1>5. own \in [Queues -> Nat] /\ own2 \in [Queues -> Nat]
    BY <1>2, <1>3, <1>4 DEF Owns
  <1>6. \A v \in Queues : /\ own[v] = Private(mem, v, m) + Hand(upd, v, m)
                          /\ own2[v] = Private(mem', v, m) + Hand(upd', v, m)
    BY <1>4 DEF Owns
  <1>7. \A v \in Queues \ {w} : own2[v] = own[v]
    BY <1>6 DEF Steps, Hand
  <1>8. Shared(mem', m) + own2[w] = Shared(mem, m) + own[w]
    <2>1. /\ Regroup(Shared(mem, m), Private(mem, w, m), Hand(upd, w, m))
          /\ Regroup(Shared(mem', m), Private(mem', w, m), Hand(upd', w, m))
      BY <1>2, <1>3, RegroupArithmetic, Zenon
    <2>2. Sum(mem', w, m) + Hand(upd', w, m) = Sum(mem, w, m) + Hand(upd, w, m)
      BY DEF Steps
    <2> QED
      BY <1>6, <2>1, <2>2, Zenon DEF Regroup, Sum
  <1>9. One(Shared(mem, m), own)
    BY <1>4, OneOwnerMeans
  <1>10. One(Shared(mem', m), own2)
    BY <1>2, <1>5, <1>7, <1>8, <1>9, OneKept, SMTT(30)
  <1> QED
    BY <1>4, <1>10, Zenon

(* A worker that holds the same mbuf in hand before and after the step.    *)
LEMMA SameHand ==
    ASSUME PlacesOK(mem), NEW w \in Queues, Gives(mem, mem', w, << >>), UNCHANGED upd
    PROVE  Steps(mem, mem', upd, upd', w)
  <1>1. \A x \in Mbufs : Sum(mem, w, x) \in Nat /\ Count(<< >>, x) = 0
    BY SumParts, CountShort DEF PlacesOK
  <1>2. \A x \in Mbufs : Sum(mem', w, x) = Sum(mem, w, x)
    BY <1>1 DEF Gives
  <1> QED
    BY <1>2 DEF Steps, Gives

\* The rest of the state, and what a worker that updates has in hand.
RestTypes ==
    /\ conf \in ConfType
    /\ poll \in [Queues -> [i : 0 .. NEIGH_SEC - 1, j : 0 .. POLLS]]
    /\ stale \subseteq Queues

Holding ==
    \A w \in Queues : /\ Busy(w) => upd[w].m \in Mbufs
                      /\ ~Busy(w) => upd[w].m = NO_MBUF

OwnInv == GwInv /\ RestTypes /\ Holding /\ PlacesOK(mem) /\ OneOwner

(* At the start all mbufs are in the pools.                                *)
LEMMA InitOwnInv == Init => OwnInv
  <1> SUFFICES ASSUME Init PROVE OwnInv
    OBVIOUS
  <1>1. GwInv
    BY InitGwInv
  <1>2. RestTypes
    <2>1. 0 \in 0 .. NEIGH_SEC - 1 /\ 0 \in 0 .. POLLS
      BY RxAssumption
    <2> QED
      BY <2>1, RxAssumption DEF Init, RestTypes
  <1>3. Holding
    BY DEF Init, Holding, Busy, NoUpdate
  <1>4. mem = AllFree /\ upd = [w \in Queues |-> NoUpdate]
    BY DEF Init
  <1>5. /\ None \in Held /\ [m \in Mbufs |-> 1] \in Held /\ << >> \in Seq(Mbufs)
        /\ \A m \in Mbufs : None[m] = 0
    BY DEF None, Held
  <1>6. PlacesOK(mem)
    <2>1. mem \in Places
      BY <1>4, <1>5 DEF AllFree, Places
    <2>2. \A w \in Queues : mem.batch[w] = << >>
      BY <1>4 DEF AllFree
    <2>3. mem.ring = << >>
      BY <1>4 DEF AllFree
    <2> QED
      BY <2>1, <2>2, <2>3, MbufAssumption DEF PlacesOK
  <1>7. OneOwner
    <2> SUFFICES ASSUME NEW m \in Mbufs PROVE One(Shared(mem, m), Owns(mem, upd, m))
      BY OneOwnerMeans
    <2>1. /\ mem.avail[m] = 1 /\ mem.fifo[m] = 0 /\ mem.nic[m] = 0 /\ mem.ring = << >>
          /\ \A w \in Queues : mem.tx[w][m] = 0 /\ mem.batch[w] = << >>
      BY <1>4, <1>5 DEF AllFree
    <2>2. Count(<< >>, m) = 0
      BY CountShort, Zenon
    <2>3. Shared(mem, m) = 1 /\ \A w \in Queues : Private(mem, w, m) = 0
      BY <2>1, <2>2 DEF Shared, Private
    <2>4. \A w \in Queues : Hand(upd, w, m) = 0
      BY <1>4, RxAssumption DEF Hand, NoUpdate
    <2>5. \A w \in Queues : Owns(mem, upd, m)[w] = 0
      BY <2>3, <2>4 DEF Owns
    <2> QED
      BY <2>3, <2>5 DEF One
  <1> QED
    BY <1>1, <1>2, <1>3, <1>6, <1>7 DEF OwnInv

(* server_recv_mbuf: the mbuf of a frame comes from the pool, and the      *)
(* handler puts it away.                                                   *)
LEMMA RecvSteps ==
    ASSUME OwnInv, NEW w \in Queues, NEW f \in Frames, Recv(w, f)
    PROVE  Steps(mem, mem', upd, upd', w)
  <1>1. PlacesOK(mem) /\ CanAlloc(mem, w) /\ UNCHANGED upd /\ conf \in ConfType /\ f \in FrameType
    BY RxAssumption DEF OwnInv, RestTypes, Recv, Receives, gwvars
  <1>2. PICK taken \in 0 .. 1, slaves \in SUBSET (1 .. PCI_NUM), found \in BOOLEAN :
           mem' = Handle(Take(mem, NextMbuf(mem, w)), w, NextMbuf(mem, w), f, taken, slaves, found)
    BY DEF Recv
  <1>3. PICK m \in Mbufs : m = NextMbuf(mem, w) /\ mem.avail[m] > 0
    BY <1>1, NextMbufIsFree, Zenon
  <1>4. PlacesOK(Take(mem, m)) /\ taken \in Nat
    <2>1. PlacesOK(Take(mem, m))
      BY <1>1, <1>3, TakeGives, Zenon
    <2>2. taken \in Nat
      OBVIOUS
    <2> QED
      BY <2>1, <2>2
  <1>5. Gives(Take(mem, m), Handle(Take(mem, m), w, m, f, taken, slaves, found), w, <<m>>)
    BY <1>1, <1>4, HandleGives, Zenon
  <1>6. Gives(Take(mem, NextMbuf(mem, w)), mem', w, <<NextMbuf(mem, w)>>)
    BY <1>2, <1>3, <1>5, Zenon
  <1>7. Gives(mem, mem', w, << >>)
    BY <1>1, <1>6, AllocAndGive, Zenon
  <1> QED
    BY <1>1, <1>7, SameHand, Zenon

(* The gateway's answer stays in the worker's hand.                        *)
LEMMA RecvGatewaySteps ==
    ASSUME OwnInv, NEW w \in Queues, NEW f \in Frames, RecvGateway(w, f)
    PROVE  Steps(mem, mem', upd, upd', w) /\ upd'[w].m \in Mbufs
  <1>1. /\ PlacesOK(mem) /\ CanAlloc(mem, w) /\ ~Busy(w)
        /\ upd[w].m = NO_MBUF /\ upd \in [Queues -> UpdType]
    BY DEF OwnInv, Holding, RecvGateway, Receives, GwInv, GwTypes
  <1>2. PICK m \in Mbufs : m = NextMbuf(mem, w) /\ mem.avail[m] > 0
    BY <1>1, NextMbufIsFree, Zenon
  <1>3. PICK t : t = Take(mem, m)
    OBVIOUS
  <1>4. PlacesOK(t) /\ Gives(t, mem, w, <<m>>)
    BY <1>1, <1>2, <1>3, TakeGives, Zenon
  <1>5. PICK taken \in 0 .. 1 :
           mem' = IF conf.kni /\ L3Input(f) = "arp" THEN KniBroadcast(t, w, TRUE, taken) ELSE t
    BY <1>2, <1>3 DEF RecvGateway
  <1>6. taken \in Nat
    OBVIOUS
  <1>7. Gives(t, mem', w, << >>)
    BY <1>4, <1>5, <1>6, KniBroadcastGives, GivesNothing, Zenon
  <1>8. upd' = [upd EXCEPT ![w] = [at |-> -1, mac |-> f.mac, m |-> m]]
    BY <1>2 DEF RecvGateway
  <1>9. upd'[w].m = m /\ \A v \in Queues \ {w} : upd'[v] = upd[v]
    BY <1>1, <1>8
  <1>10. ASSUME NEW x \in Mbufs
         PROVE  Sum(mem', w, x) + Hand(upd', w, x) = Sum(mem, w, x) + Hand(upd, w, x)
    <2>1. Count(<< >>, x) = 0 /\ Count(<<m>>, x) = IF x = m THEN 1 ELSE 0
      BY CountShort
    <2>2. Sum(t, w, x) \in Nat /\ Sum(mem, w, x) \in Nat
      BY <1>1, <1>4, SumParts DEF PlacesOK
    <2>3. Sum(mem, w, x) = Sum(t, w, x) + Count(<<m>>, x)
      BY <1>4 DEF Gives
    <2>4. Sum(mem', w, x) = Sum(t, w, x) + Count(<< >>, x)
      BY <1>7 DEF Gives
    <2>5. Hand(upd, w, x) = 0 /\ Hand(upd', w, x) = IF x = m THEN 1 ELSE 0
      BY <1>1, <1>9, RxAssumption DEF Hand
    <2> HIDE DEF Sum, Hand
    <2> QED
      BY <2>1, <2>2, <2>3, <2>4, <2>5
  <1>11. \A v \in Queues \ {w}, x \in Mbufs : Private(mem', v, x) = Private(mem, v, x)
    BY <1>4, <1>7 DEF Gives
  <1> QED
    BY <1>7, <1>9, <1>10, <1>11 DEF Steps, Gives

(* While it updates the worker keeps the answer.                           *)
LEMMA UpdateSteps ==
    ASSUME OwnInv, NEW w \in Queues, UpdatePort(w) \/ UpdateWorker(w)
    PROVE  Steps(mem, mem', upd, upd', w) /\ upd'[w].m \in Mbufs
  <1>1. PlacesOK(mem) /\ mem' = mem /\ upd \in [Queues -> UpdType] /\ upd[w].m \in Mbufs
    BY DEF OwnInv, Holding, GwInv, GwTypes, UpdatePort, UpdateWorker
  <1>2. \E n : upd' = [upd EXCEPT ![w].at = n]
    BY DEF UpdatePort, UpdateWorker
  <1>3. upd'[w].m = upd[w].m /\ \A v \in Queues \ {w} : upd'[v] = upd[v]
    BY <1>1, <1>2 DEF UpdType
  <1>4. \A x \in Mbufs : Hand(upd', w, x) = Hand(upd, w, x)
    BY <1>3 DEF Hand
  <1> QED
    BY <1>1, <1>3, <1>4 DEF Steps

(* At the end of the update the answer is put away.                        *)
LEMMA UpdateEndSteps ==
    ASSUME OwnInv, NEW w \in Queues, UpdateEnd(w)
    PROVE  Steps(mem, mem', upd, upd', w)
  <1>1. /\ PlacesOK(mem) /\ upd \in [Queues -> UpdType]
        /\ upd' = [upd EXCEPT ![w] = NoUpdate]
    BY DEF OwnInv, GwInv, GwTypes, UpdateEnd
  <1>2. PICK m \in Mbufs : m = upd[w].m
    BY DEF OwnInv, Holding, UpdateEnd
  <1>3. PICK taken \in 0 .. 1 :
           mem' = IF conf.l3 = "ipv6" THEN Icmp6NaProcess(mem, w, m, taken) ELSE MbufFree(mem, m)
    BY <1>2 DEF UpdateEnd
  <1>4. taken \in Nat
    OBVIOUS
  <1>5. Gives(mem, Icmp6NaProcess(mem, w, m, taken), w, <<m>>)
    BY <1>1, <1>4, KniRecvGives, MbufFreeGives, Zenon DEF Icmp6NaProcess
  <1>6. Gives(mem, mem', w, <<m>>)
    BY <1>1, <1>3, <1>5, MbufFreeGives, Zenon
  <1>7. upd'[w].m = NO_MBUF /\ \A v \in Queues \ {w} : upd'[v] = upd[v]
    BY <1>1 DEF NoUpdate
  <1>8. ASSUME NEW x \in Mbufs
        PROVE  Sum(mem', w, x) + Hand(upd', w, x) = Sum(mem, w, x) + Hand(upd, w, x)
    <2>1. Count(<<m>>, x) = IF x = m THEN 1 ELSE 0
      BY CountShort
    <2>2. Sum(mem, w, x) \in Nat
      BY <1>1, SumParts DEF PlacesOK
    <2>3. Sum(mem', w, x) = Sum(mem, w, x) + Count(<<m>>, x)
      BY <1>6 DEF Gives
    <2>4. Hand(upd', w, x) = 0 /\ Hand(upd, w, x) = IF x = m THEN 1 ELSE 0
      BY <1>2, <1>7, RxAssumption DEF Hand
    <2> QED
      BY <2>1, <2>2, <2>3, <2>4
  <1> QED
    BY <1>6, <1>7, <1>8 DEF Steps, Gives

(* The other actions that move mbufs.                                      *)
LEMMA OtherSteps ==
    ASSUME OwnInv, NEW w \in Queues,
           NeighSecond(w) \/ SlowTimerRun(w) \/ Close(w) \/ TxOut(w) \/ NicDone \/ KernelDone
    PROVE  Steps(mem, mem', upd, upd', w)
  <1>1. PlacesOK(mem) /\ UNCHANGED upd
    BY DEF OwnInv, NeighSecond, SlowTimerRun, Close, TxOut, NicDone, KernelDone, gwvars
  <1>2. ASSUME NeighSecond(w) PROVE Gives(mem, mem', w, << >>)
    <2>1. PICK slaves : mem' = Resolve(mem, w, slaves)
      BY <1>2 DEF NeighSecond
    <2> QED
      BY <1>1, <2>1, ResolveGives, Zenon
  <1>3. ASSUME SlowTimerRun(w) PROVE Gives(mem, mem', w, << >>)
    <2>1. PICK taken \in 0 .. 1, slaves \in SUBSET (1 .. PCI_NUM),
               out \in {<<>>} \cup {<<f>> : f \in KernelFrames}, ms100 \in BOOLEAN :
             LET s0 == IF conf.kni THEN KniRecv(mem, w, <<>>, TRUE, taken) ELSE mem
                 s1 == IF conf.kni /\ w = 0 /\ out # <<>> THEN KniSend(s0, out[1], slaves) ELSE s0
             IN  mem' = IF conf.bond4 /\ ms100 THEN LldpSend(s1, w) ELSE s1
      BY <1>3 DEF SlowTimerRun
    <2>2. PICK s0 : s0 = IF conf.kni THEN KniRecv(mem, w, <<>>, TRUE, taken) ELSE mem
      OBVIOUS
    <2>3. PICK s1 : s1 = IF conf.kni /\ w = 0 /\ out # <<>> THEN KniSend(s0, out[1], slaves) ELSE s0
      OBVIOUS
    <2>4. mem' = IF conf.bond4 /\ ms100 THEN LldpSend(s1, w) ELSE s1
      BY <2>1, <2>2, <2>3, Zenon
    <2>5. taken \in Nat
      OBVIOUS
    <2> QED
      BY <1>1, <2>2, <2>3, <2>4, <2>5, SlowTimerGives, Zenon
  <1>4. ASSUME Close(w) PROVE Gives(mem, mem', w, << >>)
    BY <1>1, <1>4, MbufFree2FlushGives, Zenon DEF Close
  <1>5. ASSUME TxOut(w) PROVE Gives(mem, mem', w, << >>)
    BY <1>1, <1>5, TxOutGives, Zenon DEF TxOut
  <1>6. ASSUME NicDone PROVE Gives(mem, mem', w, << >>)
    BY <1>1, <1>6, NicDoneGives, Zenon DEF NicDone
  <1>7. ASSUME KernelDone PROVE Gives(mem, mem', w, << >>)
    BY <1>1, <1>7, KernelDoneGives, Zenon DEF KernelDone
  <1>8. Gives(mem, mem', w, << >>)
    BY <1>2, <1>3, <1>4, <1>5, <1>6, <1>7, Zenon
  <1> QED
    BY <1>1, <1>8, SameHand, Zenon

(* Steps that move no mbuf.                                                *)
LEMMA QuietSteps ==
    ASSUME OwnInv, NEW w \in Queues, UNCHANGED <<mem, upd>>
    PROVE  Steps(mem, mem', upd, upd', w)
  BY DEF OwnInv, Steps

(* The queue 0 exists.                                                     *)
LEMMA ZeroIsQueue == 0 \in Queues
  BY MbufAssumption DEF Queues

(* Every step of the workers is one of these.                              *)
LEMMA NextSteps ==
    ASSUME OwnInv, [Next]_vars
    PROVE  \E w \in Queues : Steps(mem, mem', upd, upd', w)
  <1>1. CASE UNCHANGED vars
    <2>1. UNCHANGED <<mem, upd>>
      BY <1>1 DEF vars, gwvars
    <2> QED
      BY <2>1, QuietSteps, ZeroIsQueue, Zenon
  <1>2. ASSUME NEW w \in Queues, NEW f \in Frames, Recv(w, f) \/ RecvGateway(w, f)
        PROVE  Steps(mem, mem', upd, upd', w)
    BY <1>2, RecvSteps, RecvGatewaySteps, Zenon
  <1>3. ASSUME NEW w \in Queues, UpdatePort(w) \/ UpdateWorker(w)
        PROVE  Steps(mem, mem', upd, upd', w)
    BY <1>3, UpdateSteps, Zenon
  <1>4. ASSUME NEW w \in Queues, UpdateEnd(w)
        PROVE  Steps(mem, mem', upd, upd', w)
    BY <1>4, UpdateEndSteps, Zenon
  <1>5. ASSUME NEW w \in Queues, NeighSecond(w) \/ SlowTimerRun(w) \/ Close(w) \/ TxOut(w)
        PROVE  Steps(mem, mem', upd, upd', w)
    BY <1>5, OtherSteps, Zenon
  <1>6. ASSUME NicDone \/ KernelDone
        PROVE  Steps(mem, mem', upd, upd', 0)
    BY <1>6, OtherSteps, ZeroIsQueue, Zenon
  <1>7. ASSUME NEW w \in Queues, NeighFound(w) \/ NeighPoll(w) \/ SendData(w)
        PROVE  Steps(mem, mem', upd, upd', w)
    <2>1. UNCHANGED <<mem, upd>>
      BY <1>7 DEF NeighFound, NeighPoll, SendData
    <2> QED
      BY <2>1, QuietSteps, Zenon
  <1>8. ASSUME ExitAll
        PROVE  Steps(mem, mem', upd, upd', 0)
    <2>1. UNCHANGED <<mem, upd>>
      BY <1>8 DEF ExitAll
    <2> QED
      BY <2>1, QuietSteps, ZeroIsQueue, Zenon
  <1> QED
    BY <1>1, <1>2, <1>3, <1>4, <1>5, <1>6, <1>7, <1>8, ZeroIsQueue, Zenon DEF Next

(* A worker has an mbuf in hand exactly while it updates.                  *)
LEMMA NextHolding ==
    ASSUME OwnInv, [Next]_vars
    PROVE  Holding'
  <1>1. Holding /\ upd \in [Queues -> UpdType]
    BY DEF OwnInv, GwInv, GwTypes
  <1>2. CASE UNCHANGED upd
    BY <1>1, <1>2 DEF Holding, Busy
  <1>3. ASSUME NEW w \in Queues, upd'[w].m \in Mbufs, Steps(mem, mem', upd, upd', w)
        PROVE  Holding'
    <2>1. upd'[w] # NoUpdate
      BY <1>3, RxAssumption DEF NoUpdate
    <2> QED
      BY <1>1, <1>3, <2>1 DEF Holding, Busy, Steps
  <1>4. ASSUME NEW w \in Queues, UpdateEnd(w)
        PROVE  Holding'
    <2>1. upd'[w] = NoUpdate /\ \A v \in Queues \ {w} : upd'[v] = upd[v]
      BY <1>1, <1>4 DEF UpdateEnd
    <2> QED
      BY <1>1, <2>1 DEF Holding, Busy, NoUpdate
  <1>5. ASSUME NEW w \in Queues, NEW f \in Frames, RecvGateway(w, f) PROVE Holding'
    BY <1>3, <1>5, RecvGatewaySteps, Zenon
  <1>6. ASSUME NEW w \in Queues, UpdatePort(w) \/ UpdateWorker(w) PROVE Holding'
    BY <1>3, <1>6, UpdateSteps, Zenon
  <1>7. CASE UNCHANGED vars
    <2>1. UNCHANGED upd
      BY <1>7 DEF vars, gwvars
    <2> QED
      BY <1>2, <2>1
  <1>8. ASSUME NEW w \in Queues, NEW f \in Frames, Recv(w, f) PROVE Holding'
    <2>1. UNCHANGED upd
      BY <1>8 DEF Recv, gwvars
    <2> QED
      BY <1>2, <2>1
  <1>9. ASSUME NEW w \in Queues, NeighSecond(w) \/ NeighFound(w) \/ NeighPoll(w)
               \/ SendData(w) \/ SlowTimerRun(w) \/ Close(w) \/ TxOut(w)
        PROVE  Holding'
    <2>1. UNCHANGED upd
      BY <1>9 DEF NeighSecond, NeighFound, NeighPoll, SendData, SlowTimerRun, Close, TxOut, gwvars
    <2> QED
      BY <1>2, <2>1
  <1>10. ASSUME NicDone \/ KernelDone \/ ExitAll PROVE Holding'
    <2>1. UNCHANGED upd
      BY <1>10 DEF NicDone, KernelDone, ExitAll, gwvars
    <2> QED
      BY <1>2, <2>1
  <1> QED
    BY <1>4, <1>5, <1>6, <1>7, <1>8, <1>9, <1>10, Zenon DEF Next

(* The loop counters of neigh_check_gateway stay in their ranges.          *)
LEMMA NextRestTypes ==
    ASSUME OwnInv, [Next]_vars
    PROVE  RestTypes'
  <1>1. RestTypes /\ POLLS \in Nat \ {0} /\ NEIGH_SEC \in Nat \ {0}
    BY RxAssumption DEF OwnInv
  <1>2. CASE UNCHANGED <<conf, poll, stale>>
    BY <1>1, <1>2 DEF RestTypes
  <1>3. ASSUME NEW w \in Queues, NeighSecond(w) PROVE RestTypes'
    BY <1>1, <1>3 DEF RestTypes, NeighSecond
  <1>4. ASSUME NEW w \in Queues, NeighPoll(w) PROVE RestTypes'
    BY <1>1, <1>4 DEF RestTypes, NeighPoll
  <1>5. ASSUME NEW w \in Queues, SendData(w) PROVE RestTypes'
    BY <1>1, <1>5 DEF RestTypes, SendData
  <1>6. \/ UNCHANGED <<conf, poll, stale>>
        \/ \E w \in Queues : NeighSecond(w) \/ NeighPoll(w) \/ SendData(w)
    BY DEF Next, vars, gwvars, Recv, RecvGateway, UpdatePort, UpdateWorker, UpdateEnd,
           NeighFound, SlowTimerRun, Close, TxOut, NicDone, KernelDone, ExitAll
  <1> QED
    BY <1>2, <1>3, <1>4, <1>5, <1>6, Zenon

(* The ownership invariant is inductive.                                   *)
LEMMA NextOwnInv == OwnInv /\ [Next]_vars => OwnInv'
  <1> SUFFICES ASSUME OwnInv, [Next]_vars PROVE OwnInv'
    OBVIOUS
  <1>1. PICK w \in Queues : Steps(mem, mem', upd, upd', w)
    BY NextSteps
  <1>2. OneOwner'
    BY <1>1, StepsKeep DEF OwnInv
  <1>3. PlacesOK(mem')
    BY <1>1 DEF Steps
  <1>4. GwInv'
    BY NextGwInv DEF OwnInv
  <1>5. Holding' /\ RestTypes'
    BY NextHolding, NextRestTypes
  <1> QED
    BY <1>2, <1>3, <1>4, <1>5 DEF OwnInv

(* No mbuf is lost, freed twice or owned twice: for every number of        *)
(* workers, mbufs and slaves, every ring and batch size, and every frame,  *)
(* each mbuf of a port is in one place, however the handlers of arp.c,     *)
(* icmp.c, icmp6.c, tcp.c, udp.c and kni.c, the copies of bond.c and       *)
(* lldp.c and the batches of mbuf_free2 pass it on.                        *)
THEOREM MbufsHaveOneOwner == Spec => []OneOwner
  <1>1. OwnInv => OneOwner
    BY DEF OwnInv
  <1> QED
    BY InitOwnInv, NextOwnInv, <1>1, PTL DEF Spec

(* The batch of mbuf_free2 never fills its array and the ring never        *)
(* exceeds its size; all other variables have their types too.             *)
THEOREM RxTypes == Spec => []TypeOK
  <1>1. OwnInv => TypeOK
    BY DEF OwnInv, GwInv, GwTypes, UpdType, RestTypes, PlacesOK, TypeOK
  <1> QED
    BY InitOwnInv, NextOwnInv, <1>1, PTL DEF Spec
=============================================================================
