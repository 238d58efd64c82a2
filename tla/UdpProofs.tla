----------------------------- MODULE UdpProofs -----------------------------
(***************************************************************************)
(* Proofs about the timer queues, for every set of sockets and queues, and *)
(* about the UDP client that uses them: its timers, for every pool, every  *)
(* set of configurations and every duration.                               *)
(***************************************************************************)
EXTENDS Udp, TLAPS

\* The inductive invariant: types, and the pointers spell out the queues.
TimersInv == TimersTypeOK /\ QueuesLinked

Typed(nx, pv, hm, pl) ==
    /\ nx \in [Node -> Node]
    /\ pv \in [Node -> Node]
    /\ hm \in [Socket -> Queue \cup {NoQueue}]
    /\ pl \in [Socket -> Nat]

\* In linked queues the node before a member is in the same queue, and only a
\* socket outside all queues points to itself.
LEMMA LinkedFacts ==
    ASSUME NEW nx, NEW pv, NEW hm, NEW pl,
           Typed(nx, pv, hm, pl), Linked(nx, pv, hm, pl)
    PROVE  /\ \A n \in Node : HomeOf(hm, n) # NoQueue => HomeOf(hm, pv[n]) = HomeOf(hm, n)
           /\ \A s \in Socket : hm[s] # NoQueue => nx[s] # s /\ pv[s] # s
<1> USE SocketTimerAssumption DEF Typed
<1>1. ASSUME NEW n \in Node, HomeOf(hm, n) # NoQueue
      PROVE  HomeOf(hm, pv[n]) = HomeOf(hm, n)
  <2>1. pv[n] \in Node /\ nx[pv[n]] = n
    BY DEF Linked, Inverse
  <2>2. HomeOf(hm, pv[n]) # NoQueue
    <3> SUFFICES ASSUME HomeOf(hm, pv[n]) = NoQueue PROVE FALSE
      OBVIOUS
    <3>1. pv[n] \in Socket /\ hm[pv[n]] = NoQueue
      BY <2>1 DEF HomeOf, Node
    <3>2. nx[pv[n]] = pv[n]
      BY <3>1 DEF Linked, Unlinked
    <3> QED
      BY <3>2, <2>1, <1>1
  <2> QED
    BY <2>1, <2>2 DEF Linked, InOrder
<1>2. ASSUME NEW s \in Socket, hm[s] # NoQueue
      PROVE  nx[s] # s /\ pv[s] # s
  <2>1. s \in Node /\ HomeOf(hm, s) # NoQueue /\ PlaceOf(pl, s) = pl[s] /\ pl[s] \in Nat
    BY <1>2 DEF Node, HomeOf, PlaceOf
  <2>2. nx[s] # s
    BY <2>1 DEF Linked, InOrder
  <2> QED
    BY <2>1, <2>2 DEF Linked, Inverse
<1> QED
  BY <1>1, <1>2

\* At the start every list is empty.
LEMMA InitInv == TimersInit => TimersInv
<1> SUFFICES ASSUME TimersInit PROVE TimersInv
  OBVIOUS
<1>1. TimersTypeOK
  BY DEF TimersInit, TimersTypeOK, Node
<1>2. \A n \in Node : next[n] = n /\ prev[n] = n
  BY DEF TimersInit
<1>3. \A s \in Socket : home[s] = NoQueue /\ s \in Node
  BY DEF TimersInit, Node
<1>4. \A n \in Node : HomeOf(home, n) # NoQueue => n \notin Socket
  BY <1>3 DEF HomeOf
<1>5. Inverse(next, prev)
  BY <1>2 DEF Inverse
<1>6. Unlinked(next, home)
  BY <1>2, <1>3 DEF Unlinked
<1>7. InOrder(next, home, place)
  BY <1>2, <1>4 DEF InOrder
<1>8. UpToLast(prev, home, place) /\ Distinct(home, place)
  BY <1>3 DEF UpToLast, Distinct
<1> QED
  BY <1>1, <1>5, <1>6, <1>7, <1>8 DEF TimersInv, QueuesLinked, Linked

\* Removing a socket (socket_node_del) leaves the other members linked.
LEMMA Unlinking ==
    ASSUME TimersInv, NEW s \in Socket,
           NEW nx, nx = UnlinkedNext(s), NEW pv, pv = UnlinkedPrev(s),
           NEW hm, hm = [home EXCEPT ![s] = NoQueue], NEW pl, pl = UnlinkedPlace(s)
    PROVE  /\ Typed(nx, pv, hm, pl)
           /\ Linked(nx, pv, hm, pl)
<1> USE SocketTimerAssumption
<1>0. /\ Typed(next, prev, home, place)
      /\ Inverse(next, prev) /\ Unlinked(next, home) /\ InOrder(next, home, place)
      /\ UpToLast(prev, home, place) /\ Distinct(home, place)
      /\ Linked(next, prev, home, place)
  BY DEF TimersInv, TimersTypeOK, Typed, QueuesLinked, Linked
<1>1. /\ \A n \in Node : HomeOf(home, n) # NoQueue => HomeOf(home, prev[n]) = HomeOf(home, n)
      /\ \A t \in Socket : home[t] # NoQueue => next[t] # t /\ prev[t] # t
  BY <1>0, LinkedFacts
<1>2. s \in Node /\ next[s] \in Node /\ prev[s] \in Node
  BY <1>0 DEF Typed, Node
<1>3. /\ nx \in [Node -> Node]
      /\ pv \in [Node -> Node]
      /\ hm \in [Socket -> Queue \cup {NoQueue}]
  BY <1>0, <1>2 DEF Typed, UnlinkedNext, UnlinkedPrev
<1>4. /\ \A t \in Socket : place[t] \in Nat
      /\ \A t \in Socket : home[t] # NoQueue => place[t] >= 1
  <2>1. \A t \in Socket : place[t] \in Nat
    BY <1>0 DEF Typed
  <2>2. \A t \in Socket : home[t] # NoQueue => home[t] \in Queue /\ prev[home[t]] \in Node
    BY <1>0 DEF Typed, Node
  <2>3. \A n \in Node : PlaceOf(place, n) \in Nat
    BY <2>1 DEF PlaceOf
  <2> QED
    BY <2>1, <2>2, <2>3, <1>0 DEF UpToLast
<1>5. pl \in [Socket -> Nat]
  BY <1>4 DEF UnlinkedPlace
<1>6. Typed(nx, pv, hm, pl)
  BY <1>3, <1>5 DEF Typed
<1>7. CASE home[s] = NoQueue
  <2>1. next[s] = s
    BY <1>7, <1>0 DEF Unlinked
  <2>2. nx = next /\ pv = prev /\ hm = home
    BY <2>1, <1>7, <1>0 DEF UnlinkedNext, UnlinkedPrev, Typed
  <2>3. \A t \in Socket : t # s => pl[t] = place[t]
    BY <1>7, <1>4 DEF UnlinkedPlace
  <2>4. \A n \in Node : HomeOf(home, n) # NoQueue => PlaceOf(pl, n) = PlaceOf(place, n)
    BY <2>3, <1>7 DEF HomeOf, PlaceOf
  <2>5. InOrder(nx, hm, pl)
    <3> SUFFICES ASSUME NEW n \in Node, HomeOf(home, n) # NoQueue
                 PROVE  /\ HomeOf(home, next[n]) = HomeOf(home, n)
                        /\ next[n] \in Socket => pl[next[n]] = PlaceOf(pl, n) + 1
      BY <2>2 DEF InOrder
    <3>1. /\ HomeOf(home, next[n]) = HomeOf(home, n)
          /\ next[n] \in Socket => place[next[n]] = PlaceOf(place, n) + 1
      BY <1>0 DEF InOrder
    <3>2. next[n] \in Socket => pl[next[n]] = place[next[n]]
      BY <3>1, <2>3, <1>7 DEF HomeOf
    <3> QED
      BY <3>1, <3>2, <2>4
  <2>6. UpToLast(pv, hm, pl)
    <3> SUFFICES ASSUME NEW t \in Socket, home[t] # NoQueue
                 PROVE  pl[t] \in 1 .. PlaceOf(pl, prev[home[t]])
      BY <2>2 DEF UpToLast
    <3>1. home[t] \in Node /\ home[t] \in Queue /\ home[t] \notin Socket
      BY <1>0 DEF Typed, Node
    <3>2. prev[home[t]] \in Node /\ HomeOf(home, prev[home[t]]) # NoQueue
      BY <3>1, <1>0, <1>1 DEF HomeOf, Typed
    <3> QED
      BY <3>2, <2>3, <2>4, <1>0, <1>7 DEF UpToLast
  <2>7. Distinct(hm, pl)
    BY <2>2, <2>3, <1>0, <1>7 DEF Distinct
  <2> QED
    BY <1>6, <1>0, <2>2, <2>5, <2>6, <2>7 DEF Linked
<1>8. CASE home[s] # NoQueue
  <2> DEFINE q == home[s]
             a == prev[s]
             b == next[s]
  <2>1. /\ a # s /\ b # s /\ a \in Node /\ b \in Node
        /\ q \in Queue /\ q \notin Socket /\ q \in Node
        /\ HomeOf(home, a) = q /\ HomeOf(home, b) = q /\ HomeOf(home, s) = q
    BY <1>8, <1>1, <1>2, <1>0 DEF Typed, HomeOf, Node, InOrder
  <2>2. /\ nx = [next EXCEPT ![a] = b, ![s] = s]
        /\ pv = [prev EXCEPT ![b] = a, ![s] = s]
    BY <2>1 DEF UnlinkedNext, UnlinkedPrev
  <2>3. /\ nx[a] = b /\ nx[s] = s /\ pv[b] = a /\ pv[s] = s
        /\ \A n \in Node : n # a /\ n # s => nx[n] = next[n]
        /\ \A n \in Node : n # b /\ n # s => pv[n] = prev[n]
    BY <2>1, <2>2, <1>0, <1>2 DEF Typed
  <2>4. \A n \in Node : /\ prev[next[n]] = n /\ next[prev[n]] = n
                        /\ next[n] \in Node /\ prev[n] \in Node
    BY <1>0 DEF Inverse, Typed
  <2>5. Inverse(nx, pv)
    <3>1. ASSUME NEW n \in Node PROVE pv[nx[n]] = n
      <4>1. CASE n = a \/ n = s
        BY <4>1, <2>3
      <4>2. CASE n # a /\ n # s
        <5>1. nx[n] = next[n] /\ next[n] \in Node /\ prev[next[n]] = n
          BY <4>2, <2>3, <2>4
        <5>2. next[n] # s /\ next[n] # b
          BY <5>1, <4>2, <2>4, <1>2
        <5> QED
          BY <5>1, <5>2, <2>3
      <4> QED
        BY <4>1, <4>2
    <3>2. ASSUME NEW n \in Node PROVE nx[pv[n]] = n
      <4>1. CASE n = b \/ n = s
        BY <4>1, <2>3
      <4>2. CASE n # b /\ n # s
        <5>1. pv[n] = prev[n] /\ prev[n] \in Node /\ next[prev[n]] = n
          BY <4>2, <2>3, <2>4
        <5>2. prev[n] # s /\ prev[n] # a
          BY <5>1, <4>2, <2>4, <1>2
        <5> QED
          BY <5>1, <5>2, <2>3
      <4> QED
        BY <4>1, <4>2
    <3> QED
      BY <3>1, <3>2 DEF Inverse
  <2>6. /\ hm[s] = NoQueue
        /\ \A t \in Socket : t # s => hm[t] = home[t]
        /\ \A n \in Node : n # s => HomeOf(hm, n) = HomeOf(home, n)
    BY <1>0 DEF Typed, HomeOf
  <2>7. Unlinked(nx, hm)
    <3> SUFFICES ASSUME NEW t \in Socket, hm[t] = NoQueue, t # s
                 PROVE  nx[t] = t
      BY <2>3 DEF Unlinked
    <3>1. home[t] = NoQueue /\ t # a /\ t \in Node
      BY <2>1, <2>6, <1>8 DEF HomeOf, Node
    <3> QED
      BY <3>1, <2>3, <1>0 DEF Unlinked
  <2>8. \A t \in Socket : t # s =>
          pl[t] = IF home[t] = q /\ place[t] > place[s] THEN place[t] - 1 ELSE place[t]
    BY <1>8, <2>1 DEF UnlinkedPlace
  <2>9. \A t \in Socket : home[t] = q /\ t # s => place[t] # place[s]
    BY <1>0, <1>8 DEF Distinct
  <2>10. \A n \in Node : HomeOf(home, n) # NoQueue /\ next[n] \in Socket
            => place[next[n]] = PlaceOf(place, n) + 1
    BY <1>0 DEF InOrder
  <2>11. /\ PlaceOf(place, a) = place[s] - 1
         /\ b \in Socket => place[b] = place[s] + 1
         /\ PlaceOf(pl, a) = PlaceOf(place, a)
         /\ place[s] \in Nat
    <3>1. place[s] = PlaceOf(place, a) + 1
      BY <2>10, <2>1, <2>4, <1>8, <1>2
    <3>2. b \in Socket => place[b] = PlaceOf(place, s) + 1
      BY <2>10, <2>1, <1>8, <1>2
    <3>3. PlaceOf(place, a) \in Nat
      BY <1>4 DEF PlaceOf
    <3>4. a \in Socket => pl[a] = place[a]
      BY <2>8, <2>1, <3>1, <3>3, <1>4 DEF PlaceOf
    <3> QED
      BY <3>1, <3>2, <3>3, <3>4, <1>4 DEF PlaceOf
  <2>12. InOrder(nx, hm, pl)
    <3> SUFFICES ASSUME NEW n \in Node, HomeOf(hm, n) # NoQueue
                 PROVE  /\ HomeOf(hm, nx[n]) = HomeOf(hm, n)
                        /\ nx[n] \in Socket => pl[nx[n]] = PlaceOf(pl, n) + 1
      BY DEF InOrder
    <3>1. n # s
      BY <2>6, <1>2 DEF HomeOf
    <3>2. CASE n = a
      <4>1. HomeOf(hm, nx[n]) = HomeOf(hm, n)
        BY <3>2, <2>1, <2>3, <2>6
      <4>2. b \in Socket => pl[b] = place[b] - 1
        BY <2>8, <2>1, <2>11, <1>4 DEF HomeOf
      <4> QED
        BY <4>1, <4>2, <3>2, <2>3, <2>11
    <3>3. CASE n # a
      <4>1. /\ nx[n] = next[n] /\ next[n] # s /\ next[n] \in Node
            /\ HomeOf(home, n) # NoQueue
        BY <3>1, <3>3, <2>3, <2>4, <2>6
      <4>2. HomeOf(home, next[n]) = HomeOf(home, n)
        BY <4>1, <1>0 DEF InOrder
      <4>3. next[n] \in Socket => place[next[n]] = PlaceOf(place, n) + 1
        BY <4>1, <2>10
      <4>4. ASSUME next[n] \in Socket PROVE pl[next[n]] = PlaceOf(pl, n) + 1
        <5> DEFINE m == next[n]
        <5>1. m # s /\ home[m] = HomeOf(home, n) /\ place[m] = PlaceOf(place, n) + 1
          BY <4>1, <4>2, <4>3, <4>4 DEF HomeOf
        <5>2. CASE n \in Socket
          <6>1. /\ home[m] = home[n] /\ place[m] = place[n] + 1 /\ PlaceOf(pl, n) = pl[n]
                /\ place[n] \in Nat /\ place[m] \in Nat
            BY <5>1, <5>2, <4>4, <1>4 DEF HomeOf, PlaceOf
          <6>2. pl[n] = IF home[n] = q /\ place[n] > place[s] THEN place[n] - 1 ELSE place[n]
            BY <2>8, <3>1, <5>2
          <6>3. pl[m] = IF home[m] = q /\ place[m] > place[s] THEN place[m] - 1 ELSE place[m]
            BY <2>8, <5>1, <4>4
          <6>4. home[n] = q => place[n] # place[s] /\ place[m] # place[s]
            BY <2>9, <6>1, <3>1, <5>1, <5>2, <4>4
          <6> QED
            BY <6>1, <6>2, <6>3, <6>4, <2>11
        <5>3. CASE n \notin Socket
          <6>1. place[m] = 1 /\ PlaceOf(pl, n) = 0
            BY <5>1, <5>3 DEF PlaceOf
          <6>2. pl[m] = IF home[m] = q /\ place[m] > place[s] THEN place[m] - 1 ELSE place[m]
            BY <2>8, <5>1, <4>4
          <6>3. home[m] = q => place[m] # place[s] /\ place[s] >= 1
            BY <2>9, <1>4, <1>8, <5>1, <4>4
          <6> QED
            BY <6>1, <6>2, <6>3, <2>11
        <5> QED
          BY <5>2, <5>3
      <4> QED
        BY <4>1, <4>2, <4>4, <2>6, <3>1
    <3> QED
      BY <3>2, <3>3
  <2>13. UpToLast(pv, hm, pl)
    <3> SUFFICES ASSUME NEW t \in Socket, hm[t] # NoQueue
                 PROVE  pl[t] \in 1 .. PlaceOf(pl, pv[hm[t]])
      BY DEF UpToLast
    <3>1. t # s /\ hm[t] = home[t] /\ home[t] # NoQueue
      BY <2>6
    <3> DEFINE h == home[t]
               l == prev[h]
    <3>2. /\ h \in Queue /\ h \notin Socket /\ h \in Node /\ l \in Node
          /\ HomeOf(home, h) = h /\ HomeOf(home, l) = h
      BY <3>1, <1>0, <1>1 DEF Typed, Node, HomeOf
    <3>3. place[t] \in 1 .. PlaceOf(place, l) /\ place[t] \in Nat /\ place[t] >= 1
      BY <3>1, <1>0, <1>4 DEF UpToLast
    <3>4. l \in Socket
      BY <3>3 DEF PlaceOf
    <3>5. home[l] = h /\ place[l] \in Nat /\ place[t] <= place[l]
      BY <3>2, <3>3, <3>4, <1>4 DEF HomeOf, PlaceOf
    <3>6. pl[t] = IF h = q /\ place[t] > place[s] THEN place[t] - 1 ELSE place[t]
      BY <2>8, <3>1
    <3>7. place[s] >= 1 /\ (h = q => place[t] # place[s])
      BY <1>4, <1>8, <2>9, <3>1
    <3>8. CASE l = s
      <4>1. h = q /\ b = h
        BY <3>5, <3>8, <2>4, <3>2
      <4>2. pv[h] = a
        BY <4>1, <2>3
      <4>3. place[t] <= place[s] - 1
        BY <4>1, <3>5, <3>7, <3>8, <2>11, <3>3
      <4>4. pl[t] = place[t]
        BY <4>3, <3>6, <2>11, <3>3
      <4> QED
        BY <4>2, <4>3, <4>4, <3>1, <3>3, <2>11
    <3>9. CASE l # s
      <4>1. h # s /\ b # h
        BY <3>9, <2>4, <3>2, <1>2
      <4>2. pv[h] = l
        BY <4>1, <2>3, <3>2
      <4>3. pl[l] = IF h = q /\ place[l] > place[s] THEN place[l] - 1 ELSE place[l]
        BY <2>8, <3>4, <3>5, <3>9
      <4>4. h = q => place[l] # place[s] /\ place[s] <= place[l]
        <5>1. ASSUME h = q PROVE place[s] \in 1 .. PlaceOf(place, prev[h])
          BY <5>1, <1>0, <1>8 DEF UpToLast
        <5>2. PlaceOf(place, prev[h]) = place[l]
          BY <3>4 DEF PlaceOf
        <5> QED
          BY <5>1, <5>2, <2>9, <3>4, <3>5, <3>9, <2>11
      <4>5. PlaceOf(pl, pv[hm[t]]) = pl[l]
        BY <4>2, <3>1, <3>4 DEF PlaceOf
      <4> QED
        BY <4>3, <4>4, <4>5, <3>3, <3>5, <3>6, <3>7, <2>11
    <3> QED
      BY <3>8, <3>9
  <2>14. Distinct(hm, pl)
    <3> SUFFICES ASSUME NEW t \in Socket, NEW u \in Socket,
                        hm[t] # NoQueue, hm[t] = hm[u], pl[t] = pl[u]
                 PROVE  t = u
      BY DEF Distinct
    <3>1. t # s /\ u # s /\ home[t] # NoQueue /\ home[t] = home[u]
      BY <2>6
    <3>2. place[t] = place[u]
      BY <3>1, <2>8, <2>9, <2>11, <1>4
    <3> QED
      BY <3>1, <3>2, <1>0 DEF Distinct
  <2> QED
    BY <1>6, <2>5, <2>7, <2>12, <2>13, <2>14 DEF Linked
<1> QED
  BY <1>7, <1>8

\* Pushing a socket that is in no queue (socket_queue_push) appends it.
LEMMA Pushing ==
    ASSUME NEW nx, NEW pv, NEW hm, NEW pl,
           Typed(nx, pv, hm, pl), Linked(nx, pv, hm, pl),
           NEW q \in Queue, NEW s \in Socket, hm[s] = NoQueue,
           NEW nx2, nx2 = PushedNext(nx, pv, q, s),
           NEW pv2, pv2 = PushedPrev(pv, q, s),
           NEW hm2, hm2 = [hm EXCEPT ![s] = q],
           NEW pl2, pl2 = [pl EXCEPT ![s] = PlaceOf(pl, pv[q]) + 1]
    PROVE  /\ Typed(nx2, pv2, hm2, pl2)
           /\ Linked(nx2, pv2, hm2, pl2)
<1> USE SocketTimerAssumption
<1> DEFINE l == pv[q]
<1>1. /\ \A n \in Node : HomeOf(hm, n) # NoQueue => HomeOf(hm, pv[n]) = HomeOf(hm, n)
      /\ \A t \in Socket : hm[t] # NoQueue => nx[t] # t /\ pv[t] # t
  BY LinkedFacts
<1>2. /\ s \in Node /\ q \in Node /\ q \notin Socket /\ q # s /\ l \in Node
      /\ HomeOf(hm, q) = q /\ HomeOf(hm, l) = q /\ l # s
      /\ nx[s] = s /\ pv[s] = s
  <2>1. s \in Node /\ q \in Node /\ q \notin Socket /\ q # s /\ l \in Node
    BY DEF Typed, Node
  <2>2. HomeOf(hm, q) = q /\ HomeOf(hm, l) = q
    BY <2>1, <1>1 DEF HomeOf
  <2>3. nx[s] = s
    BY DEF Linked, Unlinked
  <2>4. pv[s] = s
    BY <2>1, <2>3 DEF Linked, Inverse
  <2> QED
    BY <2>1, <2>2, <2>3, <2>4 DEF HomeOf
<1>3. /\ \A n \in Node : /\ pv[nx[n]] = n /\ nx[pv[n]] = n
                         /\ nx[n] \in Node /\ pv[n] \in Node
      /\ nx[l] = q
  BY <1>2 DEF Linked, Inverse, Typed
<1>4. /\ nx2 = [nx EXCEPT ![s] = q, ![l] = s]
      /\ pv2 = [pv EXCEPT ![s] = l, ![q] = s]
  BY DEF PushedNext, PushedPrev
<1>5. /\ nx2[s] = q /\ nx2[l] = s /\ pv2[s] = l /\ pv2[q] = s
      /\ \A n \in Node : n # s /\ n # l => nx2[n] = nx[n]
      /\ \A n \in Node : n # s /\ n # q => pv2[n] = pv[n]
  BY <1>2, <1>4 DEF Typed
<1>6. /\ hm2[s] = q
      /\ \A t \in Socket : t # s => hm2[t] = hm[t]
      /\ \A n \in Node : n # s => HomeOf(hm2, n) = HomeOf(hm, n)
      /\ HomeOf(hm2, s) = q
  BY DEF Typed, HomeOf
<1>7. /\ PlaceOf(pl, l) \in Nat
      /\ pl2[s] = PlaceOf(pl, l) + 1
      /\ \A t \in Socket : t # s => pl2[t] = pl[t]
      /\ \A n \in Node : n # s => PlaceOf(pl2, n) = PlaceOf(pl, n)
      /\ PlaceOf(pl2, s) = PlaceOf(pl, l) + 1
      /\ \A t \in Socket : pl[t] \in Nat
  BY <1>2 DEF Typed, PlaceOf
<1>8. Typed(nx2, pv2, hm2, pl2)
  <2>1. nx2 \in [Node -> Node] /\ pv2 \in [Node -> Node]
    BY <1>2, <1>4 DEF Typed
  <2>2. hm2 \in [Socket -> Queue \cup {NoQueue}]
    BY DEF Typed
  <2>3. pl2 \in [Socket -> Nat]
    BY <1>7 DEF Typed
  <2> QED
    BY <2>1, <2>2, <2>3 DEF Typed
<1>9. Inverse(nx2, pv2)
  <2>1. ASSUME NEW n \in Node PROVE pv2[nx2[n]] = n
    <3>1. CASE n = s \/ n = l
      BY <3>1, <1>5
    <3>2. CASE n # s /\ n # l
      <4>1. nx2[n] = nx[n] /\ nx[n] \in Node /\ pv[nx[n]] = n
        BY <3>2, <1>5, <1>3
      <4>2. nx[n] # s /\ nx[n] # q
        BY <4>1, <3>2, <1>2
      <4> QED
        BY <4>1, <4>2, <1>5
    <3> QED
      BY <3>1, <3>2
  <2>2. ASSUME NEW n \in Node PROVE nx2[pv2[n]] = n
    <3>1. CASE n = s \/ n = q
      BY <3>1, <1>5
    <3>2. CASE n # s /\ n # q
      <4>1. pv2[n] = pv[n] /\ pv[n] \in Node /\ nx[pv[n]] = n
        BY <3>2, <1>5, <1>3
      <4>2. pv[n] # s /\ pv[n] # l
        BY <4>1, <3>2, <1>2, <1>3
      <4> QED
        BY <4>1, <4>2, <1>5
    <3> QED
      BY <3>1, <3>2
  <2> QED
    BY <2>1, <2>2 DEF Inverse
<1>10. Unlinked(nx2, hm2)
  <2> SUFFICES ASSUME NEW t \in Socket, hm2[t] = NoQueue PROVE nx2[t] = t
    BY DEF Unlinked
  <2>1. t # s /\ hm[t] = NoQueue /\ t \in Node
    BY <1>6 DEF Node
  <2>2. t # l
    BY <2>1, <1>2 DEF HomeOf
  <2> QED
    BY <2>1, <2>2, <1>5 DEF Linked, Unlinked
<1>11. InOrder(nx2, hm2, pl2)
  <2> SUFFICES ASSUME NEW n \in Node, HomeOf(hm2, n) # NoQueue
               PROVE  /\ HomeOf(hm2, nx2[n]) = HomeOf(hm2, n)
                      /\ nx2[n] \in Socket => pl2[nx2[n]] = PlaceOf(pl2, n) + 1
    BY DEF InOrder
  <2>1. CASE n = s
    BY <2>1, <1>2, <1>5, <1>6
  <2>2. CASE n = l
    BY <2>2, <1>2, <1>5, <1>6, <1>7
  <2>3. CASE n # s /\ n # l
    <3>1. nx2[n] = nx[n] /\ nx[n] \in Node /\ HomeOf(hm, n) # NoQueue
      BY <2>3, <1>3, <1>5, <1>6
    <3>2. nx[n] # s
      BY <2>3, <1>2, <1>3
    <3>3. /\ HomeOf(hm, nx[n]) = HomeOf(hm, n)
          /\ nx[n] \in Socket => pl[nx[n]] = PlaceOf(pl, n) + 1
      BY <3>1 DEF Linked, InOrder
    <3> QED
      BY <2>3, <3>1, <3>2, <3>3, <1>6, <1>7
  <2> QED
    BY <2>1, <2>2, <2>3
<1>12. \A t \in Socket : hm[t] # NoQueue =>
          /\ hm[t] \in Queue /\ hm[t] \in Node /\ hm[t] # s
          /\ pl[t] \in 1 .. PlaceOf(pl, pv[hm[t]])
  BY DEF Linked, UpToLast, Typed, Node
<1>13. UpToLast(pv2, hm2, pl2)
  <2> SUFFICES ASSUME NEW t \in Socket, hm2[t] # NoQueue
               PROVE  pl2[t] \in 1 .. PlaceOf(pl2, pv2[hm2[t]])
    BY DEF UpToLast
  <2>1. CASE t = s
    BY <2>1, <1>5, <1>6, <1>7
  <2>2. CASE t # s /\ hm[t] = q
    BY <2>2, <1>5, <1>6, <1>7, <1>12
  <2>3. CASE t # s /\ hm[t] # q
    <3>1. hm[t] # NoQueue /\ hm2[t] = hm[t] /\ pl2[t] = pl[t]
      BY <2>3, <1>6, <1>7
    <3>2. pv2[hm[t]] = pv[hm[t]] /\ pv[hm[t]] \in Node
      BY <2>3, <3>1, <1>12, <1>5, <1>3
    <3>3. pv[hm[t]] # s
      BY <3>1, <1>2, <1>3, <1>12
    <3> QED
      BY <3>1, <3>2, <3>3, <1>7, <1>12
  <2> QED
    BY <2>1, <2>2, <2>3
<1>14. Distinct(hm2, pl2)
  <2>1. \A t \in Socket : t # s /\ hm[t] = q => pl2[t] < pl2[s]
    BY <1>7, <1>12
  <2> SUFFICES ASSUME NEW t \in Socket, NEW u \in Socket,
                      hm2[t] # NoQueue, hm2[t] = hm2[u], pl2[t] = pl2[u]
               PROVE  t = u
    BY DEF Distinct
  <2>2. CASE t # s /\ u # s
    BY <2>2, <1>6, <1>7 DEF Linked, Distinct
  <2>3. CASE t = s /\ u # s
    BY <2>3, <2>1, <1>6, <1>7
  <2>4. CASE t # s /\ u = s
    BY <2>4, <2>1, <1>6, <1>7
  <2> QED
    BY <2>2, <2>3, <2>4
<1> QED
  BY <1>8, <1>9, <1>10, <1>11, <1>13, <1>14 DEF Linked

\* socket_del_timer keeps the queues linked.
LEMMA DelKeepsInv ==
    ASSUME TimersInv, NEW s \in Socket, SocketDelTimer(s)
    PROVE  TimersInv'
<1>1. Typed(next', prev', home', place') /\ Linked(next', prev', home', place')
  BY Unlinking DEF SocketDelTimer
<1> QED
  BY <1>1 DEF TimersInv, TimersTypeOK, QueuesLinked, Typed

\* socket_add_timer keeps the queues linked.
LEMMA AddKeepsInv ==
    ASSUME TimersInv, NEW q \in Queue, NEW s \in Socket, SocketAddTimer(q, s)
    PROVE  TimersInv'
<1> DEFINE nx == UnlinkedNext(s)
           pv == UnlinkedPrev(s)
           hm == [home EXCEPT ![s] = NoQueue]
           pl == UnlinkedPlace(s)
<1>1. Typed(nx, pv, hm, pl) /\ Linked(nx, pv, hm, pl)
  BY Unlinking
<1>2. hm[s] = NoQueue /\ home' = [hm EXCEPT ![s] = q]
  BY DEF TimersInv, TimersTypeOK, SocketAddTimer
<1>3. /\ next' = PushedNext(nx, pv, q, s)
      /\ prev' = PushedPrev(pv, q, s)
      /\ place' = [pl EXCEPT ![s] = PlaceOf(pl, pv[q]) + 1]
  BY DEF SocketAddTimer
<1>4. Typed(next', prev', home', place') /\ Linked(next', prev', home', place')
  <2> HIDE DEF nx, pv, hm, pl
  <2> QED
    BY <1>1, <1>2, <1>3, Pushing
<1> QED
  BY <1>4 DEF TimersInv, TimersTypeOK, QueuesLinked, Typed

\* Whatever is done with socket_add_timer, socket_del_timer and socket_close,
\* the intrusive lists of src/src/socket_timer.h stay well formed: each queue
\* holds exactly the sockets put into it and not removed, in that order.
THEOREM TimerQueuesLinked == TimersSpec => []QueuesLinked
<1>1. TimersInv /\ [TimersNext]_timers => TimersInv'
  <2> SUFFICES ASSUME TimersInv, [TimersNext]_timers PROVE TimersInv'
    OBVIOUS
  <2>1. ASSUME NEW s \in Socket, SocketDelTimer(s) PROVE TimersInv'
    BY <2>1, DelKeepsInv
  <2>2. ASSUME NEW s \in Socket, NEW q \in Queue, SocketAddTimer(q, s) PROVE TimersInv'
    BY <2>2, AddKeepsInv
  <2>3. CASE UNCHANGED timers
    BY <2>3 DEF TimersInv, TimersTypeOK, QueuesLinked, Linked, Inverse, Unlinked,
                InOrder, UpToLast, Distinct, HomeOf, PlaceOf, timers
  <2> QED
    BY <2>1, <2>2, <2>3 DEF TimersNext
<1>2. TimersInv => QueuesLinked
  BY DEF TimersInv
<1> QED
  BY InitInv, <1>1, <1>2, PTL DEF TimersSpec
-----------------------------------------------------------------------------
\* The inductive invariant.
UdpInv == TypeOK /\ QueuesLinked /\ Guarded /\ Discipline

-----------------------------------------------------------------------------
\* Facts about the queues.

\* Removing s changes neither the queue nor the order of the others.
LEMMA DelOrder ==
    ASSUME TimersInv, NEW s \in Socket, SocketDelTimer(s)
    PROVE  /\ home'[s] = NoQueue
           /\ \A t \in Socket : t # s => home'[t] = home[t]
           /\ \A t, u \in Socket :
                t # s /\ u # s /\ home[t] = home[u] /\ place'[t] < place'[u]
                    => place[t] < place[u]
<1>1. \A t \in Socket : place[t] \in Nat
  BY DEF TimersInv, TimersTypeOK
<1>2. home' = [home EXCEPT ![s] = NoQueue] /\ home \in [Socket -> Queue \cup {NoQueue}]
  BY DEF SocketDelTimer, TimersInv, TimersTypeOK
<1>3. \A t \in Socket : t # s => place'[t] =
          IF home[s] # NoQueue /\ home[t] = home[s] /\ place[t] > place[s]
          THEN place[t] - 1 ELSE place[t]
  BY DEF SocketDelTimer, UnlinkedPlace
<1>4. ASSUME NEW t \in Socket, NEW u \in Socket,
             t # s, u # s, home[t] = home[u], place'[t] < place'[u]
      PROVE  place[t] < place[u]
  BY <1>1, <1>3, <1>4
<1> QED
  BY <1>2, <1>4

\* Adding s to q puts it behind all members and leaves the others alone.
LEMMA AddOrder ==
    ASSUME TimersInv, NEW q \in Queue, NEW s \in Socket, SocketAddTimer(q, s)
    PROVE  /\ home'[s] = q
           /\ \A t \in Socket : t # s => home'[t] = home[t]
           /\ \A t, u \in Socket :
                t # s /\ u # s /\ home[t] = home[u] /\ place'[t] < place'[u]
                    => place[t] < place[u]
           /\ \A t \in Socket : home'[t] = q => ~(place'[s] < place'[t])
<1> USE SocketTimerAssumption
<1>1. \A t \in Socket : place[t] \in Nat
  BY DEF TimersInv, TimersTypeOK
<1>2. home' = [home EXCEPT ![s] = q] /\ home \in [Socket -> Queue \cup {NoQueue}]
  BY DEF SocketAddTimer, TimersInv, TimersTypeOK
<1>3. \A t \in Socket : t # s => place'[t] =
          IF home[s] # NoQueue /\ home[t] = home[s] /\ place[t] > place[s]
          THEN place[t] - 1 ELSE place[t]
  BY DEF SocketAddTimer, UnlinkedPlace
<1>4. ASSUME NEW t \in Socket, NEW u \in Socket,
             t # s, u # s, home[t] = home[u], place'[t] < place'[u]
      PROVE  place[t] < place[u]
  BY <1>1, <1>3, <1>4
<1>5. TimersInv'
  BY AddKeepsInv
<1>6. prev'[q] = s
  <2>1. UnlinkedPrev(s) \in [Node -> Node]
    BY Unlinking DEF Typed
  <2>2. prev' = [UnlinkedPrev(s) EXCEPT ![s] = UnlinkedPrev(s)[q], ![q] = s]
    BY DEF SocketAddTimer, PushedPrev
  <2>3. q \in Node
    BY DEF Node
  <2> QED
    BY <2>1, <2>2, <2>3
<1>7. ASSUME NEW t \in Socket, home'[t] = q PROVE ~(place'[s] < place'[t])
  <2>1. place'[t] \in 1 .. PlaceOf(place', prev'[q])
    BY <1>5, <1>7 DEF TimersInv, QueuesLinked, Linked, UpToLast
  <2>2. PlaceOf(place', prev'[q]) = place'[s] /\ place'[s] \in Nat
    BY <1>5, <1>6 DEF PlaceOf, TimersInv, TimersTypeOK
  <2> QED
    BY <2>1, <2>2
<1> QED
  BY <1>2, <1>4, <1>7

\* socket_queue_first: an empty list has no members, and otherwise the first
\* node is the member that was added before all others.
LEMMA FirstOfQueue ==
    ASSUME TimersInv, NEW q \in Queue
    PROVE  /\ next[q] = q => \A t \in Socket : home[t] # q
           /\ next[q] # q =>
                /\ next[q] \in Socket /\ home[next[q]] = q
                /\ \A t \in Socket : home[t] = q /\ t # next[q] => place[next[q]] < place[t]
<1> USE SocketTimerAssumption
<1>1. q \in Node /\ q \notin Socket /\ next[q] \in Node /\ HomeOf(home, q) = q /\ PlaceOf(place, q) = 0
  BY DEF Node, TimersInv, TimersTypeOK, HomeOf, PlaceOf
<1>2. \A t \in Socket : home[t] = q => place[t] \in 1 .. PlaceOf(place, prev[q])
  BY DEF TimersInv, QueuesLinked, Linked, UpToLast
<1>3. prev[next[q]] = q
  BY <1>1 DEF TimersInv, QueuesLinked, Linked, Inverse
<1>4. HomeOf(home, next[q]) = q /\ (next[q] \in Socket => place[next[q]] = 1)
  BY <1>1 DEF TimersInv, QueuesLinked, Linked, InOrder
<1>5. ASSUME next[q] = q, NEW t \in Socket PROVE home[t] # q
  BY <1>5, <1>1, <1>2, <1>3
<1>6. ASSUME next[q] # q PROVE next[q] \in Socket /\ home[next[q]] = q
  BY <1>6, <1>1, <1>4 DEF HomeOf, Node
<1>7. ASSUME next[q] # q, NEW t \in Socket, home[t] = q, t # next[q]
      PROVE  place[next[q]] < place[t]
  <2>1. place[t] # place[next[q]]
    BY <1>6, <1>7 DEF TimersInv, QueuesLinked, Linked, Distinct
  <2>2. place[t] \in Nat /\ place[t] >= 1
    BY <1>2, <1>7 DEF TimersInv, TimersTypeOK
  <2> QED
    BY <2>1, <2>2, <1>4, <1>6, <1>7
<1> QED
  BY <1>5, <1>6, <1>7

-----------------------------------------------------------------------------
\* Facts about the configuration and the types.
LEMMA ConfigFacts ==
    ASSUME TypeOK
    PROVE  /\ cfg.interval \in Nat /\ cfg.rto \in Nat \ {0} /\ cfg.pipeline \in Nat
           /\ cfg.keepalive \in BOOLEAN /\ cfg.flood \in BOOLEAN
           /\ cfg.interval > 0 => cfg.keepalive
           /\ Running \in Queue /\ Retransmit \in Queue /\ Keepalive \in Queue
           /\ (Running = Keepalive) = cfg.keepalive
           /\ Retransmit # Keepalive
<1>1. cfg \in ConfigType /\ ConfigOK(cfg)
  BY UdpAssumption DEF TypeOK
<1> QED
  BY <1>1, UdpAssumption DEF ConfigType, ConfigOK, Running

(* The parts of the invariant, with the types the steps need.              *)
LEMMA InvFacts ==
    ASSUME UdpInv
    PROVE  /\ TypeOK /\ TimersInv /\ Times /\ Guarded
           /\ NoQueue \notin Queue
           /\ now \in Nat /\ tsc \in [Socket -> Nat]
BY SocketTimerAssumption DEF UdpInv, TypeOK, TimersInv, Discipline

\* A socket that leaves its queue leaves the times of the others in order.
LEMMA LeaveTimes ==
    ASSUME UdpInv, NEW s \in Socket, SocketDelTimer(s),
           UNCHANGED <<cfg, now, ticked, tsc>>
    PROVE  Times'
<1>1. /\ home'[s] = NoQueue
      /\ \A t \in Socket : t # s => home'[t] = home[t]
      /\ \A t, u \in Socket :
            t # s /\ u # s /\ home[t] = home[u] /\ place'[t] < place'[u]
                => place[t] < place[u]
  BY InvFacts, DelOrder
<1>2. Times /\ Running' = Running
  BY InvFacts DEF Running
<1>3. Keepalive # NoQueue
  BY InvFacts, ConfigFacts
<1> QED
  BY <1>1, <1>2, <1>3 DEF Times

\* So does a socket that enters the queue being run, if its time x lies in the
\* last interval.
LEMMA EnterTimes ==
    ASSUME UdpInv, NEW s \in Socket, NEW x \in Nat,
           SocketAddTimer(Running, s),
           UNCHANGED <<cfg, now, ticked>>,
           tsc' = [tsc EXCEPT ![s] = x],
           x <= now, now <= x + cfg.interval,
           cfg.keepalive => cfg.interval > 0,
           ~ticked => now = x
    PROVE  Times'
<1>1. /\ Running \in Queue /\ Running' = Running
      /\ cfg.interval \in Nat /\ cfg.rto \in Nat \ {0} /\ Running # NoQueue
      /\ (Running = Keepalive) = cfg.keepalive
      /\ cfg.keepalive \in BOOLEAN
  BY InvFacts, ConfigFacts DEF Running
<1>2. /\ home'[s] = Running
      /\ \A t \in Socket : t # s => home'[t] = home[t]
      /\ \A t, u \in Socket :
            t # s /\ u # s /\ home[t] = home[u] /\ place'[t] < place'[u]
                => place[t] < place[u]
      /\ \A t \in Socket : home'[t] = Running => ~(place'[s] < place'[t])
  BY <1>1, InvFacts, AddOrder
<1>3. /\ tsc'[s] = x /\ \A t \in Socket : t # s => tsc'[t] = tsc[t]
      /\ \A t \in Socket : tsc[t] \in Nat
      /\ now \in Nat
      /\ cfg' = cfg /\ now' = now /\ ticked' = ticked
  BY InvFacts
<1>4. Times
  BY InvFacts
<1>5. ASSUME NEW t \in Socket
      PROVE  /\ home'[t] \in {NoQueue, Running'}
             /\ home'[t] = Keepalive => cfg'.interval > 0
             /\ tsc'[t] <= now'
             /\ home'[t] # NoQueue /\ ~ticked' =>
                  now' < tsc'[t] + (IF cfg'.keepalive THEN 2 * cfg'.interval ELSE cfg'.rto)
  <2>1. CASE t = s
    BY <2>1, <1>1, <1>2, <1>3
  <2>2. CASE t # s
    BY <2>2, <1>1, <1>2, <1>3, <1>4 DEF Times
  <2> QED
    BY <2>1, <2>2
<1>6. ASSUME NEW t \in Socket, NEW u \in Socket,
             home'[t] # NoQueue, home'[t] = home'[u], place'[t] < place'[u]
      PROVE  tsc'[t] <= tsc'[u] + cfg'.interval
  <2>1. t # s
    BY <1>2, <1>6
  <2>2. CASE u = s
    <3>1. tsc[t] <= now
      BY <1>4 DEF Times
    <3> QED
      BY <3>1, <2>1, <2>2, <1>1, <1>3
  <2>3. CASE u # s
    BY <2>1, <2>3, <1>2, <1>3, <1>4, <1>6 DEF Times
  <2> QED
    BY <2>2, <2>3
<1> QED
  BY <1>5, <1>6 DEF Times

\* socket_accurate_timer_tsc returns a time within the last interval.
LEMMA AccurateRange ==
    ASSUME UdpInv, NEW s \in Socket
    PROVE  /\ AccurateTsc(s) \in Nat
           /\ AccurateTsc(s) <= now
           /\ now <= AccurateTsc(s) + cfg.interval
<1>1. now \in Nat /\ tsc[s] \in Nat /\ cfg.interval \in Nat
  BY InvFacts, ConfigFacts
<1>2. tsc[s] <= now
  BY InvFacts DEF Times
<1> QED
  BY <1>1, <1>2 DEF AccurateTsc

\* While nothing in it moves, the timers' part of the invariant stays.
LEMMA SameTimes ==
    ASSUME UdpInv, UNCHANGED <<timers, cfg, now, ticked, tsc>>
    PROVE  Times' /\ TimersInv'
<1>1. Times'
  BY InvFacts DEF Times, timers, Running
<1>2. TimersInv'
  BY InvFacts DEF TimersInv, TimersTypeOK, QueuesLinked, Linked, Inverse, Unlinked,
                  InOrder, UpToLast, Distinct, HomeOf, PlaceOf, timers
<1> QED
  BY <1>1, <1>2

\* Send puts at most NetMax requests on the wire.
LEMMA SendType ==
    ASSUME NEW s \in Socket, NEW n \in Nat, TypeOK, Send(s, n)
    PROVE  req' \in [Socket -> 0 .. NetMax]
<1>1. PICK k \in req[s] .. Lesser(NetMax, req[s] + n) : req' = [req EXCEPT ![s] = k]
  BY DEF Send
<1>2. req[s] \in 0 .. NetMax /\ NetMax \in Nat
  BY UdpAssumption DEF TypeOK
<1>3. k \in 0 .. NetMax
  BY <1>1, <1>2 DEF Lesser
<1> QED
  BY <1>1, <1>3 DEF TypeOK

-----------------------------------------------------------------------------
\* One lemma per kind of step.

\* Steps of the loop that touch no socket.
LEMMA LoopStep ==
    ASSUME UdpInv, StartLaunch \/ EndLaunch \/ Stop
    PROVE  UdpInv'
<1>1. TypeOK'
  <2>1. CASE StartLaunch
    <3>1. pipe' \in Nat
      BY <2>1, InvFacts, ConfigFacts DEF StartLaunch
    <3> QED
      BY <2>1, <3>1 DEF UdpInv, TypeOK, StartLaunch, timers, network, TimersTypeOK
  <2>2. CASE EndLaunch
    BY <2>2 DEF UdpInv, TypeOK, EndLaunch, timers, network, TimersTypeOK
  <2>3. CASE Stop
    BY <2>3 DEF UdpInv, TypeOK, Stop, timers, network, TimersTypeOK
  <2> QED
    BY <2>1, <2>2, <2>3
<1>2. Times' /\ TimersInv'
  BY SameTimes DEF StartLaunch, EndLaunch, Stop
<1>3. Guarded'
  BY DEF UdpInv, Guarded, InDuration, StartLaunch, EndLaunch, Stop, timers
<1>4. Discipline'
  BY <1>2 DEF UdpInv, Discipline, StartLaunch, EndLaunch, Stop
<1> QED
  BY <1>1, <1>2, <1>3, <1>4 DEF UdpInv, TimersInv

(* The clock moves forward past every timer.                               *)
LEMMA TimeUpdateStep ==
    ASSUME UdpInv, TimeUpdate
    PROVE  UdpInv'
<1>1. /\ now' \in Nat /\ now' > now /\ ticked' = TRUE /\ now \in Nat
      /\ UNCHANGED <<timers, cfg, state, tsc, pool, stop, over, pc, pipe, network, fired>>
  BY UdpAssumption, InvFacts DEF TimeUpdate
<1>2. TypeOK'
  BY <1>1 DEF UdpInv, TypeOK, timers, network, TimersTypeOK
<1>3. TimersInv'
  BY <1>1, InvFacts DEF TimersInv, TimersTypeOK, QueuesLinked, Linked, Inverse, Unlinked,
                  InOrder, UpToLast, Distinct, HomeOf, PlaceOf, timers
<1>4. Guarded'
  BY <1>1 DEF UdpInv, Guarded, InDuration, timers
<1>5. Times'
  <2>1. Times /\ \A s \in Socket : tsc[s] \in Nat
    BY InvFacts
  <2> QED
    BY <1>1, <2>1 DEF Times, timers, Running
<1>6. Discipline'
  BY <1>1, <1>5, UdpAssumption DEF UdpInv, Discipline
<1> QED
  BY <1>2, <1>3, <1>4, <1>6 DEF UdpInv, TimersInv

(* socket_timer_run begins a pass over a queue.                            *)
LEMMA StartTimerRunStep ==
    ASSUME UdpInv, StartTimerRun
    PROVE  UdpInv'
<1>1. TypeOK'
  <2>1. fired' \in [Socket -> 0 .. FiredMax]
    BY UdpAssumption DEF StartTimerRun
  <2>2. over' \in BOOLEAN
    BY DEF StartTimerRun
  <2> QED
    BY <2>1, <2>2 DEF UdpInv, TypeOK, StartTimerRun, timers, network, TimersTypeOK
<1>2. Times' /\ TimersInv'
  BY SameTimes DEF StartTimerRun
<1>3. over => over'
  BY DEF UdpInv, Discipline, StartTimerRun
<1>4. Guarded'
  BY <1>3 DEF UdpInv, Guarded, InDuration, StartTimerRun, timers
<1>5. Discipline'
  BY <1>2 DEF UdpInv, Discipline, StartTimerRun
<1> QED
  BY <1>1, <1>2, <1>4, <1>5 DEF UdpInv, TimersInv

\* The end of a run: the first socket is not due, so no other is late.
LEMMA EndTimerRunStep ==
    ASSUME UdpInv, EndTimerRun
    PROVE  UdpInv'
<1>1. TypeOK'
  <2>1. fired' \in [Socket -> 0 .. FiredMax]
    BY UdpAssumption DEF EndTimerRun
  <2> QED
    BY <2>1 DEF UdpInv, TypeOK, EndTimerRun, timers, network, TimersTypeOK
<1>2. TimersInv'
  BY InvFacts DEF TimersInv, TimersTypeOK, QueuesLinked, Linked, Inverse, Unlinked,
                  InOrder, UpToLast, Distinct, HomeOf, PlaceOf, timers, EndTimerRun
<1>3. Guarded'
  BY DEF UdpInv, Guarded, InDuration, EndTimerRun, timers
<1>4. ASSUME NEW t \in Socket, home[t] # NoQueue
      PROVE  now < tsc[t] + (IF cfg.keepalive THEN 2 * cfg.interval ELSE cfg.rto)
  <2>1. /\ cfg.interval \in Nat /\ cfg.rto \in Nat \ {0} /\ cfg.keepalive \in BOOLEAN
        /\ cfg.interval > 0 => cfg.keepalive
        /\ Running \in Queue
        /\ (Running = Keepalive) = cfg.keepalive
        /\ now \in Nat /\ \A u \in Socket : tsc[u] \in Nat
    BY InvFacts, ConfigFacts
  <2>2. home[t] = Running
    BY <1>4, InvFacts DEF Times
  <2>3. next[Running] # Running
    BY <2>1, <2>2, InvFacts, FirstOfQueue
  <2>4. PICK f \in Socket : /\ f = next[Running]
                            /\ home[f] = Running
                            /\ t # f => place[f] < place[t]
    BY <2>1, <2>2, <2>3, InvFacts, FirstOfQueue
  <2>5. ~(tsc[f] + Timeout <= now)
    BY <2>3, <2>4 DEF EndTimerRun, FirstDue
  <2>6. tsc[f] <= tsc[t] + cfg.interval
    <3>1. CASE t = f
      BY <3>1, <2>1
    <3>2. CASE t # f
      BY <3>2, <2>2, <2>4, <1>4, InvFacts DEF Times
    <3> QED
      BY <3>1, <3>2
  <2>7. CASE cfg.keepalive
    BY <2>7, <2>1, <2>5, <2>6 DEF Timeout
  <2>8. CASE ~cfg.keepalive
    <3>1. cfg.interval = 0
      BY <2>8, <2>1
    <3> QED
      BY <3>1, <2>8, <2>1, <2>5, <2>6 DEF Timeout
  <2> QED
    BY <2>1, <2>7, <2>8
<1>5. Times'
  BY <1>4, InvFacts DEF Times, EndTimerRun, timers, Running
<1>6. Discipline'
  BY <1>5 DEF UdpInv, Discipline, EndTimerRun
<1> QED
  BY <1>1, <1>2, <1>3, <1>6 DEF UdpInv, TimersInv

\* Steps of the network and the server touch no socket of the client.
LEMMA ServerStep ==
    ASSUME UdpInv, NEW s \in Socket, ServerProcess(s)
    PROVE  UdpInv'
<1>1. req' \in [Socket -> 0 .. NetMax] /\ resp' \in [Socket -> 0 .. NetMax]
  <2>1. req[s] \in 0 .. NetMax /\ resp[s] \in 0 .. NetMax /\ NetMax \in Nat
    BY UdpAssumption DEF UdpInv, TypeOK
  <2>2. Lesser(NetMax, resp[s] + 1) \in 0 .. NetMax
    BY <2>1 DEF Lesser
  <2>3. PICK n \in {resp[s], Lesser(NetMax, resp[s] + 1)} : resp' = [resp EXCEPT ![s] = n]
    BY DEF ServerProcess
  <2>4. resp' \in [Socket -> 0 .. NetMax]
    BY <2>1, <2>2, <2>3 DEF UdpInv, TypeOK
  <2>5. req' \in [Socket -> 0 .. NetMax]
    BY <2>1 DEF UdpInv, TypeOK, ServerProcess
  <2> QED
    BY <2>4, <2>5
<1>2. TypeOK'
  BY <1>1 DEF UdpInv, TypeOK, ServerProcess, timers, TimersTypeOK
<1>3. Times' /\ TimersInv'
  BY SameTimes DEF ServerProcess
<1>4. Guarded'
  BY DEF UdpInv, Guarded, InDuration, ServerProcess, timers
<1>5. Discipline'
  BY <1>3 DEF UdpInv, Discipline, ServerProcess
<1> QED
  BY <1>2, <1>3, <1>4, <1>5 DEF UdpInv, TimersInv

\* udp_client_launch opens a closed socket, which is in no queue.
LEMMA LaunchStep ==
    ASSUME UdpInv, LaunchOne
    PROVE  UdpInv'
<1>1. /\ TypeOK /\ pool \in Socket /\ pool' \in Socket /\ now \in Nat
      /\ cfg.interval \in Nat /\ cfg.keepalive \in BOOLEAN /\ cfg.flood \in BOOLEAN
      /\ (Running = Keepalive) = cfg.keepalive /\ Running \in Queue
      /\ cfg.interval > 0 => cfg.keepalive
  <2>1. TypeOK
    BY DEF UdpInv
  <2>2. pool' \in Socket
    BY <2>1, UdpAssumption DEF TypeOK, LaunchOne, NextSocket
  <2> QED
    BY <2>1, <2>2, ConfigFacts DEF TypeOK
<1>2. UNCHANGED <<cfg, now, stop, over, pc, resp, ticked, fired>>
  BY DEF LaunchOne
<1>3. CASE state[pool] # Closed
  <2>1. UNCHANGED <<timers, state, tsc, req, pipe>>
    BY <1>3 DEF LaunchOne
  <2>2. Times' /\ TimersInv'
    BY <2>1, <1>2, SameTimes
  <2>3. TypeOK'
    BY <2>1, <1>1, <1>2 DEF TypeOK, timers, TimersTypeOK
  <2>4. Guarded' /\ Discipline'
    BY <2>1, <2>2, <1>2 DEF UdpInv, Guarded, InDuration, timers, Discipline
  <2> QED
    BY <2>2, <2>3, <2>4 DEF UdpInv, TimersInv
<1>4. CASE state[pool] = Closed
  <2>1. /\ Send(pool, Burst(pipe)) /\ pipe' = 0
        /\ tsc' = [tsc EXCEPT ![pool] = now]
        /\ StartTimer(pool)
    BY <1>4 DEF LaunchOne
  <2>2. req' \in [Socket -> 0 .. NetMax] /\ tsc' \in [Socket -> Nat] /\ pipe' \in Nat
    <3>1. Burst(pipe) \in Nat
      BY <1>1 DEF Burst, TypeOK
    <3> QED
      BY <3>1, <2>1, <1>1, SendType DEF TypeOK
  <2>3. home[pool] = NoQueue
    BY <1>1, <1>4 DEF UdpInv, Guarded
  <2>4. ASSUME TimersInv', Times', Guarded', state' \in [Socket -> {Closed, SynSent, SynReceived}]
        PROVE  UdpInv'
    <3>1. TypeOK'
      BY <2>2, <2>4, <1>1, <1>2 DEF TypeOK, TimersInv
    <3>2. Discipline'
      BY <2>4, <1>2 DEF UdpInv, Discipline
    <3> QED
      BY <3>1, <3>2, <2>4 DEF UdpInv, TimersInv
  <2>5. CASE (cfg.keepalive /\ cfg.interval > 0) \/ (~cfg.keepalive /\ ~cfg.flood)
    <3>1. SocketAddTimer(Running, pool) /\ state' = [state EXCEPT ![pool] = SynSent]
      BY <2>5, <2>1, <1>1 DEF StartTimer, Running
    <3>2. TimersInv'
      BY <3>1, <1>1, InvFacts, AddKeepsInv
    <3>3. Times'
      <4>1. now <= now /\ now <= now + cfg.interval /\ (cfg.keepalive => cfg.interval > 0)
        BY <2>5, <1>1
      <4> QED
        BY <4>1, <3>1, <2>1, <1>1, <1>2, EnterTimes
    <3>4. /\ home'[pool] = Running
          /\ \A t \in Socket : t # pool => home'[t] = home[t]
      BY <3>1, <1>1, InvFacts, AddOrder
    <3>5. Guarded'
      BY <3>1, <3>4, <1>1, <1>2 DEF UdpInv, TypeOK, Guarded, InDuration, Running, Closed, SynSent
    <3> QED
      BY <3>1, <3>2, <3>3, <3>5, <2>4, <1>1 DEF TypeOK
  <2>6. CASE cfg.keepalive /\ ~(cfg.interval > 0)
    <3>1. UNCHANGED timers /\ state' = [state EXCEPT ![pool] = SynSent]
      BY <2>6, <2>1 DEF StartTimer
    <3>2. TimersInv'
      BY <3>1, InvFacts DEF TimersInv, TimersTypeOK, QueuesLinked, Linked, Inverse, Unlinked,
                            InOrder, UpToLast, Distinct, HomeOf, PlaceOf, timers
    <3>3. Times'
      <4>1. Times /\ tsc \in [Socket -> Nat]
        BY InvFacts
      <4>2. \A t \in Socket : t # pool => tsc'[t] = tsc[t]
        BY <2>1, <4>1
      <4>3. tsc'[pool] = now /\ home' = home /\ place' = place /\ Running' = Running
        BY <2>1, <4>1, <3>1, <1>1, <1>2 DEF timers, Running
      <4>4. NoQueue # Keepalive
        BY InvFacts, ConfigFacts
      <4> QED
        BY <4>1, <4>2, <4>3, <4>4, <2>3, <1>1, <1>2 DEF Times
    <3>4. Guarded'
      BY <3>1, <2>6, <1>1, <1>2 DEF UdpInv, TypeOK, Guarded, InDuration, timers, Closed, SynSent
    <3> QED
      BY <3>1, <3>2, <3>3, <3>4, <2>4, <1>1 DEF TypeOK
  <2>7. CASE ~cfg.keepalive /\ cfg.flood
    <3>1. SocketDelTimer(pool) /\ state' = [state EXCEPT ![pool] = Closed]
      BY <2>7, <2>1 DEF StartTimer, Close
    <3>2. TimersInv'
      BY <3>1, <1>1, InvFacts, DelKeepsInv
    <3>3. /\ home'[pool] = NoQueue
          /\ \A t \in Socket : t # pool => home'[t] = home[t]
          /\ \A t, u \in Socket :
                t # pool /\ u # pool /\ home[t] = home[u] /\ place'[t] < place'[u]
                    => place[t] < place[u]
      BY <3>1, <1>1, InvFacts, DelOrder
    <3>4. Times'
      <4>1. Times /\ tsc \in [Socket -> Nat] /\ NoQueue # Keepalive
        BY InvFacts, ConfigFacts
      <4>2. \A t \in Socket : t # pool => tsc'[t] = tsc[t]
        BY <2>1, <4>1
      <4>3. tsc'[pool] = now /\ Running' = Running
        BY <2>1, <4>1, <1>1, <1>2 DEF Running
      <4> QED
        BY <4>1, <4>2, <4>3, <3>3, <1>1, <1>2 DEF Times
    <3>5. Guarded'
      BY <3>1, <3>3, <1>1, <1>2 DEF UdpInv, TypeOK, Guarded, InDuration
    <3> QED
      BY <3>1, <3>2, <3>4, <3>5, <2>4, <1>1 DEF TypeOK
  <2>8. CASE cfg.keepalive
    <3>1. CASE cfg.interval > 0
      BY <3>1, <2>5, <2>8
    <3>2. CASE ~(cfg.interval > 0)
      BY <3>2, <2>6, <2>8
    <3> QED
      BY <3>1, <3>2
  <2>9. CASE ~cfg.keepalive
    BY <2>5, <2>7, <2>9
  <2> QED
    BY <2>8, <2>9
<1> QED
  BY <1>3, <1>4

\* udp_client_process closes the socket or leaves its timer alone.
LEMMA ClientStep ==
    ASSUME UdpInv, NEW s \in Socket, ClientProcess(s)
    PROVE  UdpInv'
<1>1. TypeOK /\ NetMax \in Nat /\ cfg.keepalive \in BOOLEAN /\ cfg.interval \in Nat
  BY UdpAssumption, ConfigFacts DEF UdpInv
<1>2. UNCHANGED <<cfg, tsc, pool, now, stop, over, pc, pipe, ticked, fired>>
  BY DEF ClientProcess
<1>3. resp' \in [Socket -> 0 .. NetMax]
  <2>1. PICK left \in {resp[s], resp[s] - 1} : resp' = [resp EXCEPT ![s] = left]
    BY DEF ClientProcess
  <2>2. resp[s] \in 0 .. NetMax /\ resp[s] > 0
    BY <1>1 DEF TypeOK, ClientProcess
  <2> QED
    BY <2>1, <2>2, <1>1 DEF TypeOK
<1>4. ASSUME TimersInv', Times', Guarded', req' \in [Socket -> 0 .. NetMax],
             state' \in [Socket -> {Closed, SynSent, SynReceived}]
      PROVE  UdpInv'
  <2>1. TypeOK'
    BY <1>1, <1>2, <1>3, <1>4 DEF TypeOK, TimersInv
  <2>2. Discipline'
    BY <1>2, <1>4 DEF UdpInv, Discipline
  <2> QED
    BY <2>1, <2>2, <1>4 DEF UdpInv, TimersInv
<1>5. CASE state[s] # Closed /\ ~cfg.keepalive
  <2>1. SocketDelTimer(s) /\ state' = [state EXCEPT ![s] = Closed] /\ req' = req
    BY <1>5 DEF ClientProcess, Close
  <2>2. TimersInv' /\ Times'
    BY <2>1, <1>2, InvFacts, DelKeepsInv, LeaveTimes
  <2>3. home'[s] = NoQueue /\ \A t \in Socket : t # s => home'[t] = home[t]
    BY <2>1, InvFacts, DelOrder
  <2>4. Guarded'
    BY <2>1, <2>3, <1>1, <1>2 DEF UdpInv, TypeOK, Guarded, InDuration
  <2> QED
    BY <2>1, <2>2, <2>4, <1>1, <1>4 DEF TypeOK
<1>6. CASE state[s] = Closed \/ cfg.keepalive
  <2>1. UNCHANGED timers
    BY <1>6 DEF ClientProcess
  <2>2. TimersInv' /\ Times'
    BY <2>1, <1>2, SameTimes
  <2>3. req' \in [Socket -> 0 .. NetMax]
    <3>1. req' = req \/ Send(s, 1)
      BY <1>6 DEF ClientProcess
    <3> QED
      BY <3>1, <1>1, SendType DEF TypeOK
  <2>4. \/ state' = state
        \/ /\ state[s] # Closed
           /\ cfg.keepalive
           /\ \E x \in {SynSent, SynReceived} : state' = [state EXCEPT ![s] = x]
    BY <1>6, <1>1 DEF ClientProcess
  <2>5. state' \in [Socket -> {Closed, SynSent, SynReceived}]
    BY <2>4, <1>1 DEF TypeOK
  <2>6. Guarded'
    BY <2>1, <2>4, <1>1, <1>2 DEF UdpInv, TypeOK, Guarded, InDuration, timers, Closed, SynSent, SynReceived
  <2> QED
    BY <2>2, <2>3, <2>5, <2>6, <1>4
<1> QED
  BY <1>5, <1>6, <1>1

\* An iteration of socket_timer_run handles the first socket of the queue.
LEMMA RunTimerStep ==
    ASSUME UdpInv, RunTimer
    PROVE  UdpInv'
<1>1. /\ TypeOK /\ cfg.interval \in Nat /\ cfg.keepalive \in BOOLEAN
      /\ (Running = Keepalive) = cfg.keepalive /\ Running \in Queue /\ cfg.pipeline \in Nat
      /\ NoQueue # Running
  BY ConfigFacts, InvFacts DEF UdpInv
<1>2. PICK s \in Socket : s = next[Running] /\ home[s] = Running
  BY <1>1, InvFacts, FirstOfQueue DEF RunTimer, FirstDue
<1>3. /\ pc = "timer"
      /\ fired' = [fired EXCEPT ![s] = Lesser(FiredMax, fired[s] + 1)]
      /\ IF cfg.keepalive THEN KeepaliveHandler(s)
                          ELSE Close(s) /\ UNCHANGED <<tsc, req>>
      /\ UNCHANGED <<cfg, pool, now, stop, over, pc, pipe, resp, ticked>>
  BY <1>2 DEF RunTimer
<1>4. ticked
  BY <1>3 DEF UdpInv, Discipline
<1>5. fired' \in [Socket -> 0 .. FiredMax]
  <2>1. fired[s] \in 0 .. FiredMax /\ FiredMax \in Nat
    BY <1>1, UdpAssumption DEF TypeOK
  <2>2. Lesser(FiredMax, fired[s] + 1) \in 0 .. FiredMax
    BY <2>1 DEF Lesser
  <2> QED
    BY <2>2, <1>1, <1>3 DEF TypeOK
<1>6. ASSUME TimersInv', Times', Guarded', req' \in [Socket -> 0 .. NetMax],
             tsc' \in [Socket -> Nat],
             state' \in [Socket -> {Closed, SynSent, SynReceived}]
      PROVE  UdpInv'
  <2>1. TypeOK'
    BY <1>1, <1>3, <1>5, <1>6 DEF TypeOK, TimersInv
  <2>2. Discipline'
    BY <1>3, <1>6 DEF UdpInv, Discipline
  <2> QED
    BY <2>1, <2>2, <1>6 DEF UdpInv, TimersInv
<1>7. CASE ~cfg.keepalive
  <2>1. /\ SocketDelTimer(s) /\ state' = [state EXCEPT ![s] = Closed]
        /\ UNCHANGED <<tsc, req>>
    BY <1>3, <1>7 DEF Close
  <2>2. TimersInv' /\ Times'
    BY <2>1, <1>3, InvFacts, DelKeepsInv, LeaveTimes
  <2>3. home'[s] = NoQueue /\ \A t \in Socket : t # s => home'[t] = home[t]
    BY <2>1, InvFacts, DelOrder
  <2>4. Guarded'
    BY <2>1, <2>3, <1>1, <1>3 DEF UdpInv, TypeOK, Guarded, InDuration
  <2> QED
    BY <2>1, <2>2, <2>4, <1>1, <1>6 DEF TypeOK
<1>8. CASE cfg.keepalive /\ InDuration
  <2>1. /\ Send(s, Burst(cfg.pipeline))
        /\ state' = [state EXCEPT ![s] = SynSent]
        /\ tsc' = [tsc EXCEPT ![s] = AccurateTsc(s)]
        /\ SocketAddTimer(Keepalive, s)
    BY <1>3, <1>8 DEF KeepaliveHandler, StartKeepalive
  <2>2. Running = Keepalive /\ cfg.interval > 0
    BY <1>1, <1>2, <1>8, InvFacts DEF Times
  <2>3. /\ AccurateTsc(s) \in Nat /\ AccurateTsc(s) <= now
        /\ now <= AccurateTsc(s) + cfg.interval
    BY AccurateRange
  <2>4. TimersInv'
    BY <2>1, <2>2, <1>1, InvFacts, AddKeepsInv
  <2>5. Times'
    BY <2>1, <2>2, <2>3, <1>3, <1>4, EnterTimes
  <2>6. home'[s] = Keepalive /\ \A t \in Socket : t # s => home'[t] = home[t]
    BY <2>1, <2>2, <1>1, InvFacts, AddOrder
  <2>7. Guarded'
    BY <2>1, <2>6, <1>1, <1>3, <1>8 DEF UdpInv, TypeOK, Guarded, InDuration, Closed, SynSent
  <2>8. req' \in [Socket -> 0 .. NetMax]
    <3>1. Burst(cfg.pipeline) \in Nat
      BY <1>1 DEF Burst
    <3> QED
      BY <3>1, <2>1, <1>1, SendType
  <2> QED
    BY <2>1, <2>3, <2>4, <2>5, <2>7, <2>8, <1>1, <1>6 DEF TypeOK
<1>9. CASE cfg.keepalive /\ ~InDuration
  <2>1. SocketDelTimer(s) /\ UNCHANGED <<state, tsc, req>>
    BY <1>3, <1>9 DEF KeepaliveHandler
  <2>2. TimersInv' /\ Times'
    BY <2>1, <1>3, InvFacts, DelKeepsInv, LeaveTimes
  <2>3. home'[s] = NoQueue /\ \A t \in Socket : t # s => home'[t] = home[t]
    BY <2>1, InvFacts, DelOrder
  <2>4. Guarded'
    BY <2>1, <2>3, <1>1, <1>3, <1>9 DEF UdpInv, TypeOK, Guarded, InDuration
  <2> QED
    BY <2>1, <2>2, <2>4, <1>1, <1>6 DEF TypeOK
<1> QED
  BY <1>1, <1>7, <1>8, <1>9

-----------------------------------------------------------------------------
(* The sockets after start-up.                                             *)
LEMMA UdpInit == Init => UdpInv
<1> SUFFICES ASSUME Init PROVE UdpInv
  OBVIOUS
<1>1. TimersInv
  BY InitInv DEF Init
<1>2. \A s \in Socket : state[s] = Closed /\ home[s] = NoQueue /\ tsc[s] = 0
  BY DEF Init, TimersInit
<1>3. /\ cfg \in Configs /\ pool = 0 /\ now = 0 /\ ticked = FALSE /\ pc = "loop"
      /\ pipe = 0 /\ stop = FALSE /\ over = FALSE
  BY DEF Init
<1>4. TypeOK
  <2>1. pool \in Socket
    BY <1>3, UdpAssumption
  <2>2. /\ req \in [Socket -> 0 .. NetMax] /\ resp \in [Socket -> 0 .. NetMax]
        /\ fired \in [Socket -> 0 .. FiredMax] /\ tsc \in [Socket -> Nat]
    BY UdpAssumption DEF Init
  <2>3. state \in [Socket -> {Closed, SynSent, SynReceived}]
    BY DEF Init
  <2> QED
    BY <2>1, <2>2, <2>3, <1>1, <1>3 DEF TypeOK, TimersInv
<1>5. Guarded
  BY <1>2 DEF Guarded
<1>6. Times
  <2>1. Keepalive # NoQueue
    BY <1>4, ConfigFacts, SocketTimerAssumption
  <2> QED
    BY <1>2, <1>3, <2>1 DEF Times
<1> QED
  BY <1>1, <1>3, <1>4, <1>5, <1>6 DEF UdpInv, Discipline, TimersInv

(* Every step keeps the invariant.                                         *)
LEMMA UdpStep == UdpInv /\ [Next]_vars => UdpInv'
<1> SUFFICES ASSUME UdpInv, [Next]_vars PROVE UdpInv'
  OBVIOUS
<1>1. CASE StartLaunch \/ EndLaunch \/ Stop
  BY <1>1, LoopStep
<1>2. CASE LaunchOne
  BY <1>2, LaunchStep
<1>3. CASE StartTimerRun
  BY <1>3, StartTimerRunStep
<1>4. CASE RunTimer
  BY <1>4, RunTimerStep
<1>5. CASE EndTimerRun
  BY <1>5, EndTimerRunStep
<1>6. CASE TimeUpdate
  BY <1>6, TimeUpdateStep
<1>7. ASSUME NEW s \in Socket, ClientProcess(s) PROVE UdpInv'
  BY <1>7, ClientStep
<1>8. ASSUME NEW s \in Socket, ServerProcess(s) PROVE UdpInv'
  BY <1>8, ServerStep
<1>9. CASE UNCHANGED vars
  <2>1. TypeOK'
    BY <1>9 DEF UdpInv, TypeOK, TimersTypeOK, vars, timers
  <2>2. Times' /\ TimersInv'
    BY <1>9, SameTimes DEF vars
  <2>3. Guarded' /\ Discipline'
    BY <1>9, <2>2 DEF UdpInv, Guarded, InDuration, Discipline, vars, timers
  <2> QED
    BY <2>1, <2>2, <2>3 DEF UdpInv, TimersInv
<1> QED
  BY <1>1, <1>2, <1>3, <1>4, <1>5, <1>6, <1>7, <1>8, <1>9 DEF Next

\* The invariant of the UDP client of src/src/udp.c.
THEOREM UdpInvariant == Spec => []UdpInv
BY UdpInit, UdpStep, PTL DEF Spec

\* socket_timer_run, although it stops at the first socket that is not due,
\* leaves no expired request behind, and no keepalive socket for a whole
\* interval.
THEOREM NoSocketLate == Spec => []NotLate
<1>1. UdpInv => NotLate
  <2> SUFFICES ASSUME UdpInv, pc = "loop", ~ticked, NEW s \in Socket
               PROVE  /\ home[s] = Retransmit => now < tsc[s] + cfg.rto
                      /\ home[s] = Keepalive => now < tsc[s] + 2 * cfg.interval
    BY DEF NotLate
  <2>1. /\ home[s] \in {NoQueue, Running}
        /\ home[s] # NoQueue =>
              now < tsc[s] + (IF cfg.keepalive THEN 2 * cfg.interval ELSE cfg.rto)
    BY InvFacts DEF Times
  <2>2. /\ Retransmit # NoQueue /\ Keepalive # NoQueue /\ Retransmit # Keepalive
        /\ Running = IF cfg.keepalive THEN Keepalive ELSE Retransmit
    BY InvFacts, ConfigFacts DEF Running
  <2>3. CASE cfg.keepalive
    BY <2>1, <2>2, <2>3
  <2>4. CASE ~cfg.keepalive
    BY <2>1, <2>2, <2>4
  <2> QED
    BY <2>3, <2>4
<1> QED
  BY <1>1, UdpInvariant, PTL

\* Every open UDP socket waits in the timer queue that will handle it, and no
\* closed one is in a queue.
THEOREM OpenSocketsGuarded == Spec => []Guarded
<1>1. UdpInv => Guarded
  BY DEF UdpInv
<1> QED
  BY <1>1, UdpInvariant, PTL

\* The UDP client uses the timer queues only as SocketTimer says: each of its
\* steps adds one socket, removes one or leaves the queues alone.
THEOREM UdpImplementsTimers == Spec => TimersSpec
<1>1. Init => TimersInit
  BY DEF Init
<1>2. UdpInv /\ [Next]_vars => [TimersNext]_timers
  <2> SUFFICES ASSUME UdpInv, [Next]_vars PROVE TimersNext \/ UNCHANGED timers
    OBVIOUS
  <2>1. pool \in Socket /\ Retransmit \in Queue /\ Keepalive \in Queue /\ Running \in Queue
    BY InvFacts, ConfigFacts DEF TypeOK
  <2>2. CASE LaunchOne
    BY <2>1, <2>2 DEF LaunchOne, StartTimer, Close, TimersNext
  <2>3. CASE RunTimer
    <3>1. next[Running] \in Socket
      BY <2>1, <2>3, InvFacts, FirstOfQueue DEF RunTimer, FirstDue
    <3> QED
      BY <2>1, <2>3, <3>1 DEF RunTimer, KeepaliveHandler, StartKeepalive, Close, TimersNext
  <2>4. ASSUME NEW s \in Socket, ClientProcess(s) PROVE TimersNext \/ UNCHANGED timers
    BY <2>4 DEF ClientProcess, Close, TimersNext
  <2>5. CASE StartLaunch \/ EndLaunch \/ StartTimerRun \/ EndTimerRun \/ TimeUpdate \/ Stop
    BY <2>5 DEF StartLaunch, EndLaunch, StartTimerRun, EndTimerRun, TimeUpdate, Stop
  <2>6. ASSUME NEW s \in Socket, ServerProcess(s) PROVE UNCHANGED timers
    BY <2>6 DEF ServerProcess
  <2>7. CASE UNCHANGED vars
    BY <2>7 DEF vars
  <2> QED
    BY <2>2, <2>3, <2>4, <2>5, <2>6, <2>7 DEF Next
<1> QED
  BY <1>1, <1>2, UdpInvariant, PTL DEF Spec, TimersSpec
=============================================================================
