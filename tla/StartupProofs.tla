--------------------------- MODULE StartupProofs ---------------------------
(***************************************************************************)
(* Proofs about the two barriers of work_space_new, for every number of    *)
(* workers.                                                                *)
(***************************************************************************)
EXTENDS Startup, FiniteSetTheorems, TLAPS

\* A barrier count that is a positive multiple of the number of workers, and at
\* most one round, is exactly that number.
LEMMA OneRound ==
    ASSUME NEW n \in Nat \ {0}, NEW k \in 1 .. n, k % n = 0
    PROVE  k = n
  BY SMT

\* The same for the second round.
LEMMA SecondRound ==
    ASSUME NEW n \in Nat \ {0}, NEW k \in 1 .. n, (n + k) % n = 0
    PROVE  k = n
  BY SMT

\* The workers are finitely many, so the sets of those that have arrived have a
\* cardinality, and one as large as all workers is all workers.
LEMMA ArrivedSets ==
    ASSUME NEW S \in SUBSET Workers
    PROVE  /\ IsFiniteSet(S) /\ Cardinality(S) \in Nat
           /\ Cardinality(S) <= CPU_NUM
           /\ Cardinality(S) = CPU_NUM => S = Workers
           /\ \A w \in S : Cardinality(S) >= 1
           /\ \A w \in Workers \ S : Cardinality(S \cup {w}) = Cardinality(S) + 1
<1>1. CPU_NUM \in Nat \ {0}
  BY StartupAssumption
<1>2. IsFiniteSet(Workers) /\ Cardinality(Workers) = CPU_NUM
  <2>1. 0 \in Int /\ CPU_NUM - 1 \in Int
    BY <1>1
  <2> QED
    BY <1>1, <2>1, FS_Interval DEF Workers
<1>3. IsFiniteSet(S) /\ Cardinality(S) <= CPU_NUM /\ (Cardinality(S) = CPU_NUM => S = Workers)
  BY <1>2, FS_Subset
<1>4. Cardinality(S) \in Nat
  BY <1>3, FS_CardinalityType
<1>5. \A w \in S : Cardinality(S) >= 1
  <2>1. \A w \in S : Cardinality(S) # 0
    BY <1>3, FS_EmptySet
  <2> QED
    BY <1>4, <2>1
<1>6. \A w \in Workers \ S : Cardinality(S \cup {w}) = Cardinality(S) + 1
  BY <1>3, FS_AddElement
<1> QED
  BY <1>3, <1>4, <1>5, <1>6

IInv == TypeOK /\ BarrierInv

\* Nothing has happened yet.
LEMMA InitInv == Init => IInv
<1> SUFFICES ASSUME Init PROVE IInv
  OBVIOUS
<1>1. Arrived1 = {} /\ Arrived2 = {} /\ Passed1 = {} /\ Passed2 = {} /\ Linked = {}
  BY DEF Init, Arrived1, Arrived2, Passed1, Passed2, Linked
<1>2. BarrierInv
  BY <1>1, FS_EmptySet DEF Init, BarrierInv
<1>3. TypeOK
  <2>1. ctl.i = 0 /\ ctl.at = "wait_start" /\ 0 <= CPU_NUM
    BY StartupAssumption DEF Init
  <2>2. pc \in [Workers -> Places] /\ hash \in [Workers -> SUBSET Workers]
    BY DEF Init, Places
  <2>3. waitCount \in Nat /\ lastLaunch \in CtlPlaces \cup {"none"}
    BY DEF Init
  <2>4. /\ all \subseteq Workers /\ {start, stop, exit, launching} \subseteq SUBSET Workers
        /\ gStop \in BOOLEAN /\ alive \in BOOLEAN
    BY DEF Init
  <2> QED
    BY <2>1, <2>2, <2>3, <2>4 DEF TypeOK, CtlPlaces
<1> QED
  BY <1>2, <1>3 DEF IInv

\* Every step keeps the types.
LEMMA NextType == TypeOK /\ [Next]_vars => TypeOK'
<1> SUFFICES ASSUME TypeOK, [Next]_vars PROVE TypeOK'
  OBVIOUS
<1>a. CPU_NUM \in Nat \ {0}
  BY StartupAssumption
<1> USE <1>a DEF TypeOK, Places, CtlPlaces
<1>1. ASSUME NEW w \in Workers, Worker(w) PROVE TypeOK'
  BY <1>1 DEF Worker, Alloc, Arrive, Pass, InitWorker, InitRss, Start, Leave, Goto
<1>2. ASSUME NEW w \in Workers, Launch(w) \/ Fail(w) PROVE TypeOK'
  BY <1>2 DEF Launch, Fail
<1>3. CASE WaitStart
  BY <1>3 DEF WaitStart, CtlGoto
<1>4. CASE SlowSecond
  BY <1>4 DEF SlowSecond, CtlGoto
<1>5. CASE RunSecond
  BY <1>5 DEF RunSecond, CtlGoto
<1>6. CASE StopAll
  BY <1>6 DEF StopAll, CtlGoto
<1>7. CASE DelaySecond
  BY <1>7 DEF DelaySecond, CtlGoto
<1>8. CASE ExitAll
  BY <1>8 DEF ExitAll, CtlGoto
<1>9. CASE Interrupt
  BY <1>9 DEF Interrupt
<1>10. CASE UNCHANGED vars
  BY <1>10 DEF vars
<1> QED
  BY <1>1, <1>2, <1>3, <1>4, <1>5, <1>6, <1>7, <1>8, <1>9, <1>10 DEF Next, Ctl

\* A step that leaves the workers' places, the counter and the tables alone.
LEMMA Elsewhere == BarrierInv /\ UNCHANGED <<pc, waitCount, all, hash>> => BarrierInv'
  BY DEF BarrierInv, Arrived1, Arrived2, Passed1, Passed2, Linked

\* The first barrier opens for a worker only when all workers have arrived.
LEMMA FirstBarrier ==
    ASSUME IInv, BarrierOpen, NEW w \in Workers, pc[w] = "wait1"
    PROVE  Arrived1 = Workers
<1>1. w \in Arrived1 /\ Arrived1 \in SUBSET Workers /\ Arrived2 \subseteq Passed1
  BY DEF Arrived1, Arrived2, Passed1
<1>2. CASE Passed1 # {}
  BY <1>2 DEF IInv, BarrierInv
<1>3. CASE Passed1 = {}
  <2>1. waitCount = Cardinality(Arrived1) + 0
    BY <1>1, <1>3, FS_EmptySet DEF IInv, BarrierInv
  <2>2. Cardinality(Arrived1) \in 1 .. CPU_NUM
    BY <1>1, ArrivedSets, StartupAssumption
  <2>3. waitCount = Cardinality(Arrived1)
    BY <2>1, <2>2, StartupAssumption
  <2>4. Cardinality(Arrived1) = CPU_NUM
    BY <2>2, <2>3, OneRound, StartupAssumption DEF BarrierOpen
  <2> QED
    BY <1>1, <2>4, ArrivedSets
<1> QED
  BY <1>2, <1>3

\* The second barrier, which reuses the counter, opens only when all have arrived
\* a second time.
LEMMA SecondBarrier ==
    ASSUME IInv, BarrierOpen, NEW w \in Workers, pc[w] = "wait2"
    PROVE  Arrived2 = Workers
<1>1. /\ w \in Arrived2 /\ Arrived2 \in SUBSET Workers
      /\ w \in Passed1 /\ Arrived1 \in SUBSET Workers
  BY DEF Arrived1, Arrived2, Passed1
<1>2. Arrived1 = Workers
  BY <1>1 DEF IInv, BarrierInv
<1>3. Cardinality(Arrived1) = CPU_NUM
  <2>1. 0 \in Int /\ CPU_NUM - 1 \in Int
    BY StartupAssumption
  <2> QED
    BY <1>2, <2>1, FS_Interval, StartupAssumption DEF Workers
<1>4. Cardinality(Arrived2) \in 1 .. CPU_NUM
  BY <1>1, ArrivedSets, StartupAssumption
<1>5. (CPU_NUM + Cardinality(Arrived2)) % CPU_NUM = 0
  BY <1>3 DEF IInv, BarrierInv, BarrierOpen
<1>6. Cardinality(Arrived2) = CPU_NUM
  BY <1>4, <1>5, SecondRound, StartupAssumption
<1> QED
  BY <1>1, <1>6, ArrivedSets

\* Every step keeps what the counter says about the barriers.
LEMMA NextBarrier == IInv /\ [Next]_vars => BarrierInv'
<1> SUFFICES ASSUME IInv, [Next]_vars PROVE BarrierInv'
  OBVIOUS
<1>t. pc \in [Workers -> Places] /\ hash \in [Workers -> SUBSET Workers] /\ waitCount \in Nat
  BY DEF IInv, TypeOK
<1>b. BarrierInv
  BY DEF IInv
<1>s. Arrived1 \in SUBSET Workers /\ Arrived2 \in SUBSET Workers
  BY DEF Arrived1, Arrived2
<1>1. ASSUME NEW w \in Workers, Alloc(w) PROVE BarrierInv'
  <2>1. /\ Arrived1' = Arrived1 /\ Arrived2' = Arrived2 /\ Passed1' = Passed1
        /\ Passed2' = Passed2 /\ Linked' = Linked
    BY <1>1, <1>t DEF Alloc, Goto, Arrived1, Arrived2, Passed1, Passed2, Linked
  <2>2. all' = {v \in Workers : pc'[v] # "alloc"}
    BY <1>1, <1>t, <1>b DEF Alloc, Goto, BarrierInv
  <2> QED
    BY <1>1, <1>b, <2>1, <2>2 DEF Alloc, BarrierInv
<1>2. ASSUME NEW w \in Workers, Arrive(w, "arrive1", "wait1") PROVE BarrierInv'
  <2>1. /\ w \in Workers \ Arrived1 /\ Arrived1' = Arrived1 \cup {w}
        /\ Arrived2' = Arrived2 /\ Passed1' = Passed1 /\ Passed2' = Passed2
        /\ Linked' = Linked
    BY <1>2, <1>t DEF Arrive, Goto, Arrived1, Arrived2, Passed1, Passed2, Linked
  <2>2. Passed1 = {}
    BY <1>b, <2>1 DEF BarrierInv
  <2>3. waitCount' = Cardinality(Arrived1') + Cardinality(Arrived2')
    <3>1. /\ Cardinality(Arrived1) \in Nat /\ Cardinality(Arrived2) \in Nat
          /\ Cardinality(Arrived1 \cup {w}) = Cardinality(Arrived1) + 1
      BY <1>s, <2>1, ArrivedSets
    <3>2. waitCount' = Cardinality(Arrived1) + Cardinality(Arrived2) + 1
      BY <1>2, <1>b DEF Arrive, BarrierInv
    <3> QED
      BY <2>1, <3>1, <3>2
  <2>4. all' = {v \in Workers : pc'[v] # "alloc"}
    BY <1>2, <1>t, <1>b DEF Arrive, Goto, BarrierInv
  <2>5. Passed2 # {} => Arrived2 = Workers
    BY <1>b DEF BarrierInv
  <2> QED
    BY <1>2, <1>b, <2>1, <2>2, <2>3, <2>4, <2>5 DEF Arrive, BarrierInv
<1>3. ASSUME NEW w \in Workers, Pass(w, "wait1", "init") PROVE BarrierInv'
  <2>1. /\ Arrived1' = Arrived1 /\ Arrived2' = Arrived2
        /\ Passed2' = Passed2 /\ Linked' = Linked
    BY <1>3, <1>t DEF Pass, Goto, Arrived1, Arrived2, Passed2, Linked
  <2>2. Arrived1 = Workers
    BY <1>3, FirstBarrier DEF Pass, Goto
  <2>3. all' = {v \in Workers : pc'[v] # "alloc"}
    BY <1>3, <1>t, <1>b DEF Pass, Goto, BarrierInv
  <2> QED
    BY <1>3, <1>b, <2>1, <2>2, <2>3 DEF Pass, BarrierInv
<1>4. ASSUME NEW w \in Workers, InitWorker(w) PROVE BarrierInv'
  <2>1. /\ Arrived1' = Arrived1 /\ Arrived2' = Arrived2 /\ Passed1' = Passed1
        /\ Passed2' = Passed2 /\ Linked' = Linked
    BY <1>4, <1>t DEF InitWorker, Goto, Arrived1, Arrived2, Passed1, Passed2, Linked
  <2>2. all' = {v \in Workers : pc'[v] # "alloc"}
    BY <1>4, <1>t, <1>b DEF InitWorker, Goto, BarrierInv
  <2> QED
    BY <1>4, <1>b, <2>1, <2>2 DEF InitWorker, BarrierInv
<1>5. ASSUME NEW w \in Workers, Arrive(w, "arrive2", "wait2") PROVE BarrierInv'
  <2>1. /\ w \in Workers \ Arrived2 /\ Arrived2' = Arrived2 \cup {w}
        /\ Arrived1' = Arrived1 /\ Passed1' = Passed1 /\ Passed2' = Passed2
        /\ Linked' = Linked
    BY <1>5, <1>t DEF Arrive, Goto, Arrived1, Arrived2, Passed1, Passed2, Linked
  <2>2. Passed2 = {}
    BY <1>b, <2>1 DEF BarrierInv
  <2>3. waitCount' = Cardinality(Arrived1') + Cardinality(Arrived2')
    <3>1. /\ Cardinality(Arrived1) \in Nat /\ Cardinality(Arrived2) \in Nat
          /\ Cardinality(Arrived2 \cup {w}) = Cardinality(Arrived2) + 1
      BY <1>s, <2>1, ArrivedSets
    <3>2. waitCount' = Cardinality(Arrived1) + Cardinality(Arrived2) + 1
      BY <1>5, <1>b DEF Arrive, BarrierInv
    <3> QED
      BY <2>1, <3>1, <3>2
  <2>4. all' = {v \in Workers : pc'[v] # "alloc"}
    BY <1>5, <1>t, <1>b DEF Arrive, Goto, BarrierInv
  <2>5. Passed1 # {} => Arrived1 = Workers
    BY <1>b DEF BarrierInv
  <2> QED
    BY <1>5, <1>b, <2>1, <2>2, <2>3, <2>4, <2>5 DEF Arrive, BarrierInv
<1>6. ASSUME NEW w \in Workers, Pass(w, "wait2", "rss") PROVE BarrierInv'
  <2>1. /\ Arrived1' = Arrived1 /\ Arrived2' = Arrived2
        /\ Passed1' = Passed1 /\ Linked' = Linked
    BY <1>6, <1>t DEF Pass, Goto, Arrived1, Arrived2, Passed1, Linked
  <2>2. Arrived2 = Workers
    BY <1>6, SecondBarrier DEF Pass, Goto
  <2>3. all' = {v \in Workers : pc'[v] # "alloc"}
    BY <1>6, <1>t, <1>b DEF Pass, Goto, BarrierInv
  <2> QED
    BY <1>6, <1>b, <2>1, <2>2, <2>3 DEF Pass, BarrierInv
<1>7. ASSUME NEW w \in Workers, InitRss(w) PROVE BarrierInv'
  <2>1. /\ Arrived1' = Arrived1 /\ Arrived2' = Arrived2 /\ Passed1' = Passed1
        /\ Passed2' = Passed2 /\ Linked' = Linked \cup {w}
    BY <1>7, <1>t DEF InitRss, Goto, Arrived1, Arrived2, Passed1, Passed2, Linked
  <2>2. all' = {v \in Workers : pc'[v] # "alloc"} /\ all' = all
    BY <1>7, <1>t, <1>b DEF InitRss, Goto, BarrierInv
  <2>3. all = Workers
    <3>1. w \in Passed1
      BY <1>7 DEF InitRss, Goto, Passed1
    <3>2. Arrived1 = Workers
      BY <3>1, <1>b DEF BarrierInv
    <3> QED
      BY <3>2, <1>b DEF BarrierInv, Arrived1
  <2>4. \A v \in Linked' : hash'[v] = Workers
    BY <1>7, <1>t, <1>b, <2>1, <2>3 DEF InitRss, BarrierInv, Linked
  <2> QED
    BY <1>7, <1>b, <2>1, <2>2, <2>4 DEF InitRss, BarrierInv
<1>8. ASSUME NEW w \in Workers, Start(w) \/ Leave(w) PROVE BarrierInv'
  <2>1. /\ Arrived1' = Arrived1 /\ Arrived2' = Arrived2 /\ Passed1' = Passed1
        /\ Passed2' = Passed2 /\ Linked' = Linked
    BY <1>8, <1>t DEF Start, Leave, Goto, Arrived1, Arrived2, Passed1, Passed2, Linked
  <2>2. all' = {v \in Workers : pc'[v] # "alloc"}
    BY <1>8, <1>t, <1>b DEF Start, Leave, Goto, BarrierInv
  <2> QED
    BY <1>8, <1>b, <2>1, <2>2 DEF Start, Leave, BarrierInv
<1>9. ASSUME NEW w \in Workers, Launch(w) \/ Fail(w) PROVE BarrierInv'
  BY <1>9, <1>b, Elsewhere DEF Launch, Fail
<1>10. CASE Ctl
  BY <1>10, <1>b, Elsewhere
    DEF Ctl, WaitStart, SlowSecond, RunSecond, StopAll, DelaySecond, ExitAll
<1>11. CASE Interrupt \/ UNCHANGED vars
  BY <1>11, <1>b, Elsewhere DEF Interrupt, vars
<1> QED
  BY <1>1, <1>2, <1>3, <1>4, <1>5, <1>6, <1>7, <1>8, <1>9, <1>10, <1>11 DEF Next, Worker

\* The counter shared by both barriers of work_space_new always tells how many
\* workers have arrived, and neither barrier lets a worker through early.
THEOREM BarriersHold == Spec => []IInv
<1>1. IInv /\ [Next]_vars => IInv'
  BY NextType, NextBarrier DEF IInv
<1> QED
  BY <1>1, InitInv, PTL DEF Spec

\* Whatever the number of workers and their scheduling, work_space_init_rss finds
\* every worker's socket table, and finds it initialised.
THEOREM RssTablesComplete == Spec => []TablesComplete
<1>1. IInv => TablesComplete
  <2> SUFFICES ASSUME IInv PROVE TablesComplete
    OBVIOUS
  <2>1. \A w \in Workers : pc[w] = "run" => hash[w] = Workers
    BY DEF IInv, BarrierInv, Linked
  <2>2. \A w \in Linked : Arrived2 = Workers
    BY DEF IInv, BarrierInv, Linked, Passed2
  <2>3. \A w \in Linked, v \in Workers : pc[v] \notin {"alloc", "arrive1", "wait1", "init"}
    BY <2>2 DEF Arrived2
  <2> QED
    BY <2>1, <2>3 DEF TablesComplete
<1> QED
  BY <1>1, BarriersHold, PTL

\* The statement of the barriers alone, which a run checks.
THEOREM BarrierCounter == Spec => []BarrierInv
<1>1. IInv => BarrierInv
  BY DEF IInv
<1> QED
  BY <1>1, BarriersHold, PTL

(***************************************************************************)
(* Why nobody launches late.  The control thread leaves                    *)
(* work_space_wait_start only after it has seen the start flag of every    *)
(* work space in turn; flags are never taken back, and a worker that has   *)
(* set its flag is past client_init, so work_space_stop_all finds every    *)
(* launch_num already set and its zeros are not overwritten.               *)
(***************************************************************************)
StopInv ==
    /\ \A w \in start : pc[w] \in {"run", "closed"}
    /\ ctl.at = "wait_start" => \A w \in Workers : w < ctl.i => w \in start
    /\ ctl.at # "wait_start" => start = Workers
    /\ ctl.at = "stop" => \A w \in Workers : w < ctl.i => w \notin launching
    /\ ctl.at \in {"delay", "exit", "done"} => launching = {}
    /\ NoLateLaunch

LInv == IInv /\ StopInv

\* No flag is set and nobody has launched.
LEMMA InitStop == Init => StopInv
<1> SUFFICES ASSUME Init PROVE StopInv
  OBVIOUS
<1>1. ctl.at = "wait_start" /\ ctl.i = 0 /\ start = {} /\ lastLaunch = "none"
  BY DEF Init
<1>2. \A w \in Workers : ~(w < 0)
  BY StartupAssumption DEF Workers
<1> QED
  BY <1>1, <1>2 DEF StopInv, NoLateLaunch

\* What a worker's step does to the flags: it adds the worker to `launching' only
\* from "init", sets the start flag only on the way to the loop, and touches
\* nothing of the control thread's.
LEMMA WorkerStop ==
    ASSUME LInv, NEW w \in Workers, Worker(w)
    PROVE  StopInv'
<1>t. pc \in [Workers -> Places] /\ start \in SUBSET Workers /\ ctl' = ctl
  BY DEF LInv, IInv, TypeOK, Worker, Alloc, Arrive, Pass, InitWorker, InitRss, Start, Leave
<1>1. CASE Alloc(w) \/ Arrive(w, "arrive1", "wait1") \/ Pass(w, "wait1", "init")
           \/ Arrive(w, "arrive2", "wait2") \/ Pass(w, "wait2", "rss") \/ InitRss(w)
  <2>1. /\ UNCHANGED <<start, launching, lastLaunch>>
        /\ pc[w] \notin {"run", "closed"} /\ \A v \in Workers \ {w} : pc'[v] = pc[v]
    BY <1>1, <1>t DEF Alloc, Arrive, Pass, InitRss, Goto
  <2> QED
    BY <1>t, <2>1 DEF LInv, StopInv, NoLateLaunch
<1>2. CASE InitWorker(w)
  <2>1. /\ UNCHANGED <<start, lastLaunch>> /\ w \notin start
        /\ \A v \in Workers \ {w} : pc'[v] = pc[v]
    BY <1>2, <1>t DEF InitWorker, Goto, LInv, StopInv
  <2>2. ctl.at = "wait_start"
    BY <2>1 DEF LInv, StopInv
  <2> QED
    BY <1>t, <2>1, <2>2 DEF LInv, StopInv, NoLateLaunch
<1>3. CASE Start(w)
  <2>1. /\ start' = start \cup {w} /\ UNCHANGED <<launching, lastLaunch>>
        /\ pc'[w] = "run" /\ \A v \in Workers \ {w} : pc'[v] = pc[v]
    BY <1>3, <1>t DEF Start, Goto
  <2> QED
    BY <1>t, <2>1 DEF LInv, StopInv, NoLateLaunch
<1>4. CASE Leave(w)
  <2>1. /\ UNCHANGED <<start, launching, lastLaunch>>
        /\ pc'[w] = "closed" /\ \A v \in Workers \ {w} : pc'[v] = pc[v]
    BY <1>4, <1>t DEF Leave, Goto
  <2> QED
    BY <1>t, <2>1 DEF LInv, StopInv, NoLateLaunch
<1> QED
  BY <1>1, <1>2, <1>3, <1>4 DEF Worker

\* What a step of the control thread does: the two loops over the work spaces move
\* on by one, and only past a work space whose flag was seen, or was cleared.
LEMMA CtlStop ==
    ASSUME LInv, Ctl
    PROVE  StopInv'
<1>t. /\ start \in SUBSET Workers /\ launching \in SUBSET Workers /\ ctl.i \in Nat
      /\ CPU_NUM \in Nat \ {0} /\ UNCHANGED <<pc, start, lastLaunch>>
      /\ ctl.at \in {"wait_start", "stop", "exit"} => ctl.i <= CPU_NUM
  BY StartupAssumption DEF LInv, IInv, TypeOK, Ctl, WaitStart, SlowSecond, RunSecond, StopAll,
     DelaySecond, ExitAll
<1>w. \A w \in Workers : w \in Nat /\ w < CPU_NUM
  BY <1>t DEF Workers
<1>1. CASE WaitStart
  <2>1. launching' = launching /\ ctl.at = "wait_start"
    BY <1>1 DEF WaitStart
  <2>2. CASE ctl.i = CPU_NUM
    <3>1. ctl'.at = "slow"
      BY <1>1, <2>2 DEF WaitStart, CtlGoto
    <3>2. start = Workers
      BY <1>t, <1>w, <2>1, <2>2 DEF LInv, StopInv
    <3> QED
      BY <1>t, <2>1, <3>1, <3>2 DEF LInv, StopInv, NoLateLaunch
  <2>3. CASE ctl.i # CPU_NUM
    <3>1. /\ ctl'.at = "wait_start"
          /\ ctl'.i = IF ctl.i \in all \cap start THEN ctl.i + 1 ELSE 0
      BY <1>1, <2>3 DEF WaitStart, CtlGoto
    <3>2. \A w \in Workers : w < ctl'.i => w \in start
      BY <1>t, <1>w, <2>1, <3>1 DEF LInv, StopInv
    <3> QED
      BY <1>t, <2>1, <3>1, <3>2 DEF LInv, StopInv, NoLateLaunch
  <2> QED
    BY <2>2, <2>3
<1>2. CASE SlowSecond \/ RunSecond
  <2>1. /\ launching' = launching /\ ctl.at # "wait_start"
        /\ ctl'.at \in {"slow", "run", "stop"} /\ (ctl'.at = "stop" => ctl'.i = 0)
    BY <1>2 DEF SlowSecond, RunSecond, CtlGoto
  <2> QED
    BY <1>t, <1>w, <2>1 DEF LInv, StopInv, NoLateLaunch
<1>3. CASE StopAll
  <2>1. ctl.at = "stop" /\ start = Workers
    BY <1>3 DEF StopAll, LInv, StopInv
  <2>2. all = Workers
    BY <2>1 DEF LInv, StopInv, IInv, BarrierInv
  <2>3. launching' = launching \ {ctl.i}
    BY <1>3, <1>t, <2>2 DEF StopAll
  <2>4. CASE ctl.i = CPU_NUM
    <3>1. ctl'.at = "delay"
      BY <1>3, <2>4 DEF StopAll, CtlGoto
    <3>2. launching = {}
      BY <1>t, <1>w, <2>1, <2>4 DEF LInv, StopInv
    <3> QED
      BY <1>t, <2>1, <2>3, <3>1, <3>2 DEF LInv, StopInv, NoLateLaunch
  <2>5. CASE ctl.i # CPU_NUM
    <3>1. ctl'.at = "stop" /\ ctl'.i = ctl.i + 1
      BY <1>3, <2>5 DEF StopAll, CtlGoto
    <3>2. \A w \in Workers : w < ctl'.i => w \notin launching'
      BY <1>t, <1>w, <2>1, <2>3, <3>1 DEF LInv, StopInv
    <3> QED
      BY <1>t, <2>1, <3>1, <3>2 DEF LInv, StopInv, NoLateLaunch
  <2> QED
    BY <2>4, <2>5
<1>4. CASE DelaySecond \/ ExitAll
  <2>1. /\ launching' = launching /\ ctl.at \in {"delay", "exit"}
        /\ ctl'.at \in {"delay", "exit", "done"}
    BY <1>4 DEF DelaySecond, ExitAll, CtlGoto
  <2> QED
    BY <1>t, <2>1 DEF LInv, StopInv, NoLateLaunch
<1> QED
  BY <1>1, <1>2, <1>3, <1>4 DEF Ctl

\* Once work_space_stop_all has returned, no worker launches a connection any more,
\* whatever the number of workers, the durations and the interleaving with the
\* workers' start.
THEOREM NobodyLaunchesLate == Spec => []NoLateLaunch
<1>1. Init => LInv
  BY InitInv, InitStop DEF LInv
<1>2. LInv /\ [Next]_vars => LInv'
  <2> SUFFICES ASSUME LInv, [Next]_vars PROVE LInv'
    OBVIOUS
  <2>1. IInv'
    BY NextType, NextBarrier DEF LInv, IInv
  <2>2. ASSUME NEW w \in Workers, Launch(w) PROVE StopInv'
    BY <2>2 DEF Launch, LInv, StopInv, NoLateLaunch, IInv, TypeOK
  <2>3. ASSUME NEW w \in Workers, Fail(w) PROVE StopInv'
    BY <2>3 DEF Fail, LInv, StopInv, NoLateLaunch
  <2>4. ASSUME Interrupt \/ UNCHANGED vars PROVE StopInv'
    BY <2>4 DEF Interrupt, vars, LInv, StopInv, NoLateLaunch
  <2>5. StopInv'
    BY <2>2, <2>3, <2>4, WorkerStop, CtlStop DEF Next
  <2> QED
    BY <2>1, <2>5 DEF LInv
<1>3. LInv => NoLateLaunch
  BY DEF LInv, StopInv
<1> QED
  BY <1>1, <1>2, <1>3, PTL DEF Spec
=============================================================================
