------------------------------ MODULE Startup ------------------------------
(***************************************************************************)
(* The life of a dperf process: the worker threads from lcore_main         *)
(* (main.c) through work_space_new and its two work_space_wait_all         *)
(* barriers (work_space.c) to the end of their loops, and the control      *)
(* thread (ctl.c) that waits for them, times the test, stops and exits     *)
(* them.  The threads share g_wait_count, g_work_space_all and the start,  *)
(* stop and exit flags of the work spaces.                                 *)
(***************************************************************************)
EXTENDS Integers, FiniteSets

CONSTANTS
    CPU_NUM,      \* cfg->cpu_num
    SLOW_START, DURATION, DELAY_SEC,  \* seconds the control thread counts
    CanFail       \* whether a worker may fail, which ends the process

ASSUME StartupAssumption ==
    /\ CPU_NUM \in Nat \ {0}
    /\ SLOW_START \in Nat /\ DURATION \in Nat \ {0} /\ DELAY_SEC \in Nat \ {0}
    /\ CanFail \in BOOLEAN

Workers == 0 .. CPU_NUM - 1

VARIABLES
    pc,        \* where each worker is
    waitCount, \* g_wait_count
    all,       \* the workers whose work space is in g_work_space_all
    hash,      \* socket_table_hash of each worker: whose tables it holds
    start, stop, exit,  \* the flags of the work spaces, as sets of workers
    launching, \* the workers with launch_num > 0
    ctl,       \* where the control thread is, and its loop counter
    gStop,     \* g_stop
    alive,     \* FALSE once a worker called exit(-1)
    lastLaunch \* history: where the control thread was when a worker last launched

vars == <<pc, waitCount, all, hash, start, stop, exit, launching, ctl, gStop,
          alive, lastLaunch>>

Init ==
    /\ pc = [w \in Workers |-> "alloc"] /\ waitCount = 0
    /\ all = {} /\ hash = [w \in Workers |-> {}]
    /\ start = {} /\ stop = {} /\ exit = {} /\ launching = {}
    /\ ctl = [at |-> "wait_start", i |-> 0] /\ gStop = FALSE /\ alive = TRUE
    /\ lastLaunch = "none"

Goto(w, from, to) == alive /\ pc[w] = from /\ pc' = [pc EXCEPT ![w] = to]
-----------------------------------------------------------------------------
\* work_space_new up to work_space_init_time
Alloc(w) ==
    /\ Goto(w, "alloc", "arrive1")
    /\ all' = all \cup {w}
    /\ UNCHANGED <<waitCount, hash, start, stop, exit, launching, ctl, gStop, alive,
                   lastLaunch>>

\* work_space_wait_all: the increment
Arrive(w, from, to) ==
    /\ Goto(w, from, to)
    /\ waitCount' = waitCount + 1
    /\ UNCHANGED <<all, hash, start, stop, exit, launching, ctl, gStop, alive,
                   lastLaunch>>

\* mutant: any count beyond the number of workers opens the barrier
BarrierOpenLate == waitCount >= CPU_NUM

BarrierOpen == waitCount > 0 /\ waitCount % CPU_NUM = 0

\* work_space_wait_all: the read that ends the spinning
Pass(w, from, to) ==
    /\ Goto(w, from, to)
    /\ BarrierOpen
    /\ UNCHANGED <<waitCount, all, hash, start, stop, exit, launching, ctl, gStop,
                   alive, lastLaunch>>

\* work_space_new between the barriers, with client_init
InitWorker(w) ==
    /\ Goto(w, "init", "arrive2")
    /\ launching' = launching \cup {w}
    /\ UNCHANGED <<waitCount, all, hash, start, stop, exit, ctl, gStop, alive, lastLaunch>>

\* work_space_init_rss
InitRss(w) ==
    /\ Goto(w, "rss", "gateway")
    /\ hash' = [hash EXCEPT ![w] = all]
    /\ UNCHANGED <<waitCount, all, start, stop, exit, launching, ctl, gStop, alive,
                   lastLaunch>>

\* neigh_check_gateway has found the gateway; the worker enters its loop
Start(w) ==
    /\ Goto(w, "gateway", "run")
    /\ start' = start \cup {w}
    /\ UNCHANGED <<waitCount, all, hash, stop, exit, launching, ctl, gStop, alive,
                   lastLaunch>>

\* the worker launches connections
Launch(w) ==
    /\ alive /\ pc[w] = "run" /\ w \in launching
    /\ lastLaunch' = ctl.at
    /\ UNCHANGED <<pc, waitCount, all, hash, start, stop, exit, launching, ctl, gStop,
                   alive>>

\* slow_timer_run sees ws->exit, the loop ends
Leave(w) ==
    /\ w \in exit
    /\ Goto(w, "run", "closed")
    /\ UNCHANGED <<waitCount, all, hash, start, stop, exit, launching, ctl, gStop,
                   alive, lastLaunch>>

\* no memory, a failing init or no gateway: lcore_main calls exit(-1)
Fail(w) ==
    /\ CanFail /\ alive /\ pc[w] \in {"alloc", "init", "gateway"}
    /\ alive' = FALSE
    /\ UNCHANGED <<pc, waitCount, all, hash, start, stop, exit, launching, ctl, gStop,
                   lastLaunch>>

Worker(w) ==
    \/ Alloc(w)
    \/ Arrive(w, "arrive1", "wait1") \/ Pass(w, "wait1", "init")
    \/ InitWorker(w)
    \/ Arrive(w, "arrive2", "wait2") \/ Pass(w, "wait2", "rss")
    \/ InitRss(w) \/ Start(w) \/ Leave(w)
-----------------------------------------------------------------------------
CtlGoto(at, i) == ctl' = [at |-> at, i |-> i]

\* mutant: a work space that exists is taken for one that runs
WaitStartExists ==
    /\ alive /\ ctl.at = "wait_start"
    /\ IF ctl.i = CPU_NUM THEN CtlGoto("slow", 0)
       ELSE CtlGoto("wait_start", IF ctl.i \in all THEN ctl.i + 1 ELSE 0)
    /\ UNCHANGED <<pc, waitCount, all, hash, start, stop, exit, launching, gStop, alive,
                   lastLaunch>>

\* work_space_wait_start looks at one work space after the other, and starts over
\* when one is missing or has not started
WaitStart ==
    /\ alive /\ ctl.at = "wait_start"
    /\ IF ctl.i = CPU_NUM THEN CtlGoto("slow", 0)
       ELSE CtlGoto("wait_start", IF ctl.i \in all \cap start THEN ctl.i + 1 ELSE 0)
    /\ UNCHANGED <<pc, waitCount, all, hash, start, stop, exit, launching, gStop, alive,
                   lastLaunch>>

\* one second of ctl_slow_start (SLOW_START = 0: a server, which has none)
SlowSecond ==
    /\ alive /\ ctl.at = "slow"
    /\ IF ctl.i = SLOW_START THEN CtlGoto("run", 0)
       ELSE IF gStop THEN CtlGoto("run", 0) ELSE CtlGoto("slow", ctl.i + 1)
    /\ UNCHANGED <<pc, waitCount, all, hash, start, stop, exit, launching, gStop, alive,
                   lastLaunch>>

\* one second of the test
RunSecond ==
    /\ alive /\ ctl.at = "run"
    /\ IF gStop \/ ctl.i + 1 = DURATION THEN CtlGoto("stop", 0) ELSE CtlGoto("run", ctl.i + 1)
    /\ UNCHANGED <<pc, waitCount, all, hash, start, stop, exit, launching, gStop, alive,
                   lastLaunch>>

\* work_space_stop_all, one work space at a time
StopAll ==
    /\ alive /\ ctl.at = "stop"
    /\ IF ctl.i = CPU_NUM THEN CtlGoto("delay", 0) ELSE CtlGoto("stop", ctl.i + 1)
    /\ launching' = launching \ ({ctl.i} \cap all)
    /\ stop' = stop \cup ({ctl.i} \cap all)
    /\ UNCHANGED <<pc, waitCount, all, hash, start, exit, gStop, alive, lastLaunch>>

\* one of the DELAY_SEC seconds in which open connections end
DelaySecond ==
    /\ alive /\ ctl.at = "delay"
    /\ IF ctl.i + 1 = DELAY_SEC THEN CtlGoto("exit", 0) ELSE CtlGoto("delay", ctl.i + 1)
    /\ UNCHANGED <<pc, waitCount, all, hash, start, stop, exit, launching, gStop, alive,
                   lastLaunch>>

\* mutant: the last work space is missed
ExitAllButLast ==
    /\ alive /\ ctl.at = "exit"
    /\ IF ctl.i = CPU_NUM - 1 THEN CtlGoto("done", 0) ELSE CtlGoto("exit", ctl.i + 1)
    /\ exit' = exit \cup (IF ctl.i = CPU_NUM - 1 THEN {} ELSE {ctl.i} \cap all)
    /\ UNCHANGED <<pc, waitCount, all, hash, start, stop, launching, gStop, alive,
                   lastLaunch>>

\* work_space_exit_all, one work space at a time, then ctl_print_total
ExitAll ==
    /\ alive /\ ctl.at = "exit"
    /\ IF ctl.i = CPU_NUM THEN CtlGoto("done", 0) ELSE CtlGoto("exit", ctl.i + 1)
    /\ exit' = exit \cup ({ctl.i} \cap all)
    /\ UNCHANGED <<pc, waitCount, all, hash, start, stop, launching, gStop, alive,
                   lastLaunch>>

Ctl == WaitStart \/ SlowSecond \/ RunSecond \/ StopAll \/ DelaySecond \/ ExitAll

\* SIGINT: ctl_signal_handler
Interrupt ==
    /\ alive /\ ~gStop /\ ctl.at # "done" /\ gStop' = TRUE
    /\ UNCHANGED <<pc, waitCount, all, hash, start, stop, exit, launching, ctl, alive,
                   lastLaunch>>

Next ==
    \/ \E w \in Workers : Worker(w) \/ Launch(w) \/ Fail(w)
    \/ Ctl \/ Interrupt

Spec == Init /\ [][Next]_vars

\* Every thread has a CPU and keeps running; the gateway answers (or the worker
\* fails); nothing obliges anyone to press Ctrl-C.
Fairness == WF_vars(Ctl) /\ \A w \in Workers : WF_vars(Worker(w))

FairSpec == Spec /\ Fairness
-----------------------------------------------------------------------------
Places == {"alloc", "arrive1", "wait1", "init", "arrive2", "wait2", "rss", "gateway",
           "run", "closed"}
CtlPlaces == {"wait_start", "slow", "run", "stop", "delay", "exit", "done"}

\* Types; the control thread's loops stay inside g_work_space_all.
TypeOK ==
    /\ pc \in [Workers -> Places] /\ waitCount \in Nat
    /\ all \subseteq Workers /\ hash \in [Workers -> SUBSET Workers]
    /\ {start, stop, exit, launching} \subseteq SUBSET Workers
    /\ ctl.at \in CtlPlaces /\ ctl.i \in Nat
    /\ ctl.at \in {"wait_start", "stop", "exit"} => ctl.i <= CPU_NUM
    /\ gStop \in BOOLEAN /\ alive \in BOOLEAN
    /\ lastLaunch \in CtlPlaces \cup {"none"}

\* The workers that have arrived at the first and the second barrier, and those
\* that have passed them.
Arrived1 == {w \in Workers : pc[w] \notin {"alloc", "arrive1"}}
Passed1 == {w \in Workers : pc[w] \notin {"alloc", "arrive1", "wait1"}}
Arrived2 == {w \in Workers : pc[w] \in {"wait2", "rss", "gateway", "run", "closed"}}
Passed2 == {w \in Workers : pc[w] \in {"rss", "gateway", "run", "closed"}}
Linked == {w \in Workers : pc[w] \in {"gateway", "run", "closed"}}

\* What the one counter of both barriers tells: it counts the arrivals at both,
\* and a worker is past a barrier only when all have arrived there.
BarrierInv ==
    /\ waitCount = Cardinality(Arrived1) + Cardinality(Arrived2)
    /\ all = {w \in Workers : pc[w] # "alloc"}
    /\ Passed1 # {} => Arrived1 = Workers
    /\ Passed2 # {} => Arrived2 = Workers
    /\ \A w \in Linked : hash[w] = Workers

\* A running worker finds the socket table of every other worker, however the
\* threads were scheduled: work_space_init_rss never reads g_work_space_all, or a
\* table that is not initialised, too early.
TablesComplete ==
    /\ \A w \in Workers : pc[w] = "run" => hash[w] = Workers
    /\ \A w \in Linked, v \in Workers : pc[v] \notin {"alloc", "arrive1", "wait1", "init"}

\* Once work_space_stop_all has returned no worker launches, so the connections
\* get DELAY_SEC to end: no work space is set up behind the control thread's back.
NoLateLaunch == lastLaunch \notin {"delay", "exit", "done"}

\* Once all workers run, the control thread ends the test and all of them.
Ended == ctl.at = "done" /\ \A w \in Workers : pc[w] = "closed"
StartedEnds == (start = Workers) ~> (Ended \/ ~alive)

\* "exit control" and "signal handler" of the control thread: SIGINT ends dperf.
InterruptEnds == gStop ~> (Ended \/ ~alive)
=============================================================================
