------------------------------- MODULE Launch -------------------------------
(***************************************************************************)
(* How a dperf client paces its connections: client_init (client.c), the   *)
(* launch step of every worker (work_space.h, socket.h) and the control    *)
(* thread's slow start and stop (ctl.c, work_space.c), without rss.        *)
(*                                                                         *)
(* Each worker owns its client_launch record, its socket pool and its      *)
(* socket_current; the control thread writes launch_interval and           *)
(* launch_num of all of them, and client_init shares cfg->launch_num.      *)
(***************************************************************************)
EXTENDS Integers, FiniteSets, FiniteSetsExt

CONSTANTS
    CPU_NUM, TSC_PER_SEC,
    Targets,              \* records of cfg->cps, cfg->cc (0 for no target),
                          \* cfg->launch_num (0 for the default) and the sockets in
                          \* the pool of a worker
    DEFAULT_LAUNCH_MIN, DEFAULT_LAUNCH_MAX, DEFAULT_LAUNCH,
    WAIT, SLOW_START, DURATION,  \* cfg->wait and so on, in seconds
    MaxTsc,               \* bound: time stops here
    MaxLag,               \* bound: how late a worker may launch
    MaxCloses             \* bound: connections that end

Workers == 0 .. CPU_NUM - 1

ASSUME LaunchAssumption ==
    /\ {CPU_NUM, TSC_PER_SEC, WAIT, SLOW_START, DURATION} \subseteq Nat \ {0}
    /\ {DEFAULT_LAUNCH_MIN, DEFAULT_LAUNCH_MAX, DEFAULT_LAUNCH} \subseteq Nat \ {0}
    /\ {MaxTsc, MaxLag, MaxCloses} \subseteq Nat
    /\ \A t \in Targets :
        /\ t \in [cps : Nat \ {0}, cc : Nat, launch : Nat, sockets : Nat \ {0}]
        \* config_check_target, with a retransmit_timeout of at least 2 seconds
        /\ t.sockets >= t.cc \div CPU_NUM /\ t.sockets >= 2 * (t.cps \div CPU_NUM)

VARIABLES
    target,    \* the targets of this test
    tsc,       \* the time
    launchNum, \* cfg->launch_num
    cl,        \* struct client_launch of each worker
    next,      \* socket_pool.next of each worker
    busy,      \* the sockets of each worker that are not SK_CLOSED
    ctl,       \* the control thread: where it is, its loop counter, when it wakes
    gStop,     \* g_stop, set by SIGINT
    opened,    \* history: connections opened by each worker
    first,     \* history: the earliest launch_next of any worker
    closes     \* history: connections closed

vars == <<target, tsc, launchNum, cl, next, busy, ctl, gStop, opened, first, closes>>

CPS == target.cps
CC == target.cc
SOCKET_NUM == target.sockets
-----------------------------------------------------------------------------
\* mutant: the remainder goes to the first worker on top of a rounded-up share
AssignTaskRoundsUp(id, goal) ==
    IF goal <= CPU_NUM THEN (IF id < goal THEN 1 ELSE 0)
    ELSE LET val == (goal + CPU_NUM - 1) \div CPU_NUM
         IN  IF id = 0 THEN goal - (goal \div CPU_NUM) * (CPU_NUM - 1) ELSE val

\* client_assign_task: worker 0 also takes what does not divide evenly
AssignTask(id, goal) ==
    IF goal <= CPU_NUM THEN (IF id < goal THEN 1 ELSE 0)
    ELSE LET val == goal \div CPU_NUM
         IN  IF id = 0 THEN goal - val * (CPU_NUM - 1) ELSE val

\* the default of launch_num: the smallest allowed divisor of cps
DefaultLaunch(cps) ==
    LET fits == {n \in DEFAULT_LAUNCH_MIN .. DEFAULT_LAUNCH_MAX : cps % n = 0}
    IN  IF fits = {} THEN DEFAULT_LAUNCH ELSE Min(fits)

Idle == [cc |-> 0, num |-> 0, interval |-> 0, default |-> 0, next |-> 0]

Init ==
    /\ target \in Targets
    /\ tsc = 0 /\ launchNum = target.launch
    /\ cl = [w \in {} |-> Idle]
    /\ next = [w \in Workers |-> 0] /\ busy = [w \in Workers |-> {}]
    /\ ctl = [at |-> "wait_start", i |-> 0, wake |-> 0] /\ gStop = FALSE
    /\ opened = [w \in Workers |-> 0] /\ first = MaxTsc /\ closes = 0

\* client_init of worker w; cl gains an entry when the worker is initialised
ClientInit(w) ==
    LET cps == AssignTask(w, CPS)
        n == IF launchNum = 0 THEN DefaultLaunch(cps) ELSE launchNum
        few == cps <= n
        interval == IF few THEN TSC_PER_SEC ELSE TSC_PER_SEC \div (cps \div n)
        rec == [cc |-> AssignTask(w, CC), num |-> IF few THEN cps ELSE n,
                interval |-> interval, default |-> interval,
                next |-> tsc + WAIT * TSC_PER_SEC]
        active == cps > 0
    IN  /\ w \notin DOMAIN cl
        /\ cl' = [v \in DOMAIN cl \cup {w} |->
                      IF v # w THEN cl[v] ELSE IF active THEN rec ELSE Idle]
        /\ launchNum' = IF active THEN n ELSE launchNum
        /\ first' = IF active THEN Min({first, rec.next}) ELSE first
        /\ UNCHANGED <<target, tsc, next, busy, ctl, gStop, opened, closes>>

-----------------------------------------------------------------------------
Current(w) == Cardinality(busy[w])

\* mutants of the cap: it is not looked at; the last free place is never used
LaunchCountNoGap(w) ==
    IF cl[w].cc > 0 /\ Current(w) >= cl[w].cc THEN 0 ELSE cl[w].num
LaunchCountOneLess(w) ==
    LET gap == cl[w].cc - Current(w)
    IN  IF cl[w].cc > 0 THEN Min({Max({gap - 1, 0}), cl[w].num}) ELSE cl[w].num

\* work_space_client_launch_num, once launch_next has come
LaunchCount(w) ==
    LET gap == cl[w].cc - Current(w)
    IN  IF cl[w].cc > 0 THEN Min({Max({gap, 0}), cl[w].num}) ELSE cl[w].num

\* The next n sockets of the pool, which is used in a circle.
Picked(w, n) == {(next[w] + i) % SOCKET_NUM : i \in 0 .. n - 1}

\* One call of tcp_client_launch: socket_client_open passes over a socket that
\* is still in use, and its turn is lost.
ClientLaunch(w) ==
    /\ DOMAIN cl = Workers   \* the second work_space_wait_all
    /\ cl[w].next <= tsc
    /\ LET n == LaunchCount(w)
       IN  /\ busy' = [busy EXCEPT ![w] = @ \cup Picked(w, n)]
           /\ opened' = [opened EXCEPT ![w] = @ + Cardinality(Picked(w, n) \ busy[w])]
           /\ next' = [next EXCEPT ![w] = (@ + n) % SOCKET_NUM]
    /\ cl' = [cl EXCEPT ![w].next = @ + cl[w].interval]
    /\ UNCHANGED <<target, tsc, launchNum, ctl, gStop, first, closes>>

\* a connection of worker w ends (socket_close)
Close(w) ==
    /\ closes < MaxCloses /\ closes' = closes + 1
    /\ \E s \in busy[w] : busy' = [busy EXCEPT ![w] = @ \ {s}]
    /\ UNCHANGED <<target, tsc, launchNum, cl, next, ctl, gStop, opened, first>>

-----------------------------------------------------------------------------
\* work_space_set_launch_interval
SetInterval(x) ==
    [w \in DOMAIN cl |->
        [cl[w] EXCEPT !.interval = Max({cl[w].default, Min({x, TSC_PER_SEC})})]]

\* the interval of second i of ctl_slow_start
SlowInterval(i) ==
    LET step == Max({(CPS \div CPU_NUM) \div SLOW_START, 1})
    IN  (TSC_PER_SEC * launchNum) \div (step * i)

\* ctl_thread_main after work_space_wait_start: all workers are ready
CtlStart ==
    /\ ctl.at = "wait_start" /\ DOMAIN cl = Workers
    /\ ctl' = [at |-> "slow", i |-> 1, wake |-> tsc + TSC_PER_SEC]
    /\ cl' = SetInterval(SlowInterval(1))
    /\ UNCHANGED <<target, tsc, launchNum, next, busy, gStop, opened, first, closes>>

\* mutant: an interrupted slow start returns at once
CtlSlowNoReset ==
    LET last == ctl.i = SLOW_START
    IN  /\ ctl.at = "slow" /\ tsc >= ctl.wake
        /\ ctl' = [at |-> IF last \/ gStop THEN "run" ELSE "slow",
                   i |-> IF last \/ gStop THEN 1 ELSE ctl.i + 1,
                   wake |-> tsc + TSC_PER_SEC]
        /\ cl' = IF last THEN SetInterval(0)
                 ELSE IF gStop THEN cl ELSE SetInterval(SlowInterval(ctl.i + 1))
        /\ UNCHANGED <<target, tsc, launchNum, next, busy, gStop, opened, first, closes>>

\* one second of ctl_slow_start is over
CtlSlow ==
    LET last == ctl.i = SLOW_START \/ gStop
    IN  /\ ctl.at = "slow" /\ tsc >= ctl.wake
        /\ ctl' = [at |-> IF last THEN "run" ELSE "slow",
                   i |-> IF last THEN 1 ELSE ctl.i + 1, wake |-> tsc + TSC_PER_SEC]
        /\ cl' = SetInterval(IF last THEN 0 ELSE SlowInterval(ctl.i + 1))
        /\ UNCHANGED <<target, tsc, launchNum, next, busy, gStop, opened, first, closes>>

\* one second of the test is over; after the last one, work_space_stop_all
CtlRun ==
    LET last == ctl.i = DURATION \/ gStop
    IN  /\ ctl.at = "run" /\ tsc >= ctl.wake
        /\ ctl' = [at |-> IF last THEN "stop" ELSE "run",
                   i |-> IF last THEN 0 ELSE ctl.i + 1, wake |-> tsc + TSC_PER_SEC]
        /\ cl' = IF last THEN [w \in Workers |-> [cl[w] EXCEPT !.num = 0]] ELSE cl
        /\ UNCHANGED <<target, tsc, launchNum, next, busy, gStop, opened, first, closes>>

\* SIGINT
Interrupt ==
    /\ ~gStop /\ ctl.at # "stop" /\ gStop' = TRUE
    /\ UNCHANGED <<target, tsc, launchNum, cl, next, busy, ctl, opened, first, closes>>

\* Time passes; no worker and no control step is later than MaxLag.
Tick ==
    /\ tsc < MaxTsc /\ tsc' = tsc + 1
    /\ ctl.at # "stop"
    /\ \A w \in DOMAIN cl : cl[w].num > 0 => tsc - cl[w].next < MaxLag
    /\ tsc - ctl.wake < MaxLag
    /\ UNCHANGED <<target, launchNum, cl, next, busy, ctl, gStop, opened, first, closes>>

Next ==
    \/ \E w \in Workers : ClientInit(w) \/ ClientLaunch(w) \/ Close(w)
    \/ CtlStart \/ CtlSlow \/ CtlRun \/ Interrupt \/ Tick

Spec == Init /\ [][Next]_vars

\* Every worker polls its launch step, and the control thread wakes up.
Fairness ==
    /\ \A w \in Workers : WF_vars(ClientInit(w)) /\ WF_vars(ClientLaunch(w))
    /\ WF_vars(CtlStart) /\ WF_vars(CtlSlow) /\ WF_vars(CtlRun) /\ WF_vars(Tick)

FairSpec == Spec /\ Fairness
-----------------------------------------------------------------------------
\* The open connections of the whole client: a worker and its socket
Connections == {c \in Workers \X (0 .. SOCKET_NUM - 1) : c[2] \in busy[c[1]]}

\* The connections opened so far: a worker and its number for the connection
Openings == UNION {{w} \X (1 .. opened[w]) : w \in Workers}

\* cc is a cap on the concurrent connections of the whole client: the workers'
\* own caps, enforced by each on its own socket_current, add up to it.
WithinCc == CC > 0 => Cardinality(Connections) <= CC

\* The cycles in which worker w spends its share of cps at full speed: those of a
\* second, without the ones client_init rounds off the intervals between launches
ShareCycles(w) ==
    LET cps == AssignTask(w, CPS)
    IN  IF launchNum = 0 \/ cps <= launchNum THEN TSC_PER_SEC
        ELSE TSC_PER_SEC - (TSC_PER_SEC % (cps \div launchNum))

\* cps is a cap on the rate of the whole client: t seconds after the first
\* worker may launch, at most cps * (t + 1) connections have been opened, through
\* slow start, late workers that catch up, and interrupts; where intervals are
\* rounded, a second is as short as the rounding makes it for some worker.
WithinCps ==
    LET t      == Max({tsc - first, 0})
        second == Min({ShareCycles(w) : w \in Workers})
    IN  Cardinality(Openings) * second <= CPS * (t + TSC_PER_SEC)

\* However slow start ends, the workers then launch at their own full rate; and
\* at no time is an active worker without a pause between two launches.
FullSpeed ==
    /\ ctl.at \in {"run", "stop"} => \A w \in Workers : cl[w].interval = cl[w].default
    /\ \A w \in DOMAIN cl : cl[w].num > 0 => cl[w].interval > 0

\* A client with a cc target reaches it within the test, unless interrupted.
ReachesCc == <>(Cardinality(Connections) = CC \/ gStop)
=============================================================================
