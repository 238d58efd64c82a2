-------------------------------- MODULE Udp --------------------------------
(***************************************************************************)
(* A UDP client worker with several sockets and the server that answers it *)
(* (src/src/udp.c, with socket_timer_run of src/src/socket_timer.h).       *)
(*                                                                         *)
(* The client loop is a program: it is at "loop" between two of its steps, *)
(* inside udp_client_launch or inside socket_timer_run.  The latter two    *)
(* take one iteration per step, because ws->time.tsc stands still in them  *)
(* while the control thread may set ws->stop.  A handler is one step.      *)
(***************************************************************************)
EXTENDS SocketTimer

CONSTANTS
    PoolSize,       \* socket_pool.num; Socket is 0 .. PoolSize - 1
    Retransmit,     \* g_retransmit_timer.queue
    Keepalive,      \* g_keepalive_timer.queue
    Configs,        \* configurations to choose from
    DURATION,       \* g_config.duration
    StopSlack,      \* how long after DURATION the control thread may stop
    MaxTsc,         \* bound: the last tsc
    NetMax,         \* bound: packets in flight per socket and direction
    FiredMax        \* bound: handler calls counted per socket and timer run

(***************************************************************************)
(* g_config, as config_check_keepalive and config_check_pipeline leave it. *)
(***************************************************************************)
ConfigOK(c) ==
    /\ c.interval > 0 => c.keepalive
    /\ c.flood /\ c.keepalive => c.interval > 0
    /\ c.pipeline > 0 => c.keepalive /\ (c.flood \/ c.interval = 0)

ConfigType ==
    [keepalive : BOOLEAN, flood : BOOLEAN, interval : Nat, pipeline : Nat,
     rto : Nat \ {0}]

ASSUME UdpAssumption ==
    /\ PoolSize \in Nat \ {0}
    /\ Socket = 0 .. PoolSize - 1
    /\ Retransmit \in Queue /\ Keepalive \in Queue /\ Retransmit # Keepalive
    /\ \A c \in Configs : c \in ConfigType /\ ConfigOK(c)
    /\ DURATION \in Nat /\ StopSlack \in Nat /\ MaxTsc \in Nat
    /\ NetMax \in Nat /\ FiredMax \in Nat

VARIABLES
    cfg,        \* the configuration, chosen once
    state,      \* sk->state
    tsc,        \* sk->timer_tsc
    pool,       \* socket_pool.next
    now,        \* ws->time.tsc
    stop,       \* ws->stop, written by the control thread
    over,       \* ws->time.second.count has reached the duration
    pc,         \* where the client loop is
    pipe,       \* the local variable pipeline of udp_client_launch
    req, resp,  \* requests and responses in flight
    ticked,     \* ws->time.tsc has moved on since the last timer run
    fired       \* history: handler calls for a socket in this timer run

network == <<req, resp>>
vars == <<timers, cfg, state, tsc, pool, now, stop, over, pc, pipe, req, resp,
          ticked, fired>>

Closed == "SK_CLOSED"
SynSent == "SK_SYN_SENT"
SynReceived == "SK_SYN_RECEIVED"

Init ==
    /\ TimersInit
    /\ cfg \in Configs
    /\ state = [s \in Socket |-> Closed]
    /\ tsc = [s \in Socket |-> 0]
    /\ pool = 0 /\ now = 0 /\ ticked = FALSE
    /\ stop = FALSE /\ over = FALSE
    /\ pc = "loop" /\ pipe = 0
    /\ req = [s \in Socket |-> 0]
    /\ resp = [s \in Socket |-> 0]
    /\ fired = [s \in Socket |-> 0]

\* work_space_in_duration
InDuration == ~over /\ ~stop

Lesser(a, b) == IF a <= b THEN a ELSE b

\* udp_send, n times: without an mbuf, or when the transmit queue or the
\* network drops it, a packet does not get anywhere
Send(s, n) ==
    \E k \in req[s] .. Lesser(NetMax, req[s] + n) : req' = [req EXCEPT ![s] = k]

\* how many packets the do-while loops send for a counter of n
Burst(n) == IF n > 0 THEN n ELSE 1

-----------------------------------------------------------------------------
\* mutant: the gap is never too large
AccurateTscNoGap(s) ==
    LET i == cfg.interval
    IN  CASE now <= tsc[s] + i     -> tsc[s]
          [] now > tsc[s] + i /\ now <= tsc[s] + 2 * i -> tsc[s] + i
          [] OTHER                 -> tsc[s] + 2 * i

\* socket_accurate_timer_tsc: the start of the interval before the one now is
\* in, as long as that is at most two intervals on
AccurateTsc(s) ==
    LET i == cfg.interval
    IN  IF now <= tsc[s] + i THEN tsc[s]
        ELSE IF now <= tsc[s] + 2 * i THEN tsc[s] + i
        ELSE IF now <= tsc[s] + 3 * i THEN tsc[s] + 2 * i
        ELSE IF now > i THEN now - i ELSE now

\* socket_start_keepalive_timer: with UDP, snd_nxt equals snd_una
StartKeepalive(s) ==
    /\ tsc' = [tsc EXCEPT ![s] = AccurateTsc(s)]
    /\ SocketAddTimer(Keepalive, s)

\* mutant: only the state changes
CloseKeepsTimer(s) ==
    /\ state' = [state EXCEPT ![s] = Closed]
    /\ UNCHANGED timers

\* socket_close of an open socket
Close(s) ==
    /\ state' = [state EXCEPT ![s] = Closed]
    /\ SocketDelTimer(s)

-----------------------------------------------------------------------------
\* udp_client_launch is called; launch_num is 0 after the stop
StartLaunch ==
    /\ pc = "loop" /\ ~stop
    /\ pc' = "launch" /\ pipe' = cfg.pipeline
    /\ UNCHANGED <<timers, cfg, state, tsc, pool, now, stop, over, network, ticked, fired>>

\* mutant: only keepalive sockets get a timer
StartTimerKeepaliveOnly(s) ==
    /\ state' = [state EXCEPT ![s] = SynSent]
    /\ IF cfg.interval > 0 THEN SocketAddTimer(Keepalive, s) ELSE UNCHANGED timers

\* what is left running for a new socket, whose timer_tsc is now
StartTimer(s) ==
    IF cfg.keepalive
    THEN /\ state' = [state EXCEPT ![s] = SynSent]
         /\ IF cfg.interval > 0 THEN SocketAddTimer(Keepalive, s) ELSE UNCHANGED timers
    ELSE IF cfg.flood
    THEN Close(s)
    ELSE /\ state' = [state EXCEPT ![s] = SynSent]
         /\ SocketAddTimer(Retransmit, s)

\* socket_table_get_socket: the pool is used in turn
NextSocket == IF pool + 1 >= PoolSize THEN 0 ELSE pool + 1

(***************************************************************************)
(* One iteration: the next socket of the pool is opened unless it is in    *)
(* use.  `pipeline' is not reset between iterations, so only the first     *)
(* socket opened by a call sends more than one request.                    *)
(***************************************************************************)
LaunchOne ==
    /\ pc = "launch"
    /\ pool' = NextSocket
    /\ IF state[pool] = Closed
       THEN /\ Send(pool, Burst(pipe))
            /\ pipe' = 0
            /\ tsc' = [tsc EXCEPT ![pool] = now]
            /\ StartTimer(pool)
       ELSE UNCHANGED <<timers, state, tsc, req, pipe>>
    /\ UNCHANGED <<cfg, now, stop, over, pc, resp, ticked, fired>>

EndLaunch ==
    /\ pc = "launch"
    /\ pc' = "loop" /\ pipe' = 0
    /\ UNCHANGED <<timers, cfg, state, tsc, pool, now, stop, over, network, ticked, fired>>

\* udp_client_process for a socket it finds; the network may keep a copy of
\* the response
ClientProcess(s) ==
    /\ pc = "loop" /\ resp[s] > 0
    /\ \E left \in {resp[s], resp[s] - 1} : resp' = [resp EXCEPT ![s] = left]
    /\ IF state[s] = Closed
       THEN UNCHANGED <<timers, state, req>>
       ELSE IF ~cfg.keepalive
       THEN Close(s) /\ UNCHANGED req
       ELSE /\ UNCHANGED timers
            /\ IF cfg.interval = 0 /\ ~stop
               THEN Send(s, 1) /\ state' = [state EXCEPT ![s] = SynSent]
               ELSE UNCHANGED req /\ state' = [state EXCEPT ![s] = SynReceived]
    /\ UNCHANGED <<cfg, tsc, pool, now, stop, over, pc, pipe, ticked, fired>>

\* udp_server_process: one answer per request, whatever the socket did before
ServerProcess(s) ==
    /\ req[s] > 0
    /\ req' = [req EXCEPT ![s] = @ - 1]
    /\ \E n \in {resp[s], Lesser(NetMax, resp[s] + 1)} : resp' = [resp EXCEPT ![s] = n]
    /\ UNCHANGED <<timers, cfg, state, tsc, pool, now, stop, over, pc, pipe, ticked, fired>>

-----------------------------------------------------------------------------
\* a tick of client_loop, later than the last one: slow_timer_run counts the
\* seconds, then udp_client_socket_timer_process starts a run
StartTimerRun ==
    /\ pc = "loop" /\ ticked
    /\ pc' = "timer"
    /\ over' = (now >= DURATION)
    /\ fired' = [s \in Socket |-> 0]
    /\ UNCHANGED <<timers, cfg, state, tsc, pool, now, stop, pipe, network, ticked>>

Running == IF cfg.keepalive THEN Keepalive ELSE Retransmit
Timeout == IF cfg.keepalive THEN cfg.interval ELSE cfg.rto

\* socket_queue_first finds a socket, and it is due
FirstDue ==
    next[Running] # Running /\ tsc[next[Running]] + Timeout <= now

\* mutant: requests go on after the end of the test
KeepaliveHandlerForever(s) ==
    /\ Send(s, Burst(cfg.pipeline))
    /\ state' = [state EXCEPT ![s] = SynSent]
    /\ StartKeepalive(s)

\* udp_socket_keepalive_timer_handler, once the run has removed s (which is in
\* this queue only if the interval is not 0)
KeepaliveHandler(s) ==
    IF InDuration
    THEN /\ Send(s, Burst(cfg.pipeline))
         /\ state' = [state EXCEPT ![s] = SynSent]
         /\ StartKeepalive(s)
    ELSE SocketDelTimer(s) /\ UNCHANGED <<state, tsc, req>>

\* one iteration of socket_timer_run with a due socket
RunTimer ==
    LET s == next[Running]
    IN  /\ pc = "timer"
        /\ FirstDue
        /\ fired' = [fired EXCEPT ![s] = Lesser(FiredMax, @ + 1)]
        /\ IF cfg.keepalive
           THEN KeepaliveHandler(s)
           ELSE Close(s) /\ UNCHANGED <<tsc, req>>
        /\ UNCHANGED <<cfg, pool, now, stop, over, pc, pipe, resp, ticked>>

\* the run ends at the first socket that is not due
EndTimerRun ==
    /\ pc = "timer"
    /\ ~FirstDue
    /\ pc' = "loop"
    /\ ticked' = FALSE
    /\ fired' = [s \in Socket |-> 0]
    /\ UNCHANGED <<timers, cfg, state, tsc, pool, now, stop, over, pipe, network>>

\* tick_time_update; the worker may have been busy for any time
TimeUpdate ==
    /\ pc = "loop"
    /\ \E t \in now + 1 .. MaxTsc :
          /\ t <= DURATION + StopSlack \/ stop
          /\ now' = t
    /\ ticked' = TRUE
    /\ UNCHANGED <<timers, cfg, state, tsc, pool, stop, over, pc, pipe, network, fired>>

\* work_space_stop_all, at the end or on Ctrl-C
Stop ==
    /\ ~stop
    /\ stop' = TRUE
    /\ UNCHANGED <<timers, cfg, state, tsc, pool, now, over, pc, pipe, network, ticked, fired>>

Next ==
    \/ StartLaunch \/ LaunchOne \/ EndLaunch
    \/ StartTimerRun \/ RunTimer \/ EndTimerRun
    \/ TimeUpdate \/ Stop
    \/ \E s \in Socket : ClientProcess(s) \/ ServerProcess(s)

Spec == Init /\ [][Next]_vars

(***************************************************************************)
(* The loop goes round for ever and comes to each of its steps again and   *)
(* again (strong fairness); the loops inside launch and timer run go on    *)
(* when nothing keeps them (weak); the control thread ends the test.       *)
(* Nothing is assumed of launching, of the network and of the server.      *)
(***************************************************************************)
Fairness ==
    /\ SF_vars(TimeUpdate) /\ SF_vars(StartTimerRun)
    /\ WF_vars(EndLaunch) /\ WF_vars(RunTimer) /\ WF_vars(EndTimerRun)
    /\ WF_vars(Stop)

FairSpec == Spec /\ Fairness

-----------------------------------------------------------------------------
TypeOK ==
    /\ TimersTypeOK
    /\ cfg \in Configs
    /\ state \in [Socket -> {Closed, SynSent, SynReceived}]
    /\ tsc \in [Socket -> Nat]
    /\ pool \in Socket
    /\ now \in Nat /\ ticked \in BOOLEAN
    /\ stop \in BOOLEAN /\ over \in BOOLEAN
    /\ pc \in {"loop", "launch", "timer"}
    /\ pipe \in Nat
    /\ req \in [Socket -> 0 .. NetMax] /\ resp \in [Socket -> 0 .. NetMax]
    /\ fired \in [Socket -> 0 .. FiredMax]

(***************************************************************************)
(* A closed socket is in no timer queue, so that a run never handles it    *)
(* and opening it again may set its time; an open one waits in the right   *)
(* queue, unless keepalive has no interval or the test is over.            *)
(***************************************************************************)
Guarded ==
    \A s \in Socket :
        IF state[s] = Closed THEN home[s] = NoQueue
        ELSE /\ ~cfg.keepalive => home[s] = Retransmit
             /\ cfg.interval > 0 /\ InDuration => home[s] = Keepalive

(***************************************************************************)
(* socket_timer_run looks at the first socket only.  When it ends, no      *)
(* expired request hides behind one that is not; of the keepalive sockets, *)
(* whose times socket_accurate_timer_tsc puts into the past, one may be    *)
(* hidden, but for less than one interval.                                 *)
(***************************************************************************)
NotLate ==
    pc = "loop" /\ ~ticked =>
        \A s \in Socket :
            /\ home[s] = Retransmit => now < tsc[s] + cfg.rto
            /\ home[s] = Keepalive => now < tsc[s] + 2 * cfg.interval

(***************************************************************************)
(* What Guarded and NotLate rest on: sockets are only in the queue that is *)
(* run; no time lies in the future; a queue is sorted by time, for         *)
(* keepalive up to one interval; the times a run left behind stay in       *)
(* bounds until time moves on.                                             *)
(***************************************************************************)
Times ==
    /\ \A s \in Socket :
          /\ home[s] \in {NoQueue, Running}
          /\ home[s] = Keepalive => cfg.interval > 0
          /\ tsc[s] <= now
          /\ home[s] # NoQueue /\ ~ticked =>
                now < tsc[s] + (IF cfg.keepalive THEN 2 * cfg.interval ELSE cfg.rto)
    /\ \A s, t \in Socket :
          home[s] # NoQueue /\ home[s] = home[t] /\ place[s] < place[t] =>
              tsc[s] <= tsc[t] + cfg.interval

Discipline ==
    /\ Times
    /\ pc = "timer" => ticked
    /\ over => now >= DURATION

\* Without keepalive every socket is closed again: by its response, or by the
\* retransmit timer when request or response is lost.
EventuallyClosed ==
    \A s \in Socket :
        (~cfg.keepalive /\ state[s] # Closed) ~> (state[s] = Closed)

\* socket_timer_run returns, at the latest when the test is stopped.
RunEnds == (pc = "timer") ~> (pc = "loop")

(***************************************************************************)
(* Keepalive requests are paced: socket_accurate_timer_tsc aligns a timer  *)
(* "to interval start for timing accuracy" and makes it due at once only   *)
(* when the gap is too large, so one run handles a socket at most twice.   *)
(***************************************************************************)
RequestsPaced == \A s \in Socket : fired[s] <= 2
=============================================================================
