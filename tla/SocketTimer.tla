---------------------------- MODULE SocketTimer ----------------------------
(***************************************************************************)
(* The timer queues of one worker (src/src/socket_timer.h): circular       *)
(* doubly linked lists threaded through a node inside each socket, with    *)
(* the queue itself as the list's head.  Nodes are changed pointer by      *)
(* pointer, as socket_node_del and socket_queue_push do.                   *)
(*                                                                         *)
(* `home' and `place' are history: the queue a socket was last put into    *)
(* and has not left, and its position there.  What the pointers must       *)
(* spell out is stated against them (QueuesLinked).                        *)
(***************************************************************************)
EXTENDS Integers

CONSTANTS
    Socket,     \* the sockets of a worker
    Queue,      \* g_retransmit_timer, g_keepalive_timer, g_timeout_timer
    NoQueue     \* the home of a socket whose timer is not running

ASSUME SocketTimerAssumption ==
    /\ Socket \cap Queue = {}
    /\ NoQueue \notin Queue

VARIABLES
    next, prev,     \* struct socket_node of every socket and queue head
    home, place     \* history

timers == <<next, prev, home, place>>

Node == Socket \cup Queue

TimersInit ==
    /\ next = [n \in Node |-> n]
    /\ prev = [n \in Node |-> n]
    /\ home = [s \in Socket |-> NoQueue]
    /\ place = [s \in Socket |-> 0]

-----------------------------------------------------------------------------
\* mutant: the removed node keeps its pointers
UnlinkedNextKept(s) ==
    [next EXCEPT ![prev[s]] = next[s]]

\* next and prev after socket_node_del: a node that points to itself is in no
\* list, any other is bypassed and points to itself again
UnlinkedNext(s) ==
    IF next[s] = s THEN next ELSE [next EXCEPT ![prev[s]] = next[s], ![s] = s]

UnlinkedPrev(s) ==
    IF next[s] = s THEN prev ELSE [prev EXCEPT ![next[s]] = prev[s], ![s] = s]

\* the history after it: those behind s move up by one place
UnlinkedPlace(s) ==
    [t \in Socket |->
        IF t = s THEN 0
        ELSE IF home[s] # NoQueue /\ home[t] = home[s] /\ place[t] > place[s]
             THEN place[t] - 1 ELSE place[t]]

\* socket_queue_push on the lists nx and pv: s goes before the head, that is
\* to the end; the last node is read before any pointer changes
PushedNext(nx, pv, q, s) == [nx EXCEPT ![s] = q, ![pv[q]] = s]
PushedPrev(pv, q, s) == [pv EXCEPT ![s] = pv[q], ![q] = s]

PlaceOf(pl, n) == IF n \in Socket THEN pl[n] ELSE 0

-----------------------------------------------------------------------------
\* socket_del_timer, and the unlinking in socket_close
SocketDelTimer(s) ==
    /\ next' = UnlinkedNext(s)
    /\ prev' = UnlinkedPrev(s)
    /\ home' = [home EXCEPT ![s] = NoQueue]
    /\ place' = UnlinkedPlace(s)

\* socket_add_timer without its assignment of timer_tsc: leave, then push
SocketAddTimer(q, s) ==
    /\ next' = PushedNext(UnlinkedNext(s), UnlinkedPrev(s), q, s)
    /\ prev' = PushedPrev(UnlinkedPrev(s), q, s)
    /\ home' = [home EXCEPT ![s] = q]
    /\ place' = [UnlinkedPlace(s) EXCEPT
                    ![s] = PlaceOf(UnlinkedPlace(s), UnlinkedPrev(s)[q]) + 1]

TimersNext ==
    \E s \in Socket : SocketDelTimer(s) \/ \E q \in Queue : SocketAddTimer(q, s)

TimersSpec == TimersInit /\ [][TimersNext]_timers

-----------------------------------------------------------------------------
TimersTypeOK ==
    /\ next \in [Node -> Node]
    /\ prev \in [Node -> Node]
    /\ home \in [Socket -> Queue \cup {NoQueue}]
    /\ place \in [Socket -> Nat]

HomeOf(hm, n) == IF n \in Socket THEN hm[n] ELSE n

\* prev undoes next and next undoes prev
Inverse(nx, pv) == \A n \in Node : pv[nx[n]] = n /\ nx[pv[n]] = n

\* a socket outside all queues points to itself
Unlinked(nx, hm) == \A s \in Socket : hm[s] = NoQueue => nx[s] = s

\* a step along next stays in the queue and goes to the next place
InOrder(nx, hm, pl) ==
    \A n \in Node : HomeOf(hm, n) # NoQueue =>
        /\ HomeOf(hm, nx[n]) = HomeOf(hm, n)
        /\ nx[n] \in Socket => pl[nx[n]] = PlaceOf(pl, n) + 1

\* no member lies beyond the last node
UpToLast(pv, hm, pl) ==
    \A s \in Socket : hm[s] # NoQueue =>
        pl[s] \in 1 .. PlaceOf(pl, pv[hm[s]])

\* no two members share a place
Distinct(hm, pl) ==
    \A s, t \in Socket :
        hm[s] # NoQueue /\ hm[s] = hm[t] /\ pl[s] = pl[t] => s = t

Linked(nx, pv, hm, pl) ==
    /\ Inverse(nx, pv)
    /\ Unlinked(nx, hm)
    /\ InOrder(nx, hm, pl)
    /\ UpToLast(pv, hm, pl)
    /\ Distinct(hm, pl)

(***************************************************************************)
(* However sockets are added, moved and removed, the pointers are the      *)
(* queues: prev undoes next, a socket outside all queues points to itself, *)
(* and following next from a queue's head visits places 1, 2, ... up to    *)
(* the last one of that queue and of no other.  Were a pointer wrong,      *)
(* socket_timer_run would lose sockets or cycle for ever.                  *)
(***************************************************************************)
QueuesLinked == Linked(next, prev, home, place)
=============================================================================
