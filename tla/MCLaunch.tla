------------------------------ MODULE MCLaunch ------------------------------
(* Targets for Launch. *)
EXTENDS Launch

\* shares that do not divide evenly, with and without a limit on concurrency (the
\* pool is then large enough never to run out), and one worker left idle.  A second
\* has five cycles: in the second target the first worker's interval is rounded
\* from 5/2 to 2.
MCTargets == {[cps |-> 3, cc |-> 3, launch |-> 2, sockets |-> 3],
              [cps |-> 3, cc |-> 0, launch |-> 0, sockets |-> 20],
              [cps |-> 1, cc |-> 0, launch |-> 0, sockets |-> 20]}
=============================================================================
