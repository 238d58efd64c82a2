------------------------------- MODULE TxFifo -------------------------------
(***************************************************************************)
(* What a worker's transmit queue promises: a FIFO in front of a lossy     *)
(* exit.  Each call appends at most one packet; the NIC then takes a       *)
(* prefix, and what is left either stays in order or is dropped whole.     *)
(***************************************************************************)
EXTENDS Integers, Sequences

VARIABLES q, count, wire, freed

fvars == <<q, count, wire, freed>>

Elems(s) == {s[i] : i \in 1 .. Len(s)}

FifoInit == q = <<>> /\ count = 0 /\ wire = {} /\ freed = {}

Exit(s) ==
    \E n \in 0 .. Len(s) :
        LET rest == SubSeq(s, n + 1, Len(s))
        IN  /\ wire' = wire \cup Elems(SubSeq(s, 1, n))
            /\ \/ q' = rest /\ freed' = freed
               \/ q' = <<>> /\ freed' = freed \cup Elems(rest)

Put == count' = count + 1 /\ Exit(Append(q, count))

Take == count' = count /\ Exit(q)

FifoNext == Put \/ Take

Spec == FifoInit /\ [][FifoNext]_fvars
=============================================================================
