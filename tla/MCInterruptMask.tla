-------------------------- MODULE MCInterruptMask --------------------------
(* A small instance of InterruptMask.                                       *)
EXTENDS InterruptMask, TLC

CONSTANTS l1, l2, x1, x2

Symmetry == Permutations({l1, l2}) \cup Permutations({x1, x2})

\* Bounds: no state is looked into once two updates have overlapped, no request once a
\* register was written alone, and errors and requests under TransferMutex take turns.
Bounded ==
    /\ ~overlap
    /\ bypassed => \A t \in Thread : pc[t] = "idle"
    /\ \/ mutex = Null
       \/ /\ isr = "idle" /\ errs = {} /\ latch = {}
          /\ \A t \in Thread : pc[t] \notin ErrmPc
=============================================================================
