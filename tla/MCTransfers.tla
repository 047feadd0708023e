---------------------------- MODULE MCTransfers ----------------------------
(* Small instances of Transfers: two threads of one process that race for   *)
(* a registry of two records, or one and a thread that goes to the          *)
(* registers and the DPC routine directly.                                  *)
EXTENDS Transfers, TLC

CONSTANTS t1, t2, d1, p1, r1, r2

OneProcess == [t \in Thread |-> p1]
RecordSymmetry == Permutations({r1, r2})
ThreadRecordSymmetry == Permutations({r1, r2}) \cup Permutations({t1, t2})

\* What follows a time-out or a forged completion is excused for ever by
\* CompletionDelivered, and no fair action leads there: it is not explored.
Unexcused == ~timedOut /\ ~forged

\* What follows a time-out is explored without the direct thread, until the device is
\* started again; what follows a forged completion is not.
TimedOutOrDirect ==
    /\ Unexcused \/ direct = 0
    /\ timedOut => pnp # "connect"
=============================================================================
