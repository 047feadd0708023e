---------------------------- MODULE MCInterrupts ----------------------------
(* Small instances of Interrupts.                                           *)
EXTENDS Interrupts, TLC

CONSTANTS e1, e2

EventSymmetry == Permutations({e1, e2})
=============================================================================
