------------------------------ MODULE TraceLog ------------------------------
(***************************************************************************)
(* What the debug trace promises: the most recent Capacity requests since  *)
(* the last clear, oldest first, numbered from one without gaps.           *)
(***************************************************************************)
EXTENDS Naturals, Sequences

CONSTANTS
    Capacity,    \* LECS65_TRACE_CAPACITY
    RecordMax    \* bound: requests ever recorded

VARIABLES
    recent,      \* the records kept
    total,       \* records since the last clear
    recorded     \* history: records ever made; the last one's identity

logVars == <<recent, total, recorded>>

Latest(s) == SubSeq(s, 1 + IF Len(s) > Capacity THEN Len(s) - Capacity ELSE 0, Len(s))

LogInit == recent = <<>> /\ total = 0 /\ recorded = 0

LogRecord ==
    /\ recorded < RecordMax
    /\ recorded' = recorded + 1
    /\ total' = total + 1
    /\ recent' = Latest(Append(recent, [sequence |-> total + 1, id |-> recorded + 1]))

LogClear == recent' = <<>> /\ total' = 0 /\ UNCHANGED recorded

LogSpec == LogInit /\ [][LogRecord \/ LogClear]_logVars
=============================================================================
