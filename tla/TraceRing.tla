----------------------------- MODULE TraceRing -----------------------------
(***************************************************************************)
(* The ring of completed requests behind the private debug IOCTLs of the   *)
(* driver.  Each operation holds TraceLock and is one step.                *)
(***************************************************************************)
EXTENDS Naturals, Sequences

CONSTANTS
    Capacity,    \* LECS65_TRACE_CAPACITY
    RecordMax    \* bound: requests ever recorded

ASSUME CapacityAssumption == Capacity \in Nat \ {0}
ASSUME RecordMaxAssumption == RecordMax \in Nat

VARIABLES
    ring,        \* Trace
    writeIndex,  \* TraceWriteIndex
    count,       \* TraceCount
    nextSequence,\* TraceNextSequence, a 64-bit counter
    recorded     \* history: records ever made; the last one's identity

ringVars == <<ring, writeIndex, count, nextSequence, recorded>>

Entry == [sequence : 1..RecordMax, id : 1..RecordMax]
Zero == [sequence |-> 0, id |-> 0]
Index == 0..Capacity - 1

RingTypeOK ==
    /\ ring \in [Index -> Entry \cup {Zero}]
    /\ writeIndex \in Index
    /\ count \in 0..Capacity
    /\ nextSequence \in 0..RecordMax /\ recorded \in 0..RecordMax
    /\ nextSequence <= recorded

RingInit ==
    /\ ring = [i \in Index |-> Zero]
    /\ writeIndex = 0 /\ count = 0 /\ nextSequence = 0 /\ recorded = 0

Stored(i) == [ring EXCEPT ![i] = [sequence |-> nextSequence + 1, id |-> recorded + 1]]

\* LecRecordIoctlTrace.  The private debug requests are not recorded.
RecordTrace ==
    /\ recorded < RecordMax
    /\ ring' = Stored(writeIndex)
    /\ recorded' = recorded + 1
    /\ nextSequence' = nextSequence + 1
    /\ writeIndex' = (writeIndex + 1) % Capacity
    /\ count' = IF count < Capacity THEN count + 1 ELSE count

\* Mutant: the sequence numbers go on after a clear.
ClearKeepsSequence ==
    /\ ring' = [i \in Index |-> Zero]
    /\ writeIndex' = 0 /\ count' = 0
    /\ UNCHANGED <<nextSequence, recorded>>

ClearTrace ==
    /\ ring' = [i \in Index |-> Zero]
    /\ writeIndex' = 0 /\ count' = 0 /\ nextSequence' = 0
    /\ UNCHANGED recorded

\* Mutant: the oldest record is looked for at the write index.
FillFromWriteIndex ==
    [i \in 1..count |-> ring[(writeIndex + i - 1) % Capacity]]

\* LecFillTrace: the records kept, oldest first.
FillTrace ==
    LET start == (writeIndex + Capacity - count) % Capacity IN
    [i \in 1..count |-> ring[(start + i - 1) % Capacity]]

RingNext == RecordTrace \/ ClearTrace
RingSpec == RingInit /\ [][RingNext]_ringVars

\* The ring keeps what the log of TraceLog keeps, across its wrap and clears.
Log == INSTANCE TraceLog WITH recent <- FillTrace, total <- nextSequence

ImplementsLog == Log!LogSpec
=============================================================================
