----------------------------- MODULE MamCache -----------------------------
(***************************************************************************)
(* MAMDAT and MAMSEQ of BAR1 hold indexed values.  The driver keeps a copy *)
(* of them and leaves out a write whose value the copy has already.        *)
(* Configuration records and acquisitions hold TransferMutex; SetOneRegister*)
(* and CFDC21C4 do not, and write behind the copies.                       *)
(***************************************************************************)
EXTENDS Integers, Sequences

CONSTANTS
    MamCount,      \* indices of MAMDAT, 256 in the code
    MamValues,     \* sixteen-bit values
    Filled,        \* 0xFFFF: what the copies are filled with, and a board begins with
    Programs,      \* payloads of configuration records: sequences of values
    SeqValues      \* values of MAMSEQ

MamIndex == 0..MamCount - 1

ASSUME IndexAssumption == MamCount \in Nat \ {0}
ASSUME FilledAssumption == Filled \in MamValues
ASSUME ProgramsAssumption ==
    \A p \in Programs : p \in Seq(MamValues) /\ Len(p) <= MamCount

VARIABLES
    mamPc,         \* where the request under TransferMutex is
    mamJob,        \* its kind, values and MAMSEQ
    mamAt,         \* i
    mamShadow, mamKnown,   \* LegacyMamShadow, LegacyMamShadowInitialized
    seqShadow, seqKnown,   \* LegacyMamSeqShadow[0] and its flag
    mam, seq,      \* board: the values MAMPGO and MAMRGO take
    behind         \* history: the board was changed behind the copies

copies == <<mamShadow, mamKnown, seqShadow, seqKnown>>
mamVars == <<mamPc, mamJob, mamAt, copies, mam, seq, behind>>

NoJob == [kind |-> "none"]

\* The driver is loaded for a board that has just been powered up.
MamInit ==
    /\ mamPc = "idle" /\ mamJob = NoJob /\ mamAt = 0
    /\ mamShadow = [i \in MamIndex |-> 0] /\ mamKnown = FALSE
    /\ seqShadow = 0 /\ seqKnown = FALSE
    /\ mam = [i \in MamIndex |-> Filled] /\ seq = Filled
    /\ behind = FALSE

-----------------------------------------------------------------------------
\* Mutant: the copies are not filled.
MamFirstZero == [i \in MamIndex |-> 0]

MamFirst == [i \in MamIndex |-> Filled]

\* A type 1 or type 2 record, or the channel set-up of an acquisition.  The copies are
\* filled by the first of either.
MamBegin(kind, program, sequence) ==
    /\ mamPc = "idle"
    /\ mamJob' = [kind |-> kind, program |-> program, seq |-> sequence]
    /\ mamAt' = 0
    /\ mamKnown' = TRUE
    /\ mamShadow' = IF mamKnown THEN mamShadow ELSE MamFirst
    /\ mamPc' = "mam"
    /\ UNCHANGED <<seqShadow, seqKnown, mam, seq, behind>>

\* The write is left out where the copy has the value already.
MamSame(i, data) == mamShadow[i] = data

MamEntry ==
    LET data == mamJob.program[mamAt + 1] IN
    /\ mamPc = "mam" /\ mamAt < Len(mamJob.program)
    /\ mamShadow' = [mamShadow EXCEPT ![mamAt] = data]
    /\ mam' = IF MamSame(mamAt, data) THEN mam ELSE [mam EXCEPT ![mamAt] = data]
    /\ mamAt' = mamAt + 1
    /\ UNCHANGED <<mamPc, mamJob, mamKnown, seqShadow, seqKnown, seq, behind>>

MamRelease == mamPc' = "idle" /\ mamJob' = NoJob /\ mamAt' = 0

\* MAMPGO runs the values; an acquisition goes on to MAMSEQ.
MamGo ==
    /\ mamPc = "mam" /\ mamAt = Len(mamJob.program)
    /\ IF mamJob.kind = "acquire" THEN mamPc' = "seq" /\ UNCHANGED <<mamJob, mamAt>>
                                  ELSE MamRelease
    /\ UNCHANGED <<copies, mam, seq, behind>>

SeqCopy == IF seqKnown THEN seqShadow ELSE Filled

MamSequence ==
    /\ mamPc = "seq"
    /\ seqKnown' = TRUE /\ seqShadow' = mamJob.seq
    /\ seq' = IF SeqCopy = mamJob.seq THEN seq ELSE mamJob.seq
    /\ mamPc' = "launch"
    /\ UNCHANGED <<mamJob, mamAt, mamShadow, mamKnown, mam, behind>>

\* MAMRGO; the rest of the acquisition is in Transfers.
MamLaunch ==
    /\ mamPc = "launch"
    /\ MamRelease
    /\ UNCHANGED <<copies, mam, seq, behind>>

\* Opcode 0x92, CFDC21C4 or SetOneRegister on an indexed register, or a loss of power
\* while the driver stays loaded: STOP and START keep the copies.
MamWrittenBehind ==
    /\ \/ \E i \in MamIndex, v \in MamValues : mam' = [mam EXCEPT ![i] = v] /\ UNCHANGED seq
       \/ seq' \in SeqValues /\ UNCHANGED mam
       \/ mam' = [i \in MamIndex |-> Filled] /\ seq' = Filled
    /\ behind' = TRUE
    /\ UNCHANGED <<mamPc, mamJob, mamAt, copies>>

MamNext ==
    \/ \E p \in Programs : MamBegin("record", p, Filled)
    \/ \E p \in Programs, s \in SeqValues : MamBegin("acquire", p, s)
    \/ MamEntry \/ MamGo \/ MamSequence \/ MamLaunch \/ MamWrittenBehind

MamSpec == MamInit /\ [][MamNext]_mamVars

-----------------------------------------------------------------------------
(* Properties.                                                              *)

\* The board runs what the request says: when MAMPGO or MAMRGO is written, the values
\* behind it are those of this request, also the ones whose write was left out, unless
\* the board was changed behind the copies.
MamRuns ==
    ~behind =>
        /\ mamPc = "mam" /\ mamAt = Len(mamJob.program) =>
              \A i \in 1..Len(mamJob.program) : mam[i - 1] = mamJob.program[i]
        /\ mamPc = "launch" => seq = mamJob.seq
=============================================================================
