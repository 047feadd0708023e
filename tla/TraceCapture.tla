---------------------------- MODULE TraceCapture ----------------------------
(***************************************************************************)
(* lecdiag trace-capture and trace-save: the debug trace of the driver,    *)
(* written to a file as JSON lines.  The capture clears the trace, polls   *)
(* it every quarter of a second until its time is up and writes what has a *)
(* higher sequence number than the last record it wrote.                   *)
(***************************************************************************)
EXTENDS TraceRing

CONSTANTS
    Sensitive,     \* records whose bytes are of the Dallas id or memory
    PollMax        \* bound: polls within the duration of the capture

ASSUME CaptureAssumption == Sensitive \subseteq Nat /\ PollMax \in Nat

VARIABLES
    capPc,         \* start, poll, done or failed
    capLast,       \* lastSequence
    capFile,       \* entries written
    capPolls,      \* snapshots taken
    capStart,      \* history: records made before the trace was cleared
    capSeen,       \* history: records made before the last snapshot
    outrun         \* history: more records than the ring keeps came between two snapshots,
                   \* or another tool cleared the trace

capVars == <<capPc, capLast, capFile, capPolls, capStart, capSeen, outrun>>
captureVars == <<ringVars, capVars>>

TcInit ==
    /\ RingInit
    /\ capPc = "start" /\ capLast = 0 /\ capFile = <<>> /\ capPolls = 0
    /\ capStart = 0 /\ capSeen = 0 /\ outrun = FALSE

-----------------------------------------------------------------------------
\* Mutant: the payload of a Dallas request is written with the rest.
WrittenAsIs(e) == [id |-> e.id, sequence |-> e.sequence, payload |-> TRUE]

\* write_trace_entry_jsonl: of a sensitive record only its metadata.
Written(e) == [id |-> e.id, sequence |-> e.sequence, payload |-> e.id \notin Sensitive]

WrittenAll(entries) == [i \in DOMAIN entries |-> Written(entries[i])]

\* trace-save: one snapshot, as it is.
TraceSave ==
    /\ capPc = "start"
    /\ capFile' = WrittenAll(FillTrace)
    /\ capStart' = recorded - count /\ capSeen' = recorded
    /\ capPc' = "done"
    /\ UNCHANGED <<ringVars, capLast, capPolls, outrun>>

\* Memory, a request or the file fails: after the clear, if it is the file.
CaptureFails ==
    /\ capPc \in {"start", "poll"}
    /\ capPc' = "failed"
    /\ \/ UNCHANGED ringVars
       \/ capPc = "start" /\ ClearTrace
    /\ UNCHANGED <<capLast, capFile, capPolls, capStart, capSeen, outrun>>

CaptureBegin ==
    /\ capPc = "start"
    /\ ClearTrace
    /\ capStart' = recorded /\ capSeen' = recorded
    /\ capPc' = "poll"
    /\ UNCHANGED <<capLast, capFile, capPolls, outrun>>

\* Mutant: the last record is written again.
NewSinceAgain(e) == e.sequence >= capLast

NewSince(e) == e.sequence > capLast

\* The loop over a snapshot.
EntriesSince ==
    LET since[i \in 0..count] ==
            IF i = 0 THEN <<>>
            ELSE IF NewSince(FillTrace[i]) THEN Append(since[i - 1], FillTrace[i])
            ELSE since[i - 1]
    IN  since[count]

\* A snapshot; lastSequence follows the records as they are written.
CapturePoll ==
    /\ capPc = "poll" /\ capPolls < PollMax
    /\ capPolls' = capPolls + 1
    /\ capFile' = capFile \o WrittenAll(EntriesSince)
    /\ capLast' = IF EntriesSince = <<>> THEN capLast
                  ELSE EntriesSince[Len(EntriesSince)].sequence
    /\ capSeen' = recorded
    /\ outrun' = (outrun \/ nextSequence > capLast + Capacity)
    /\ UNCHANGED <<ringVars, capPc, capStart>>

\* The deadline: what was recorded since the last snapshot is not looked at.
CaptureEnds ==
    /\ capPc = "poll"
    /\ capPc' = "done"
    /\ UNCHANGED <<ringVars, capLast, capFile, capPolls, capStart, capSeen, outrun>>

\* Requests of XStream, and another lecdiag that clears the trace.
OthersTrace ==
    /\ capPc \in {"start", "poll"}
    /\ RecordTrace
    /\ UNCHANGED capVars

OthersClear ==
    /\ capPc = "poll"
    /\ ClearTrace
    /\ outrun' = TRUE
    /\ UNCHANGED <<capPc, capLast, capFile, capPolls, capStart, capSeen>>

TcNext ==
    \/ TraceSave \/ CaptureBegin \/ CaptureFails \/ CapturePoll \/ CaptureEnds
    \/ OthersTrace \/ OthersClear

-----------------------------------------------------------------------------
(* Properties.                                                              *)

\* The file has, in the order of their completion and each once, every request that was
\* recorded between the clear and the last snapshot, unless the ring was outrun or
\* somebody else cleared it; even then it has no request twice or out of order and none
\* from before the capture.  No line of it has bytes of the Dallas id or memory.
CaptureComplete ==
    /\ \A i \in DOMAIN capFile :
          /\ capFile[i].id \in capStart + 1..capSeen
          /\ i > 1 => capFile[i - 1].id < capFile[i].id
          /\ capFile[i].id \in Sensitive => ~capFile[i].payload
    /\ ~outrun => Len(capFile) = capSeen - capStart
=============================================================================
