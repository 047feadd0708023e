------------------------------ MODULE LecWatch ------------------------------
(***************************************************************************)
(* The live monitor lecwatch.  A worker thread polls the debug trace of    *)
(* the driver, skips what it has seen by sequence number, and posts the    *)
(* rest in batches to the window, which logs and counts them.  lecdiag may *)
(* clear the trace at any time, and the device may go away and come back.  *)
(***************************************************************************)
EXTENDS TraceRing, SequencesExt

CONSTANTS QueueMax    \* messages the window's queue holds

ASSUME QueueMaxAssumption == QueueMax \in Nat \ {0}

VARIABLES
    available,    \* an open of the device and a poll of its trace succeed
    device,       \* the worker holds an open handle
    lastSequence, \* its local variable
    initialized,  \* its local variable
    queue,        \* messages posted to the window and not yet handled
    connected,    \* g_connected
    untold,       \* history: the message with the last word on the device was lost
    droppedCount, \* g_dropped
    logged,       \* the records of this session
    base,         \* history: records up to the attach or the last new session
    disturbed     \* history: a clear, a reconnect or a failed post

workerVars == <<device, lastSequence, initialized>>
sessionVars == <<droppedCount, logged, base>>
statusVars == <<connected, untold>>
vars == <<ringVars, available, workerVars, queue, statusVars, sessionVars, disturbed>>

State(c) == [kind |-> "state", connected |-> c]
Batch(ids, dropped) == [kind |-> "batch", ids |-> ids, dropped |-> dropped]

Init ==
    /\ RingInit
    /\ available = FALSE /\ device = FALSE
    /\ lastSequence = 0 /\ initialized = FALSE
    /\ queue = <<>>
    /\ connected = FALSE /\ untold = FALSE
    /\ droppedCount = 0 /\ logged = <<>>
    /\ base = 0
    /\ disturbed = FALSE

-----------------------------------------------------------------------------
(* The driver, and lecdiag's trace-clear and trace-capture.                 *)

Record ==
    /\ RecordTrace
    /\ UNCHANGED <<available, workerVars, queue, statusVars, sessionVars,
                   disturbed>>

Clear ==
    /\ ClearTrace
    /\ disturbed' = TRUE
    /\ UNCHANGED <<available, workerVars, queue, statusVars, sessionVars>>

\* Whether an open or a poll succeeds.  A device that was removed, which takes
\* that no handle is open, comes back with an extension and a trace of its own.
Availability ==
    /\ available' = ~available
    /\ \/ UNCHANGED ringVars
       \/ ~available /\ ~device /\ ClearTrace
    /\ UNCHANGED <<workerVars, queue, statusVars, sessionVars, disturbed>>

-----------------------------------------------------------------------------
(* The worker thread.                                                       *)

\* PostMessageW; the message is gone if the queue is full.
Posted(m) == IF Len(queue) < QueueMax THEN Append(queue, m) ELSE queue
Lost == Len(queue) = QueueMax

Open ==
    /\ ~device
    /\ device' = available
    /\ lastSequence' = IF available THEN 0 ELSE lastSequence
    /\ initialized' = (initialized /\ ~available)
    /\ queue' = Posted(State(available)) /\ untold' = Lost
    /\ disturbed' = (disturbed \/ Lost \/ (available /\ initialized))
    /\ UNCHANGED <<ringVars, available, connected, sessionVars>>

\* Mutant: the window is not told.
PollFailsQuietly ==
    /\ device /\ ~available
    /\ device' = FALSE
    /\ UNCHANGED <<ringVars, available, lastSequence, initialized,
                   queue, statusVars, sessionVars, disturbed>>

\* DEBUG_GET_TRACE fails.
PollFails ==
    /\ device /\ ~available
    /\ device' = FALSE
    /\ queue' = Posted(State(FALSE)) /\ untold' = Lost
    /\ disturbed' = (disturbed \/ Lost)
    /\ UNCHANGED <<ringVars, available, lastSequence, initialized,
                   connected, sessionVars>>

\* Mutant: a clear of the trace is not noticed.
SynchroniseOnce ==
    /\ device /\ available
    /\ ~initialized
    /\ lastSequence' = nextSequence
    /\ initialized' = TRUE
    /\ base' = nextSequence
    /\ UNCHANGED <<ringVars, available, device, queue, statusVars,
                   droppedCount, logged, disturbed>>

\* What the first poll finds is not shown, nor is what a poll finds after the
\* trace was cleared and has not caught up.
Synchronise ==
    /\ device /\ available
    /\ ~initialized \/ nextSequence < lastSequence
    /\ lastSequence' = nextSequence
    /\ initialized' = TRUE
    /\ base' = IF initialized THEN base ELSE nextSequence
    /\ UNCHANGED <<ringVars, available, device, queue, statusVars,
                   droppedCount, logged, disturbed>>

IsNew(e) == e.sequence > lastSequence

\* The loop over a snapshot.
NewEntries ==
    LET new[i \in 0..count] ==
            IF i = 0 THEN <<>>
            ELSE IF IsNew(FillTrace[i]) THEN Append(new[i - 1], FillTrace[i])
            ELSE new[i - 1]
    IN  new[count]

\* Mutant: the records that were not looked at are counted from zero.
GapOffByOne(entries) == entries[1].sequence - lastSequence

\* The records of a snapshot are consecutive: a gap is at its start only.
Gap(entries) == entries[1].sequence - lastSequence - 1

\* Mutant: every record is posted.
PostAll ==
    /\ device /\ available
    /\ initialized /\ nextSequence >= lastSequence
    /\ NewEntries # <<>>
    /\ queue' = Posted(Batch([i \in 1..count |-> FillTrace[i].id], Gap(NewEntries)))
    /\ lastSequence' = Last(NewEntries).sequence
    /\ disturbed' = (disturbed \/ Lost)
    /\ UNCHANGED <<ringVars, available, device, initialized, statusVars, sessionVars>>

\* What the sequence number says is old is skipped; the rest is a batch.
Post ==
    LET new == NewEntries IN
    /\ device /\ available
    /\ initialized /\ nextSequence >= lastSequence
    /\ IF new = <<>>
       THEN UNCHANGED <<queue, lastSequence, disturbed>>
       ELSE /\ queue' = Posted(Batch([i \in DOMAIN new |-> new[i].id], Gap(new)))
            /\ lastSequence' = Last(new).sequence
            /\ disturbed' = (disturbed \/ Lost)
    /\ UNCHANGED <<ringVars, available, device, initialized, statusVars, sessionVars>>

\* There is no memory for the batch.
PostFails ==
    /\ device /\ available
    /\ initialized /\ nextSequence >= lastSequence
    /\ NewEntries # <<>>
    /\ lastSequence' = nextSequence
    /\ disturbed' = TRUE
    /\ UNCHANGED <<ringVars, available, device, initialized, queue,
                   statusVars, sessionVars>>

-----------------------------------------------------------------------------
(* The window.                                                              *)

\* handle_trace_batch, or WM_APP_TRACE_STATE.
HandleMessage ==
    LET m == Head(queue) IN
    /\ queue # <<>>
    /\ queue' = Tail(queue)
    /\ IF m.kind = "state"
       THEN connected' = m.connected /\ UNCHANGED <<droppedCount, logged>>
       ELSE /\ droppedCount' = droppedCount + m.dropped
            /\ logged' = logged \o m.ids
            /\ UNCHANGED connected
    /\ UNCHANGED <<ringVars, available, workerVars, untold, base, disturbed>>

\* clear_session
ClearSession ==
    /\ base' = IF disturbed THEN base ELSE base + Len(logged) + droppedCount
    /\ logged' = <<>> /\ droppedCount' = 0
    /\ UNCHANGED <<ringVars, available, workerVars, queue, statusVars, disturbed>>

-----------------------------------------------------------------------------
Worker == Open \/ PollFails \/ Synchronise \/ Post \/ PostFails
Window == HandleMessage \/ ClearSession
Next == Record \/ Clear \/ Availability \/ Worker \/ Window

Spec == Init /\ [][Next]_vars

\* The worker polls every 10 ms and the window handles its messages.
Fairness == WF_vars(Worker) /\ WF_vars(HandleMessage)
FairSpec == Spec /\ Fairness

-----------------------------------------------------------------------------
(* Properties.                                                              *)

\* Ids of the records that are logged or on their way, in their order.
OnTheWay ==
    logged \o FlattenSeq([i \in DOMAIN queue |->
        IF queue[i].kind = "batch" THEN queue[i].ids ELSE <<>>])

\* No record is logged twice and none out of order, across clears of the trace,
\* reconnects and lost messages.
LoggedOnceInOrder ==
    \A i, j \in DOMAIN OnTheWay : i < j => OnTheWay[i] < OnTheWay[j]

QueuedDropped ==
    LET sum[i \in 0..Len(queue)] ==
            IF i = 0 THEN 0
            ELSE sum[i - 1] + (IF queue[i].kind = "batch" THEN queue[i].dropped ELSE 0)
    IN  sum[Len(queue)]

\* Every record since the monitor attached is logged, on its way or counted as
\* dropped when the ring wrapped over it, as long as nobody clears the trace,
\* the device stays open and no message is lost.
EveryRecordAccounted ==
    initialized /\ ~disturbed =>
        Len(OnTheWay) + droppedCount + QueuedDropped + base = lastSequence

\* Once the messages are handled the status line tells whether the worker holds the
\* device, however often it went and came back, whatever was cleared meanwhile and
\* whichever batches were lost.  A lost message about the device itself leaves it wrong
\* until the next one that is not.
StatusHonest == queue = <<>> /\ ~untold => connected = device

\* Once the device is back for good and the requests cease the worker has the
\* whole trace behind it, whatever was cleared in between.
LogCatchesUp == <>[]available => <>[](device /\ lastSequence = nextSequence)
=============================================================================
