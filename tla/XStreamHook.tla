----------------------------- MODULE XStreamHook -----------------------------
(***************************************************************************)
(* xstream-ioctl-trace: the launcher starts XStream suspended, has the hook*)
(* DLL loaded and initialised in it and lets it run; the hooks stand in the*)
(* import tables of the modules, make the real call and write a record of  *)
(* it.  DeviceIoControl and CreateFile call their Nt functions through     *)
(* imports that are patched too, so one call leaves two records.           *)
(***************************************************************************)
EXTENDS Integers, Sequences

CONSTANTS
    Threads,       \* threads of XStream
    Imports,       \* number of hooked functions that a module loaded later imports
    FlushEvery,    \* 256
    CallMax,       \* bound: calls of XStream, to load a module included
    NoThread

\* A module that imports no hooked function has no slot to walk over.
ASSUME HookAssumption ==
    Imports \in Nat \ {0} /\ FlushEvery \in Nat \ {0} /\ NoThread \notin Threads

VARIABLES
    launch,        \* the launcher: create, inject, initialise, resume, wait or ended
    process,       \* XStream: none, suspended, running or ended
    patched,       \* the imports of the modules present at the start are hooks
    calls,         \* history: thread and outcome of each call
    frames,        \* frames[t]: the hooks a thread is in, outermost first
    ioBuffer,      \* ioBuffer[t]: the one place of its call for what it sends and gets
    lastError,     \* lastError[t]: set by the "call" last made, or by some "other" one
    logSequence,   \* g_sequence
    logLock,       \* owner of g_logLock
    traceFile,     \* the records written, each in two halves
    unflushed,     \* g_recordsSinceFlush
    slots,         \* slots[i]: import i of the later module is a hook
    writable,      \* its page of imports may be written
    walk           \* walk[t]: where patch_module of the thread stands, or <<>>

launchVars == <<launch, process, patched>>
logVars == <<logSequence, logLock, traceFile, unflushed>>
patchVars == <<slots, writable, walk>>
hookVars == <<launchVars, calls, frames, ioBuffer, lastError, logVars, patchVars>>

HookInit ==
    /\ launch = "create" /\ process = "none" /\ patched = FALSE
    /\ calls = <<>> /\ frames = [t \in Threads |-> <<>>]
    /\ ioBuffer = [t \in Threads |-> "none"] /\ lastError = [t \in Threads |-> "other"]
    /\ logSequence = 0 /\ logLock = NoThread /\ traceFile = <<>> /\ unflushed = 0
    /\ slots = [i \in 1..Imports |-> FALSE] /\ writable = FALSE
    /\ walk = [t \in Threads |-> <<>>]

Halves(r) == <<[r EXCEPT !.half = "head"], [r EXCEPT !.half = "tail"]>>
Header == [id |-> 0, api |-> "header", seq |-> 0, input |-> "none", output |-> "none",
           half |-> "head"]

-----------------------------------------------------------------------------
(* The launcher, and the initialiser that runs in a thread of its own before *)
(* XStream's first.                                                          *)

\* Every failure ends the process, if there is one already.
LauncherFails ==
    /\ launch \in {"create", "inject", "initialise", "resume"}
    /\ launch' = "ended"
    /\ process' = IF process = "none" THEN "none" ELSE "ended"
    /\ UNCHANGED <<patched, calls, frames, ioBuffer, lastError, logVars, patchVars>>

\* CREATE_SUSPENDED, then LoadLibraryW in a remote thread.
CreateSuspended ==
    /\ launch = "create" /\ launch' = "inject" /\ process' = "suspended"
    /\ UNCHANGED <<patched, calls, frames, ioBuffer, lastError, logVars, patchVars>>

LoadHook ==
    /\ launch = "inject" /\ launch' = "initialise"
    /\ UNCHANGED <<process, patched, calls, frames, ioBuffer, lastError, logVars,
                   patchVars>>

\* InitializeXStreamTrace: the log with its header, then the modules of the snapshot; a
\* snapshot that cannot be taken is no failure, and nothing is traced.
InitializeXStreamTrace ==
    /\ launch = "initialise" /\ launch' = "resume"
    /\ traceFile' = Halves(Header)
    /\ patched' \in BOOLEAN
    /\ UNCHANGED <<process, calls, frames, ioBuffer, lastError, logSequence, logLock,
                   unflushed, patchVars>>

Resume ==
    /\ launch = "resume" /\ launch' = "wait" /\ process' = "running"
    /\ UNCHANGED <<patched, calls, frames, ioBuffer, lastError, logVars, patchVars>>

Collect ==
    /\ launch = "wait" /\ process = "ended" /\ launch' = "ended"
    /\ UNCHANGED <<process, patched, calls, frames, ioBuffer, lastError, logVars,
                   patchVars>>

Launcher ==
    \/ LauncherFails \/ CreateSuspended \/ LoadHook \/ InitializeXStreamTrace \/ Resume
    \/ Collect

-----------------------------------------------------------------------------
(* A hooked call: HookDeviceIoControl, HookNtDeviceIoControlFile, the hooks  *)
(* of CreateFile, NtCreateFile and CloseHandle.                              *)

Top(t) == frames[t][Len(frames[t])]
SetTop(t, frame) == frames' = [frames EXCEPT ![t][Len(frames[t])] = frame]
At(t, step) == process = "running" /\ frames[t] # <<>> /\ Top(t).step = step
Outside(t) == process = "running" /\ frames[t] = <<>> /\ walk[t] = <<>>
InsideOf == [ioctl |-> "nt_ioctl", create |-> "nt_create"]
Win32 == {"ioctl", "create", "close"}

\* What safe_copy and its callers keep of a call before they make it.
Frame(api, id, input) ==
    [api |-> api, id |-> id, step |-> "entered", input |-> input, output |-> "none",
     seq |-> 0, error |-> "other"]

\* The thread calls through a hooked import.
Enter(t, api) ==
    /\ Outside(t) /\ patched /\ Len(calls) < CallMax
    /\ frames' = [frames EXCEPT ![t] = <<Frame(api, Len(calls) + 1, "sent")>>]
    /\ ioBuffer' = [ioBuffer EXCEPT ![t] = "sent"]
    /\ calls' = Append(calls, [thread |-> t, outcome |-> "none"])
    /\ UNCHANGED <<launchVars, lastError, logVars, patchVars>>

\* The real DeviceIoControl or CreateFile reaches the hook of its Nt function.
EnterInside(t) ==
    /\ At(t, "entered") /\ Top(t).api \in DOMAIN InsideOf
    /\ frames' = [frames EXCEPT ![t] =
                    <<[Top(t) EXCEPT !.step = "inside"],
                      Frame(InsideOf[Top(t).api], Top(t).id, ioBuffer[t])>>]
    /\ UNCHANGED <<launchVars, calls, ioBuffer, lastError, logVars, patchVars>>

\* DeviceIoControl fails with a warning too, though the buffer has an answer.
FillsBuffer == {"done", "warning"}

\* Mutant: the input is copied behind the call.
RealCallThenCopy(t) ==
    /\ At(t, "entered") /\ Top(t).api \notin DOMAIN InsideOf
    /\ \E outcome \in {"done", "failed"} :
        LET error == IF Top(t).api = "close" /\ outcome = "failed" THEN "call"
                     ELSE lastError[t] IN
        /\ calls' = [calls EXCEPT ![Top(t).id].outcome = outcome]
        /\ ioBuffer' = [ioBuffer EXCEPT ![t] = IF outcome = "done" THEN "answer" ELSE @]
        /\ lastError' = [lastError EXCEPT ![t] = error]
        /\ SetTop(t, [Top(t) EXCEPT !.step = "returned", !.error = error,
                                    !.input = ioBuffer'[t]])
    /\ UNCHANGED <<launchVars, logVars, patchVars>>

\* The kernel answers, answers with a warning status, fails, or leaves the request
\* pending; NtDeviceIoControlFile and NtCreateFile leave the last error alone.
RealCall(t) ==
    /\ At(t, "entered") /\ Top(t).api \notin DOMAIN InsideOf
    /\ \E outcome \in {"done", "warning", "failed", "pending"} :
        LET error == IF Top(t).api = "close" /\ outcome = "failed" THEN "call"
                     ELSE lastError[t] IN
        /\ Top(t).api # "nt_ioctl" => outcome \notin {"warning", "pending"}
        /\ calls' = [calls EXCEPT ![Top(t).id].outcome = outcome]
        /\ ioBuffer' = [ioBuffer EXCEPT ![t] = IF outcome \in FillsBuffer THEN "answer" ELSE @]
        /\ lastError' = [lastError EXCEPT ![t] = error]
        /\ SetTop(t, [Top(t) EXCEPT !.step = "returned", !.error = error])
    /\ UNCHANGED <<launchVars, logVars, patchVars>>

\* The output is copied by the length alone, whatever the result.  Of a failed call that
\* is what the caller had in *bytesOut or in the status block before, and so is the handle
\* of a failed NtCreateFile.  DeviceIoControl may be given no bytesOut at all; of a pending
\* call it has the stale length, and the answer may come in while it copies.  Only
\* NtDeviceIoControlFile looks at the status, and copies nothing of a pending call.
Output(frame, outcome, now) ==
    CASE frame.api = "close" -> {"none"}
      [] frame.api = "create" -> IF outcome \in FillsBuffer THEN {now} ELSE {"none"}
      [] frame.api = "ioctl" ->
            {"none", now} \cup IF outcome = "pending" THEN {"answer"} ELSE {}
      [] frame.api \in {"nt_ioctl", "nt_create"} ->
            (CASE outcome \in FillsBuffer -> {now}
               [] outcome = "failed"    -> {"none", now}
               [] outcome = "pending"   -> {"none"})

NumberRecord(t) ==
    /\ At(t, "returned")
    /\ logSequence' = logSequence + 1
    /\ \E output \in Output(Top(t), calls[Top(t).id].outcome, ioBuffer[t]) :
          SetTop(t, [Top(t) EXCEPT !.step = "numbered", !.seq = logSequence',
                                   !.output = output])
    /\ UNCHANGED <<launchVars, calls, ioBuffer, lastError, logLock, traceFile, unflushed,
                   patchVars>>

\* The many WriteFile calls of a record, in two steps.
RecordOf(frame) ==
    [id |-> frame.id, api |-> frame.api, seq |-> frame.seq, input |-> frame.input,
     output |-> frame.output, half |-> "head"]

\* Mutant: a record is written without g_logLock.
EnterLogAtOnce(t) ==
    /\ At(t, "numbered")
    /\ logLock' = t
    /\ traceFile' = Append(traceFile, Halves(RecordOf(Top(t)))[1])
    /\ SetTop(t, [Top(t) EXCEPT !.step = "writing"])
    /\ UNCHANGED <<launchVars, calls, ioBuffer, lastError, logSequence, unflushed,
                   patchVars>>

EnterLog(t) ==
    /\ At(t, "numbered") /\ logLock = NoThread
    /\ logLock' = t
    /\ traceFile' = Append(traceFile, Halves(RecordOf(Top(t)))[1])
    /\ SetTop(t, [Top(t) EXCEPT !.step = "writing"])
    /\ UNCHANGED <<launchVars, calls, ioBuffer, lastError, logSequence, unflushed,
                   patchVars>>

\* Mutant: the flush is due one record late.
CountedLate == IF unflushed >= FlushEvery THEN 0 ELSE unflushed + 1

\* maybe_flush_log
Counted == IF unflushed + 1 >= FlushEvery THEN 0 ELSE unflushed + 1

\* Mutant: the hooks do not put the last error back.
RestoredNever(frame, now) == {now, "other"}

\* The last error behind a hook: what writing the log left of it, or what a Win32 hook
\* found after the real call and puts back.
Restored(frame, now) == IF frame.api \in Win32 THEN {frame.error} ELSE {now, "other"}

\* The end of the record, and the way out.  The outer function derives its last error
\* from the status of the inner one.
LeaveLog(t) ==
    /\ At(t, "writing")
    /\ traceFile' = Append(traceFile, Halves(RecordOf(Top(t)))[2])
    /\ unflushed' = Counted
    /\ logLock' = NoThread
    /\ \E now \in Restored(Top(t), lastError[t]) :
        LET error == IF calls[Top(t).id].outcome = "done" THEN now ELSE "call" IN
        IF Len(frames[t]) = 2
        THEN /\ frames' = [frames EXCEPT ![t] = <<[@[1] EXCEPT !.step = "returned",
                                                               !.error = error]>>]
             /\ lastError' = [lastError EXCEPT ![t] = error]
        ELSE /\ frames' = [frames EXCEPT ![t] = <<>>]
             /\ lastError' = [lastError EXCEPT ![t] = now]
    /\ UNCHANGED <<launchVars, calls, ioBuffer, logSequence, patchVars>>

HookedCall(t) ==
    \/ \E api \in {"ioctl", "nt_ioctl", "create", "close"} : Enter(t, api)
    \/ EnterInside(t) \/ RealCall(t) \/ NumberRecord(t) \/ EnterLog(t) \/ LeaveLog(t)

-----------------------------------------------------------------------------
(* HookLoadLibrary: patch_module on a module that another thread may be       *)
(* patching too.                                                              *)

LoadLibrary(t) ==
    /\ Outside(t) /\ patched /\ Len(calls) < CallMax
    /\ calls' = Append(calls, [thread |-> t, outcome |-> "loaded"])
    /\ walk' = [walk EXCEPT ![t] = [slot |-> 1, step |-> "look", old |-> FALSE]]
    /\ UNCHANGED <<launchVars, frames, ioBuffer, lastError, logVars, slots, writable>>

\* The next slot, or the end of the table.
Onward(t) ==
    walk' = [walk EXCEPT ![t] =
                IF @.slot = Imports THEN <<>>
                ELSE [walk[t] EXCEPT !.slot = @ + 1, !.step = "look"]]

Walking(t, step) == process = "running" /\ walk[t] # <<>> /\ walk[t].step = step
NotPatching == <<launchVars, calls, frames, ioBuffer, lastError, logVars>>

\* A slot that is a hook already is passed by; else its page is made writable.
LookSlot(t) ==
    /\ Walking(t, "look")
    /\ IF slots[walk[t].slot] THEN Onward(t) /\ UNCHANGED writable
       ELSE /\ walk' = [walk EXCEPT ![t].step = "write", ![t].old = writable]
            /\ writable' = TRUE
    /\ UNCHANGED <<NotPatching, slots>>

\* The write faults if another thread has protected the page again, and the rest of the
\* module is left to it.
WriteSlot(t) ==
    /\ Walking(t, "write")
    /\ IF writable
       THEN /\ slots' = [slots EXCEPT ![walk[t].slot] = TRUE]
            /\ walk' = [walk EXCEPT ![t].step = "restore"]
       ELSE walk' = [walk EXCEPT ![t] = <<>>] /\ UNCHANGED slots
    /\ UNCHANGED <<NotPatching, writable>>

\* Mutant: the walk ends with the slot it has patched.
RestorePageEnds(t) ==
    /\ Walking(t, "restore")
    /\ writable' = walk[t].old
    /\ walk' = [walk EXCEPT ![t] = <<>>]
    /\ UNCHANGED <<NotPatching, slots>>

RestorePage(t) ==
    /\ Walking(t, "restore")
    /\ writable' = walk[t].old
    /\ Onward(t)
    /\ UNCHANGED <<NotPatching, slots>>

PatchModule(t) == LoadLibrary(t) \/ LookSlot(t) \/ WriteSlot(t) \/ RestorePage(t)

-----------------------------------------------------------------------------
(* The end of XStream.                                                        *)

\* ExitProcess, or a crash: the other threads stop wherever they are.  DllMain flushes
\* and closes the log, unless a hooked call of another DLL meets a lock without an owner
\* before and ends the process.
Exit(t) ==
    /\ Outside(t)
    /\ process' = "ended"
    /\ unflushed' \in {0, unflushed}
    /\ UNCHANGED <<launch, patched, calls, frames, ioBuffer, lastError, logSequence,
                   logLock, traceFile, patchVars>>

HookNext ==
    \/ Launcher
    \/ \E t \in Threads : HookedCall(t) \/ PatchModule(t) \/ Exit(t)

-----------------------------------------------------------------------------
(* Properties.                                                                *)

HalfAt(i) == IF i % 2 = 1 THEN "head" ELSE "tail"
RecordAt(i) == (i % 2 = 1) /\ i > 1

\* Records lie behind the header and behind one another; only the last may be cut.
RecordsWhole ==
    /\ calls # <<>> => Len(traceFile) >= 2
    /\ \A i \in DOMAIN traceFile :
          /\ traceFile[i].half = HalfAt(i)
          /\ (traceFile[i].api = "header") <=> i \in 1..2
          /\ HalfAt(i) = "tail" => traceFile[i].seq = traceFile[i - 1].seq

\* A record has the bytes that were sent and no others than those of its call: an answer
\* is only in the record of a call that got one or may still get one, and the record of the
\* Nt function, where the answer is complete, always has it.  Bytes recorded as the output
\* of a call that failed are those the caller left there, and a function that knows its
\* failure (CreateFile, NtDeviceIoControlFile of a pending call) records none.
RecordsTrue ==
    \A i \in DOMAIN traceFile : RecordAt(i) =>
        LET r == traceFile[i]  outcome == calls[r.id].outcome IN
        /\ r.input = "sent"
        /\ outcome \in FillsBuffer /\ r.api \notin {"ioctl", "close"} => r.output = "answer"
        /\ outcome \in FillsBuffer => r.output # "sent"
        /\ outcome = "failed" => r.output # "answer"
        /\ outcome = "failed" /\ r.api = "create" => r.output = "none"
        /\ outcome = "pending" /\ r.api = "nt_ioctl" => r.output = "none"

\* Numbers are drawn once; the records of a thread lie in the order of their numbers and
\* calls, and the record of an inner call before that of its caller.
RecordsOrdered ==
    \A i, j \in DOMAIN traceFile : RecordAt(i) /\ RecordAt(j) /\ i < j =>
        LET r == traceFile[i]  s == traceFile[j] IN
        /\ r.seq # s.seq
        /\ calls[r.id].thread = calls[s.id].thread => r.seq < s.seq /\ r.id <= s.id
        /\ r.id = s.id => s.api \in DOMAIN InsideOf

\* No number is missing when no call is under way; at most FlushEvery - 1 records are
\* not on the disk.
NothingLost ==
    /\ (\A t \in Threads : frames[t] = <<>>) =>
          \A n \in 1..logSequence : \E i \in DOMAIN traceFile : traceFile[i].seq = n
    /\ logLock = NoThread => unflushed < FlushEvery

\* The caller of a Win32 function that failed finds the last error of that function.
ErrorForwarded ==
    \A n \in DOMAIN calls :
        LET t == calls[n].thread IN
        /\ calls[n].outcome \in {"warning", "failed", "pending"} /\ frames[t] = <<>>
        /\ \A m \in DOMAIN calls : calls[m].thread = t => m <= n
        /\ \E i \in DOMAIN traceFile : RecordAt(i) /\ traceFile[i].id = n
                                       /\ traceFile[i].api \in Win32
        => lastError[t] = "call"

\* However two threads that load a module meet while they patch it, its imports are
\* hooks when the last of them has left.
ModulePatched ==
    (\E i \in DOMAIN slots : slots[i]) /\ (\A t \in Threads : walk[t] = <<>>) =>
        \A i \in DOMAIN slots : slots[i]

\* What the trace is compared with the trace of the x64 driver for: it is the calls of
\* XStream, whole, true and in order, and XStream does not notice it.
TraceFaithful ==
    /\ RecordsWhole /\ RecordsTrue /\ RecordsOrdered /\ NothingLost /\ ErrorForwarded
    /\ ModulePatched
=============================================================================
