----------------------------- MODULE Interrupts -----------------------------
(***************************************************************************)
(* Interrupt delivery to user mode: the INTST sources other than transfer  *)
(* completion, from the interrupt service routine through its DPC (or the  *)
(* immediate dispatch of CFDC2400) to the sticky command-status mask and   *)
(* to the user events of CFDC2180, CFDC218C and the three-event request.   *)
(*                                                                         *)
(* A region under LegacyEventLock is one step.  Command bits are named     *)
(* after what raises them: 0x0080, 0x0800 and 0x0100 are the INTST sources *)
(* 0x04, 0x10 and 0x20; the others are bits of the HWINT register.  The    *)
(* commits of INTEN are one step here; InterruptMask has their detail.     *)
(***************************************************************************)
EXTENDS Naturals, FiniteSets, FiniteSetsExt

CONSTANTS
    Source,      \* INTST sources: 0x02 "err", 0x04, 0x10, 0x20, 0x08 "hw"
    HwBit,       \* bits of HWINT, the detail of INTST source 0x08
    Event,       \* event objects user mode can register
    Cpu,         \* processors that can run the DPC
    Injector,    \* threads that issue CFDC2400
    Client,      \* threads that register events
    Group,       \* the slots of the three-event request: 2, 3 and 4
    Null

ASSUME DisjointAssumption == Source \cap HwBit = {} /\ Cpu \cap Injector = {}
ASSUME SourceAssumption == Source \subseteq {"err", "s04", "s10", "s20", "hw"}
ASSUME NullAssumption == Null \notin Event
ASSUME GroupAssumption == Group \subseteq 2..4

CmdSource == Source \cap {"s04", "s10", "s20"}
CommandBit == CmdSource \cup HwBit
Runner == Cpu \cup Injector
Slot == {0, 1} \cup Group

VARIABLES
    intst,       \* INTST
    asserted,    \* sources the board still asserts, cleared by CLRIRQ or ERRS
    hwint,       \* HWINT
    enabled,     \* InterruptEnableShadow
    pending,     \* InterruptPendingShadow
    isr,         \* step of the interrupt service routine
    taken,       \* its local variable `status`
    queued,      \* the DPC object is queued
    step,        \* [Runner]: step of LecInterruptDpc there
    work,        \* [Runner]: its local variable `pending`
    word,        \* [Runner]: its local variable `commandBits`
    cmdEnable,   \* LegacyCommandEnableMask
    cmdPending,  \* LegacyCommandPendingMask
    slot,        \* [Slot]: LegacyEvent0 .. LegacyEvent4
    refs,        \* [Event]: references the driver holds
    signaled,    \* events that are set
    capture,     \* [Client]: step of an event registration
    target,      \* [Client]: the slots it replaces
    hold,        \* [Client]: [Slot]: the references its locals hold
    batch,       \* a CFDC2110 0x85 record is between its two mask updates
    pnp,         \* step of the PnP dispatch thread
    connected,   \* InterruptConnected
    mapped,      \* BAR1 is mapped
    released,    \* [Slot]: local array of LecReleaseLegacyEvents
    awake,       \* the CFDC2180 waiter has woken and not yet asked for status
    unseen,      \* history: command bits latched, not reported nor cleared
    unreplayed,  \* history: those whose signal no registered event carries
    owed,        \* history: HWINT bits raised and not yet latched
    dropped      \* history: those given up by a reset, a stop or a collision

hwVars == <<intst, asserted, hwint, owed, dropped>>
isrVars == <<isr, taken, queued>>
runVars == <<step, work, word>>
maskVars == <<enabled, cmdEnable, batch>>
statusVars == <<cmdPending, unseen, unreplayed, awake>>
captureVars == <<capture, target, hold>>
pnpVars == <<pnp, connected, mapped, released>>
vars == <<hwVars, isrVars, runVars, maskVars, statusVars, captureVars, pnpVars,
          pending, slot, refs, signaled>>

NoEvents == [s \in Slot |-> Null]

Init ==
    /\ intst = {} /\ asserted = {} /\ enabled = {} /\ pending = {} /\ taken = {}
    /\ hwint = {} /\ owed = {} /\ dropped = {}
    /\ isr = "idle" /\ queued = FALSE
    /\ step = [r \in Runner |-> "idle"]
    /\ work = [r \in Runner |-> {}]
    /\ word = [r \in Runner |-> {}]
    /\ cmdEnable = {} /\ cmdPending = {} /\ batch = FALSE
    /\ unseen = {} /\ unreplayed = {} /\ awake = FALSE
    /\ slot = NoEvents /\ released = NoEvents
    /\ refs = [e \in Event |-> 0]
    /\ signaled = {}
    /\ capture = [c \in Client |-> "idle"]
    /\ target = [c \in Client |-> {}]
    /\ hold = [c \in Client |-> NoEvents]
    /\ pnp = "stopped" /\ connected = FALSE /\ mapped = FALSE

-----------------------------------------------------------------------------
(* Hardware.  INTST is set again for as long as the board asserts a source   *)
(* (Acquisition.c:600-606: without the CLRIRQ writes a source retriggers).  *)

RaiseSource(s) ==
    /\ s \in Source \ {"hw"}
    /\ intst' = intst \cup {s}
    /\ asserted' = asserted \cup {s}
    /\ UNCHANGED <<hwint, owed, dropped, isrVars, runVars, maskVars, statusVars,
                   captureVars, pnpVars, pending, slot, refs, signaled>>

\* A bit raised between a runner's read of HWINT and its write of zero is
\* wiped out by that write.
RaiseHw(b) ==
    /\ "hw" \in Source
    /\ hwint' = hwint \cup {b}
    /\ intst' = intst \cup {"hw"}
    /\ asserted' = asserted \cup {"hw"}
    /\ owed' = owed \cup {b}
    /\ dropped' = IF \E r \in Runner : step[r] = "clear" THEN dropped \cup {b}
                  ELSE dropped
    /\ UNCHANGED <<isrVars, runVars, maskVars, statusVars, captureVars, pnpVars,
                   pending, slot, refs, signaled>>

-----------------------------------------------------------------------------
(* The interrupt service routine.                                           *)

IsrAccept ==
    /\ isr = "idle"
    /\ connected /\ pnp = "running"
    /\ intst \cap enabled # {}
    /\ taken' = intst \cap enabled
    /\ isr' = "accepted"
    /\ UNCHANGED <<hwVars, queued, runVars, maskVars, statusVars, captureVars,
                   pnpVars, pending, slot, refs, signaled>>

\* CLRIRQ, CLRERR and ERRS: the board stops asserting what is taken.
IsrClearSources ==
    /\ isr = "accepted"
    /\ asserted' = asserted \ taken
    /\ isr' = "cleared"
    /\ UNCHANGED <<intst, hwint, owed, dropped, taken, queued, runVars, maskVars,
                   statusVars, captureVars, pnpVars, pending, slot, refs, signaled>>

IsrPend ==
    /\ isr = "cleared"
    /\ pending' = pending \cup taken
    /\ isr' = "pended"
    /\ UNCHANGED <<hwVars, taken, queued, runVars, maskVars, statusVars,
                   captureVars, pnpVars, slot, refs, signaled>>

\* Mutant: CLRIRQ is written together with INTST, after the bits are pending.
IsrAcknowledgeAll ==
    /\ isr = "pended"
    /\ asserted' = asserted \ taken
    /\ intst' = intst \ taken
    /\ isr' = "acked"
    /\ UNCHANGED <<hwint, owed, dropped, taken, queued, runVars, maskVars,
                   statusVars, captureVars, pnpVars, pending, slot, refs, signaled>>

\* INTST <- status
IsrAcknowledge ==
    /\ isr = "pended"
    /\ intst' = (intst \ taken) \cup asserted
    /\ isr' = "acked"
    /\ UNCHANGED <<asserted, hwint, owed, dropped, taken, queued, runVars,
                   maskVars, statusVars, captureVars, pnpVars, pending, slot,
                   refs, signaled>>

\* Mutant: no DPC is queued while one is running.
IsrQueueSkipped ==
    /\ isr = "acked"
    /\ queued' = (queued \/ \A c \in Cpu : step[c] = "idle")
    /\ taken' = {}
    /\ isr' = "idle"
    /\ UNCHANGED <<hwVars, runVars, maskVars, statusVars, captureVars, pnpVars,
                   pending, slot, refs, signaled>>

\* KeInsertQueueDpc does nothing if the DPC object is queued already.
IsrQueue ==
    /\ isr = "acked"
    /\ queued' = TRUE
    /\ taken' = {}
    /\ isr' = "idle"
    /\ UNCHANGED <<hwVars, runVars, maskVars, statusVars, captureVars, pnpVars,
                   pending, slot, refs, signaled>>

-----------------------------------------------------------------------------
(* LecInterruptDpc, on a processor or called by CFDC2400.                   *)

DpcStart(c) ==
    /\ queued /\ step[c] = "idle"
    /\ queued' = FALSE
    /\ step' = [step EXCEPT ![c] = "exchange"]
    /\ UNCHANGED <<hwVars, isr, taken, work, word, maskVars, statusVars,
                   captureVars, pnpVars, pending, slot, refs, signaled>>

\* CFDC2400; a zero mask dispatches what is pending already.  Bit 0 of the mask,
\* the transfer completion, is InjectPending of module Transfers.
Inject(i, m) ==
    /\ step[i] = "idle"
    /\ pending' = pending \cup m
    /\ step' = [step EXCEPT ![i] = "exchange"]
    /\ UNCHANGED <<hwVars, isrVars, work, word, maskVars, statusVars,
                   captureVars, pnpVars, slot, refs, signaled>>

Exchange(r) ==
    /\ step[r] = "exchange"
    /\ work' = [work EXCEPT ![r] = pending]
    /\ pending' = {}
    /\ step' = [step EXCEPT ![r] = "events"]
    /\ UNCHANGED <<hwVars, isrVars, word, maskVars, statusVars, captureVars,
                   pnpVars, slot, refs, signaled>>

\* KeSetEvent on the events registered in these slots.
Signal(slots) == signaled' = signaled \cup ({slot[s] : s \in slots} \ {Null})

\* Latch command bits; history records whether event 0 could carry them.
LatchCommands(bits) ==
    LET new == bits \cap cmdEnable IN
    /\ cmdPending' = cmdPending \cup new
    /\ unseen' = unseen \cup new
    /\ unreplayed' = IF slot[0] = Null THEN unreplayed \cup new
                     ELSE unreplayed \ new
    /\ awake' = awake

\* Sources 0x02, 0x04, 0x10 and 0x20, under LegacyEventLock.
SignalEvents(r) ==
    LET commands == work[r] \cap CmdSource IN
    /\ step[r] = "events"
    /\ LatchCommands(commands)
    /\ Signal((IF "err" \in work[r] THEN {1} ELSE {})
              \cup (IF commands # {} THEN {0} ELSE {}))
    /\ step' = [step EXCEPT ![r] =
                    IF "hw" \in work[r] /\ mapped THEN "read" ELSE "idle"]
    /\ work' = [work EXCEPT ![r] = {}]
    /\ dropped' = IF "hw" \in work[r] /\ ~mapped THEN dropped \cup hwint
                  ELSE dropped
    /\ UNCHANGED <<intst, asserted, hwint, owed, isrVars, word, maskVars, captureVars,
                   pnpVars, pending, slot, refs>>

\* An access to an unmapped BAR is fatal: nothing is modelled after it.
HwRead(r) ==
    /\ step[r] = "read" /\ mapped
    /\ word' = [word EXCEPT ![r] = hwint]
    /\ step' = [step EXCEPT ![r] = IF hwint = {} THEN "idle" ELSE "clear"]
    /\ UNCHANGED <<hwVars, isrVars, work, maskVars, statusVars, captureVars,
                   pnpVars, pending, slot, refs, signaled>>

HwClear(r) ==
    /\ step[r] = "clear" /\ mapped
    /\ hwint' = {}
    /\ step' = [step EXCEPT ![r] = "latch"]
    /\ UNCHANGED <<intst, asserted, owed, dropped, isrVars, work, word, maskVars,
                   statusVars, captureVars, pnpVars, pending, slot, refs, signaled>>

\* Event 0 is set even if no bit of the word is enabled.
HwLatch(r) ==
    /\ step[r] = "latch"
    /\ LatchCommands(word[r])
    /\ Signal({0})
    /\ owed' = owed \ (word[r] \ hwint)
    /\ dropped' = dropped \ (word[r] \ hwint)
    /\ word' = [word EXCEPT ![r] = {}]
    /\ step' = [step EXCEPT ![r] = "idle"]
    /\ UNCHANGED <<intst, asserted, hwint, isrVars, work, maskVars, captureVars, pnpVars,
                   pending, slot, refs>>

-----------------------------------------------------------------------------
(* Requests on the masks.                                                   *)

\* Opcode 0x85: first the command mask, under LegacyEventLock ...
SetCommandEnable(m) ==
    /\ ~batch
    /\ cmdEnable' = m
    /\ batch' = TRUE
    /\ UNCHANGED <<hwVars, isrVars, runVars, enabled, statusVars, captureVars,
                   pnpVars, pending, slot, refs, signaled>>

\* ... then INTEN, which fails once the device is stopped.
CommitCommandEnable ==
    /\ batch
    /\ enabled' = IF pnp = "running"
                  THEN (enabled \ CmdSource) \cup (cmdEnable \cap CmdSource)
                  ELSE enabled
    /\ batch' = FALSE
    /\ UNCHANGED <<hwVars, isrVars, runVars, cmdEnable, statusVars, captureVars,
                   pnpVars, pending, slot, refs, signaled>>

\* CFDC2190 sets or clears INTEN bit 1; the first response fetch sets bit 3.
CommitMask(m) ==
    /\ pnp = "running"
    /\ m \in {enabled \cup ({"err"} \cap Source), enabled \ {"err"},
           enabled \cup ({"hw"} \cap Source)}
    /\ enabled' = m
    /\ UNCHANGED <<hwVars, isrVars, runVars, cmdEnable, batch, statusVars,
                   captureVars, pnpVars, pending, slot, refs, signaled>>

\* Opcode 0x88.
ClearCommands(m) ==
    /\ ~batch
    /\ cmdPending' = cmdPending \ m
    /\ unseen' = unseen \ m
    /\ unreplayed' = unreplayed \ m
    /\ UNCHANGED <<hwVars, isrVars, runVars, maskVars, awake, captureVars,
                   pnpVars, pending, slot, refs, signaled>>

\* 85FB/01 reports the pending mask.
QueryStatus ==
    /\ ~batch
    /\ unseen' = {} /\ unreplayed' = {}
    /\ awake' = FALSE
    /\ UNCHANGED <<hwVars, isrVars, runVars, maskVars, cmdPending, captureVars,
                   pnpVars, pending, slot, refs, signaled>>

\* Family 2 opcode 0x40 acknowledges all of INTST, writes CLRIRQ for 0x04 and
\* 0x08 only, and leaves HWINT alone.
ResetInterruptState ==
    /\ ~batch /\ pnp = "running"
    /\ asserted' = asserted \ {"err", "s04", "hw"}
    /\ intst' = asserted'
    /\ dropped' = dropped \cup hwint
    /\ UNCHANGED <<hwint, owed, isrVars, runVars, maskVars, statusVars,
                   captureVars, pnpVars, pending, slot, refs, signaled>>

\* The client's wait on the CFDC2180 event, a synchronization event.
Wake ==
    /\ slot[0] \in signaled
    /\ signaled' = signaled \ {slot[0]}
    /\ awake' = TRUE
    /\ UNCHANGED <<hwVars, isrVars, runVars, maskVars, cmdPending, unseen,
                   unreplayed, captureVars, pnpVars, pending, slot, refs>>

-----------------------------------------------------------------------------
(* Event registration: CFDC2180 (slot 0), CFDC218C (slot 1), three events.  *)

RegisterEvents(c, slots) ==
    /\ capture[c] = "idle"
    /\ slots \in {{0}, {1}, Group} \ {{}}
    /\ capture' = [capture EXCEPT ![c] = "refer"]
    /\ target' = [target EXCEPT ![c] = slots]
    /\ UNCHANGED <<hwVars, isrVars, runVars, maskVars, statusVars, hold,
                   pnpVars, pending, slot, refs, signaled>>

NextToRefer(c) == Min({s \in target[c] : hold[c][s] = Null})

\* ObReferenceObjectByHandle, one handle at a time.
CaptureRefer(c, e) ==
    LET s == NextToRefer(c) IN
    /\ capture[c] = "refer"
    /\ hold' = [hold EXCEPT ![c][s] = e]
    /\ refs' = [refs EXCEPT ![e] = @ + 1]
    /\ capture' = [capture EXCEPT ![c] = IF s = Max(target[c]) THEN "clear" ELSE @]
    /\ UNCHANGED <<hwVars, isrVars, runVars, maskVars, statusVars, target,
                   pnpVars, pending, slot, signaled>>

\* A handle is not an event: what was referenced so far is dropped.
CaptureFails(c) ==
    /\ capture[c] = "refer"
    /\ capture' = [capture EXCEPT ![c] = "deref"]
    /\ UNCHANGED <<hwVars, isrVars, runVars, maskVars, statusVars, target, hold,
                   pnpVars, pending, slot, refs, signaled>>

Held(c) == {hold[c][s] : s \in target[c]}

\* KeClearEvent on each event, before any is published.
CaptureClear(c) ==
    /\ capture[c] = "clear"
    /\ signaled' = signaled \ Held(c)
    /\ unreplayed' = IF slot[0] \in Held(c) THEN unseen ELSE unreplayed
    /\ capture' = [capture EXCEPT ![c] = "swap"]
    /\ UNCHANGED <<hwVars, isrVars, runVars, maskVars, cmdPending, unseen, awake,
                   target, hold, pnpVars, pending, slot, refs>>

\* The slots and the locals are exchanged under LegacyEventLock.  A command
\* that is pending already is not replayed to the new event.
CaptureSwap(c) ==
    /\ capture[c] = "swap"
    /\ slot' = [s \in Slot |-> IF s \in target[c] THEN hold[c][s] ELSE slot[s]]
    /\ hold' = [hold EXCEPT ![c] =
                  [s \in Slot |-> IF s \in target[c] THEN slot[s] ELSE Null]]
    /\ capture' = [capture EXCEPT ![c] = "deref"]
    /\ unreplayed' = IF 0 \in target[c] THEN unseen ELSE unreplayed
    /\ UNCHANGED <<hwVars, isrVars, runVars, maskVars, cmdPending, unseen, awake,
                   target, pnpVars, pending, refs, signaled>>

\* Mutant: the event is cleared once it is registered.
CaptureDerefThenClear(c) ==
    /\ capture[c] = "deref"
    /\ refs' = [e \in Event |-> refs[e] - Cardinality({s \in Slot : hold[c][s] = e})]
    /\ hold' = [hold EXCEPT ![c] = NoEvents]
    /\ capture' = [capture EXCEPT ![c] = "idle"]
    /\ signaled' = signaled \ {slot[s] : s \in target[c]}
    /\ target' = [target EXCEPT ![c] = {}]
    /\ UNCHANGED <<hwVars, isrVars, runVars, maskVars, statusVars, pnpVars,
                   pending, slot>>

\* Mutant: a failed or finished request drops only its first reference.
CaptureDerefFirst(c) ==
    LET old == {s \in Slot : hold[c][s] # Null} IN
    /\ capture[c] = "deref"
    /\ refs' = IF old = {} THEN refs
               ELSE [refs EXCEPT ![hold[c][Min(old)]] = @ - 1]
    /\ hold' = [hold EXCEPT ![c] = NoEvents]
    /\ capture' = [capture EXCEPT ![c] = "idle"]
    /\ target' = [target EXCEPT ![c] = {}]
    /\ UNCHANGED <<hwVars, isrVars, runVars, maskVars, statusVars, pnpVars,
                   pending, slot, signaled>>

\* ObDereferenceObject on what the locals hold.
CaptureDeref(c) ==
    /\ capture[c] = "deref"
    /\ refs' = [e \in Event |-> refs[e] - Cardinality({s \in Slot : hold[c][s] = e})]
    /\ hold' = [hold EXCEPT ![c] = NoEvents]
    /\ capture' = [capture EXCEPT ![c] = "idle"]
    /\ target' = [target EXCEPT ![c] = {}]
    /\ UNCHANGED <<hwVars, isrVars, runVars, maskVars, statusVars, pnpVars,
                   pending, slot, signaled>>

-----------------------------------------------------------------------------
(* PnP start and stop.                                                      *)

Start ==
    /\ pnp = "stopped"
    /\ mapped' = TRUE
    /\ connected' \in BOOLEAN
    /\ pnp' = "running"
    /\ UNCHANGED <<hwVars, isrVars, runVars, maskVars, statusVars, captureVars,
                   released, pending, slot, refs, signaled>>

Stop ==
    /\ pnp = "running"
    /\ pnp' = "disconnect"
    /\ UNCHANGED <<hwVars, isrVars, runVars, maskVars, statusVars, captureVars,
                   connected, mapped, released, pending, slot, refs, signaled>>

\* A DPC that is queued or running is not waited for.
Disconnect ==
    /\ pnp = "disconnect"
    /\ isr = "idle"
    /\ connected' = FALSE
    /\ enabled' = IF connected THEN {} ELSE enabled
    /\ pending' = IF connected THEN {} ELSE pending
    /\ dropped' = IF connected THEN dropped \cup hwint ELSE dropped
    /\ pnp' = "detach"
    /\ UNCHANGED <<intst, asserted, hwint, owed, isrVars, runVars, cmdEnable, batch,
                   statusVars, captureVars, mapped, released, slot, refs, signaled>>

\* LecReleaseLegacyEvents, under LegacyEventLock ...
DetachEvents ==
    /\ pnp = "detach"
    /\ released' = slot
    /\ slot' = NoEvents
    /\ unreplayed' = unseen
    /\ pnp' = "deref"
    /\ UNCHANGED <<hwVars, isrVars, runVars, maskVars, cmdPending, unseen, awake,
                   captureVars, connected, mapped, pending, refs, signaled>>

\* ... and after it.
DerefReleased ==
    /\ pnp = "deref"
    /\ refs' = [e \in Event |-> refs[e] - Cardinality({s \in Slot : released[s] = e})]
    /\ released' = NoEvents
    /\ pnp' = "unmap"
    /\ UNCHANGED <<hwVars, isrVars, runVars, maskVars, statusVars, captureVars,
                   connected, mapped, pending, slot, signaled>>

UnmapBars ==
    /\ pnp = "unmap"
    /\ mapped' = FALSE
    /\ pnp' = "stopped"
    /\ UNCHANGED <<hwVars, isrVars, runVars, maskVars, statusVars, captureVars,
                   connected, released, pending, slot, refs, signaled>>

-----------------------------------------------------------------------------
Hardware == (\E s \in Source : RaiseSource(s)) \/ (\E b \in HwBit : RaiseHw(b))
Isr == IsrAccept \/ IsrClearSources \/ IsrPend \/ IsrAcknowledge \/ IsrQueue
Dispatch(r) ==
    Exchange(r) \/ SignalEvents(r) \/ HwRead(r) \/ HwClear(r) \/ HwLatch(r)
Dpc(c) == DpcStart(c) \/ Dispatch(c)
Masks ==
    \/ \E m \in SUBSET CommandBit : SetCommandEnable(m) \/ ClearCommands(m)
    \/ CommitCommandEnable
    \/ \E m \in SUBSET Source : CommitMask(m)
    \/ QueryStatus
    \/ ResetInterruptState
Capture(c) ==
    \/ \E slots \in SUBSET Slot : RegisterEvents(c, slots)
    \/ \E e \in Event : CaptureRefer(c, e)
    \/ CaptureFails(c) \/ CaptureClear(c) \/ CaptureSwap(c) \/ CaptureDeref(c)
Pnp == Start \/ Stop \/ Disconnect \/ DetachEvents \/ DerefReleased \/ UnmapBars

Next ==
    \/ Hardware
    \/ Isr
    \/ \E c \in Cpu : Dpc(c)
    \/ \E i \in Injector : Dispatch(i) \/ (\E m \in SUBSET Source : Inject(i, m))
    \/ Masks
    \/ Wake
    \/ \E c \in Client : Capture(c)
    \/ Pnp

Spec == Init /\ [][Next]_vars

\* The ISR runs to its end, a queued DPC runs, a DPC runs to its end.
Fairness ==
    /\ WF_vars(IsrClearSources \/ IsrPend \/ IsrAcknowledge \/ IsrQueue)
    /\ \A c \in Cpu : WF_vars(Dpc(c))
    /\ \A i \in Injector : WF_vars(Dispatch(i))

FairSpec == Spec /\ Fairness

-----------------------------------------------------------------------------
(* Properties.                                                              *)

\* A pending bit never waits without a dispatcher that will still look at it:
\* the ISR has yet to queue the DPC, the DPC is queued, or a DPC or CFDC2400
\* has not done its exchange.  One DPC object serves overlapping interrupts.
PendingServed ==
    pending # {} =>
        \/ isr \in {"pended", "acked"}
        \/ queued
        \/ \E r \in Runner : step[r] = "exchange"

\* Every reference the driver took on an event is held by a slot, by a request
\* in progress or by a stop in progress: none leaks, none is dropped twice, and
\* the event a DPC finds in a slot is a live object.
ReferencesBalanced ==
    \A e \in Event :
        refs[e] = Cardinality({s \in Slot : slot[s] = e})
                + Cardinality({s \in Slot : released[s] = e})
                + Cardinality({cs \in Client \X Slot : hold[cs[1]][cs[2]] = e})

\* A command bit the client has not been told of has its wake-up under way: the
\* registered event is set or the client has woken and will ask for the status.
\* Bits latched before the event was registered are not replayed.
WakeupNotLost ==
    unseen \subseteq unreplayed \/ slot[0] \in signaled \/ awake

\* A source on its way to a runner's read of HWINT.
HwOnItsWay ==
    \/ "hw" \in intst \cup pending
    \/ isr \in {"accepted", "cleared"} /\ "hw" \in taken
    \/ \E r \in Runner : "hw" \in work[r] \/ step[r] = "read"

\* A HWINT bit that was raised is still in the register with an interrupt on
\* its way, or in the hands of a runner that will latch it, unless a reset or
\* a stop acknowledged it unread or it collided with a runner's write of zero.
HwBitTracked ==
    \A b \in owed \ dropped :
        \/ b \in hwint /\ HwOnItsWay
        \/ \E r \in Runner : step[r] \in {"clear", "latch"} /\ b \in word[r]

\* Every source the ISR accepted reaches a dispatcher, unless a stop
\* disconnects the interrupt.
AcceptedIsDispatched ==
    \A s \in Source :
        isr = "accepted" /\ s \in taken ~>
            \/ \E r \in Runner : step[r] = "events" /\ s \in work[r]
            \/ ~connected
=============================================================================
