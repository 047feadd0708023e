-------------------------- MODULE Interrupts_proofs --------------------------
(* Proofs about Interrupts: no pending interrupt bit is left without a       *)
(* dispatcher, no command status without its wake-up, no bit of HWINT is     *)
(* lost untold, and the references on event objects balance.                 *)
EXTENDS Interrupts, FiniteSetTheorems, TLAPS

\* What the two invariants need to know of the types of the variables.
Typing ==
    /\ step \in [Runner -> {"idle", "exchange", "events", "read", "clear", "latch"}]
    /\ slot \in [Slot -> Event \cup {Null}]
    /\ signaled \subseteq Event

-----------------------------------------------------------------------------
LEMMA TypingInit == Init => Typing
BY SMT DEF Init, Typing, NoEvents

\* The references a registration holds are events or Null; with the slots this
\* is preserved together.
HoldTyping == hold \in [Client -> [Slot -> Event \cup {Null}]]

LEMMA HoldInit == Init => HoldTyping
BY SMT DEF Init, HoldTyping, NoEvents

LEMMA HoldStep == Typing /\ HoldTyping /\ [Next]_vars => HoldTyping'
<1> SUFFICES ASSUME Typing, HoldTyping, [Next]_vars PROVE HoldTyping'
  OBVIOUS
<1> USE DEF HoldTyping
<1>1. CASE \E c \in Client : Capture(c)
  <2> PICK c \in Client : Capture(c)
    BY <1>1
  <2>1. CASE \E e \in Event : CaptureRefer(c, e)
    <3> PICK e \in Event : CaptureRefer(c, e)
      BY <2>1
    <3>1. hold' = [hold EXCEPT ![c] = [hold[c] EXCEPT ![NextToRefer(c)] = e]]
      BY DEF CaptureRefer
    <3>2. [hold[c] EXCEPT ![NextToRefer(c)] = e] \in [Slot -> Event \cup {Null}]
      OBVIOUS
    <3> QED
      BY <3>1, <3>2
  <2>2. CASE CaptureSwap(c)
    <3>1. [s \in Slot |-> IF s \in target[c] THEN slot[s] ELSE Null]
            \in [Slot -> Event \cup {Null}]
      BY DEF Typing
    <3> QED
      BY <2>2, <3>1 DEF CaptureSwap
  <2>3. CASE CaptureDeref(c)
    BY <2>3 DEF CaptureDeref, NoEvents
  <2>4. CASE \/ \E slots \in SUBSET Slot : RegisterEvents(c, slots)
             \/ CaptureFails(c) \/ CaptureClear(c)
    BY <2>4 DEF RegisterEvents, CaptureFails, CaptureClear
  <2> QED
    BY <2>1, <2>2, <2>3, <2>4 DEF Capture
<1>2. CASE ~(\E c \in Client : Capture(c))
  <2>1. CASE UNCHANGED vars \/ Hardware \/ Isr \/ Wake
    BY <2>1 DEF vars, captureVars, Hardware, RaiseSource, RaiseHw, Isr, IsrAccept,
       IsrClearSources, IsrPend, IsrAcknowledge, IsrQueue, Wake
  <2>2. CASE \E r \in Runner : DpcStart(r) \/ Dispatch(r)
                \/ \E m \in SUBSET Source : Inject(r, m)
    BY <2>2 DEF captureVars, DpcStart, Dispatch, Exchange, SignalEvents, HwRead,
       HwClear, HwLatch, Inject
  <2>3. CASE Masks
    BY <2>3 DEF captureVars, Masks, SetCommandEnable, ClearCommands,
       CommitCommandEnable, CommitMask, QueryStatus, ResetInterruptState
  <2>4. CASE Pnp
    BY <2>4 DEF captureVars, Pnp, Start, Stop, Disconnect, DetachEvents,
       DerefReleased, UnmapBars
  <2> QED
    BY <1>2, <2>1, <2>2, <2>3, <2>4 DEF Next, Dpc, Runner
<1> QED
  BY <1>1, <1>2

-----------------------------------------------------------------------------
\* The strengthening: both properties with the types they rest on.
IInv == Typing /\ HoldTyping /\ PendingServed /\ WakeupNotLost

LEMMA InitInv == Init => IInv
BY TypingInit, HoldInit DEF IInv, Init, PendingServed, WakeupNotLost

\* A latch of command bits comes with event 0, or marks them unreplayed.
LEMMA LatchKeepsWakeup ==
  ASSUME Typing, WakeupNotLost,
         NEW bits, LatchCommands(bits),
         signaled \subseteq signaled', slot' = slot,
         bits # {} => slot[0] = Null \/ slot[0] \in signaled'
  PROVE  WakeupNotLost'
BY DEF LatchCommands, WakeupNotLost

LEMMA StepInv == IInv /\ [Next]_vars => IInv'
<1> SUFFICES ASSUME IInv, [Next]_vars PROVE IInv'
  OBVIOUS
<1>h. HoldTyping'
  BY HoldStep DEF IInv
<1>0. Typing /\ HoldTyping /\ PendingServed /\ WakeupNotLost
  BY DEF IInv
<1>1. CASE UNCHANGED vars
  BY <1>0, <1>1, <1>h DEF IInv, Typing, PendingServed, WakeupNotLost, vars, hwVars,
     isrVars, runVars, statusVars
<1>2. CASE Hardware
  BY <1>0, <1>2, <1>h DEF IInv, Typing, PendingServed, WakeupNotLost, Hardware,
     RaiseSource, RaiseHw, isrVars, runVars, statusVars
<1>3. CASE Isr
  BY <1>0, <1>3, <1>h DEF IInv, Typing, PendingServed, WakeupNotLost, Isr, IsrAccept,
     IsrClearSources, IsrPend, IsrAcknowledge, IsrQueue, runVars, statusVars
<1>4. ASSUME NEW c \in Cpu, DpcStart(c) PROVE IInv'
  BY <1>0, <1>4, <1>h DEF IInv, Typing, PendingServed, WakeupNotLost, DpcStart, Runner,
     statusVars
<1>5. ASSUME NEW i \in Injector, NEW m \in SUBSET Source, Inject(i, m) PROVE IInv'
  BY <1>0, <1>5, <1>h DEF IInv, Typing, PendingServed, WakeupNotLost, Inject, Runner,
     isrVars, statusVars
<1>6. ASSUME NEW r \in Runner, Dispatch(r) PROVE IInv'
  <2>1. CASE Exchange(r)
    BY <1>0, <1>h, <2>1 DEF IInv, Typing, PendingServed, WakeupNotLost, Exchange,
       statusVars
  <2>2. CASE SignalEvents(r)
    <3>1. Typing'
      BY <1>0, <2>2 DEF Typing, SignalEvents, Signal, Slot
    <3>2. PendingServed'
      BY <1>0, <2>2 DEF Typing, PendingServed, SignalEvents, isrVars
    <3>3. WakeupNotLost'
      BY <1>0, <2>2, LatchKeepsWakeup DEF SignalEvents, Signal
    <3> QED
      BY <1>h, <3>1, <3>2, <3>3 DEF IInv
  <2>3. CASE HwRead(r) \/ HwClear(r)
    BY <1>0, <1>h, <2>3 DEF IInv, Typing, PendingServed, WakeupNotLost, HwRead, HwClear,
       isrVars, statusVars
  <2>4. CASE HwLatch(r)
    <3>1. Typing'
      BY <1>0, <2>4 DEF Typing, HwLatch, Signal, Slot
    <3>2. PendingServed'
      BY <1>0, <2>4 DEF Typing, PendingServed, HwLatch, isrVars
    <3>3. WakeupNotLost'
      BY <1>0, <2>4, LatchKeepsWakeup DEF HwLatch, Signal
    <3> QED
      BY <1>h, <3>1, <3>2, <3>3 DEF IInv
  <2> QED
    BY <1>6, <2>1, <2>2, <2>3, <2>4 DEF Dispatch
<1>7. CASE Masks
  BY <1>0, <1>7, <1>h DEF IInv, Typing, PendingServed, WakeupNotLost, Masks,
     SetCommandEnable, ClearCommands, CommitCommandEnable, CommitMask, QueryStatus,
     ResetInterruptState, isrVars, runVars, statusVars
<1>8. CASE Wake
  BY <1>0, <1>8, <1>h DEF IInv, Typing, PendingServed, WakeupNotLost, Wake, isrVars,
     runVars
<1>9. ASSUME NEW c \in Client, Capture(c) PROVE IInv'
  <2>1. CASE \/ \E slots \in SUBSET Slot : RegisterEvents(c, slots)
             \/ \E e \in Event : CaptureRefer(c, e)
             \/ CaptureFails(c) \/ CaptureDeref(c)
    BY <1>0, <1>h, <2>1 DEF IInv, Typing, PendingServed, WakeupNotLost, RegisterEvents,
       CaptureRefer, CaptureFails, CaptureDeref, isrVars, runVars, statusVars
  <2>2. CASE CaptureClear(c)
    BY <1>0, <1>h, <2>2 DEF IInv, Typing, PendingServed, WakeupNotLost, CaptureClear,
       isrVars, runVars
  <2>3. CASE CaptureSwap(c)
    <3>1. Typing'
      BY <1>0, <2>3 DEF Typing, HoldTyping, CaptureSwap, runVars
    <3>2. PendingServed'
      BY <1>0, <2>3 DEF PendingServed, CaptureSwap, isrVars, runVars
    <3>3. WakeupNotLost'
      BY <1>0, <2>3 DEF Typing, WakeupNotLost, CaptureSwap, Slot
    <3> QED
      BY <1>h, <3>1, <3>2, <3>3 DEF IInv
  <2> QED
    BY <1>9, <2>1, <2>2, <2>3 DEF Capture
<1>10. CASE Pnp
  BY <1>0, <1>10, <1>h DEF IInv, Typing, PendingServed, WakeupNotLost, Pnp, Start, Stop,
     Disconnect, DetachEvents, DerefReleased, UnmapBars, NoEvents, isrVars, runVars,
     statusVars
<1> QED
  BY <1>1, <1>2, <1>3, <1>4, <1>5, <1>6, <1>7, <1>8, <1>9, <1>10
     DEF Next, Dpc, Runner

\* The invariant holds of every behaviour.
THEOREM Invariant == Spec => []IInv
BY InitInv, StepInv, PTL DEF Spec

\* No interrupt bit that the ISR or CFDC2400 made pending is left without a
\* dispatcher that will exchange it, for any number of processors and threads.
THEOREM PendingIsServed == Spec => []PendingServed
<1>1. IInv => PendingServed
  BY DEF IInv
<1> QED
  BY Invariant, <1>1, PTL

\* A command bit latched since the current CFDC2180 event was registered and
\* not yet reported has its wake-up under way, whatever the interleaving of
\* registrations, DPCs, status requests, clears and stops.
THEOREM WakeupIsNotLost == Spec => []WakeupNotLost
<1>1. IInv => WakeupNotLost
  BY DEF IInv
<1> QED
  BY Invariant, <1>1, PTL

-----------------------------------------------------------------------------
(* Bits of HWINT.                                                            *)

HwTyping ==
    /\ {intst, asserted, pending, taken} \subseteq SUBSET Source
    /\ {hwint, owed, dropped} \subseteq SUBSET HwBit
    /\ work \in [Runner -> SUBSET Source]
    /\ word \in [Runner -> SUBSET HwBit]

\* The source is on its way also after INTST has been written back: while the ISR is
\* about to do that, INTST itself only counts if the board asserts the source again.
Announced ==
    \/ "hw" \in intst /\ ~(isr = "pended" /\ "hw" \in taken /\ "hw" \notin asserted)
    \/ "hw" \in pending
    \/ isr \in {"accepted", "cleared"} /\ "hw" \in taken
    \/ \E r \in Runner : "hw" \in work[r] \/ step[r] = "read"

\* A bit in the register is announced or in the hands of a runner that is about to write
\* zero; a bit that is not is in the hands of one that has read it.
HwBitHeld ==
    /\ \A b \in (owed \ dropped) \cap hwint :
          Announced \/ \E r \in Runner : step[r] = "clear" /\ b \in word[r]
    /\ \A b \in (owed \ dropped) \ hwint :
          \E r \in Runner : step[r] \in {"clear", "latch"} /\ b \in word[r]

\* Who is about to write zero knows the register but for the bits given up.
ClearerKnows ==
    \A r \in Runner : step[r] = "clear" => hwint \subseteq word[r] \cup dropped

WorkOnlyInEvents == \A r \in Runner : step[r] # "events" => work[r] = {}

HwInv == HwTyping /\ HwBitHeld /\ ClearerKnows /\ WorkOnlyInEvents

LEMMA HwInit == Init => HwInv
BY DEF Init, HwInv, HwTyping, HwBitHeld, ClearerKnows, WorkOnlyInEvents

LEMMA HwStep == Typing /\ HwInv /\ [Next]_vars => HwInv'
<1> SUFFICES ASSUME Typing, HwInv, [Next]_vars PROVE HwInv'
  OBVIOUS
<1> USE DEF Typing, HwInv, HwTyping, HwBitHeld, ClearerKnows, WorkOnlyInEvents, Announced,
            hwVars, isrVars, runVars
<1>1. CASE UNCHANGED vars
  BY <1>1 DEF vars
<1>2. ASSUME NEW s \in Source, RaiseSource(s) PROVE HwInv'
  BY <1>2 DEF RaiseSource
<1>3. ASSUME NEW b \in HwBit, RaiseHw(b) PROVE HwInv'
  BY <1>3 DEF RaiseHw
<1>4. CASE IsrAccept
  BY <1>4 DEF IsrAccept
<1>5. CASE IsrClearSources
  BY <1>5 DEF IsrClearSources
<1>6. CASE IsrPend
  BY <1>6 DEF IsrPend
<1>7. CASE IsrAcknowledge
  BY <1>7 DEF IsrAcknowledge
<1>8. CASE IsrQueue
  BY <1>8 DEF IsrQueue
<1>9. ASSUME NEW c \in Cpu, DpcStart(c) PROVE HwInv'
  BY <1>9 DEF DpcStart, Runner
<1>10. ASSUME NEW i \in Injector, NEW m \in SUBSET Source, Inject(i, m) PROVE HwInv'
  BY <1>10 DEF Inject, Runner
<1>11. ASSUME NEW r \in Runner, Exchange(r) PROVE HwInv'
  BY <1>11 DEF Exchange
<1>12. ASSUME NEW r \in Runner, SignalEvents(r) PROVE HwInv'
  BY <1>12 DEF SignalEvents
<1>13. ASSUME NEW r \in Runner, HwRead(r) PROVE HwInv'
  BY <1>13 DEF HwRead
<1>14. ASSUME NEW r \in Runner, HwClear(r) PROVE HwInv'
  BY <1>14 DEF HwClear
<1>15. ASSUME NEW r \in Runner, HwLatch(r) PROVE HwInv'
  BY <1>15 DEF HwLatch
<1>16. CASE ResetInterruptState
  BY <1>16 DEF ResetInterruptState
<1>17. CASE Masks /\ ~ResetInterruptState
  BY <1>17 DEF Masks, SetCommandEnable, ClearCommands, CommitCommandEnable, CommitMask,
     QueryStatus
<1>18. CASE Wake
  BY <1>18 DEF Wake
<1>19. ASSUME NEW c \in Client, Capture(c) PROVE HwInv'
  BY <1>19 DEF Capture, RegisterEvents, CaptureRefer, CaptureFails, CaptureClear,
     CaptureSwap, CaptureDeref
<1>20. CASE Disconnect
  BY <1>20 DEF Disconnect
<1>21. CASE Pnp /\ ~Disconnect
  BY <1>21 DEF Pnp, Start, Stop, DetachEvents, DerefReleased, UnmapBars
<1> QED
  BY <1>1, <1>2, <1>3, <1>4, <1>5, <1>6, <1>7, <1>8, <1>9, <1>10, <1>11, <1>12, <1>13,
     <1>14, <1>15, <1>16, <1>17, <1>18, <1>19, <1>20, <1>21
     DEF Next, Hardware, Isr, Dpc, Dispatch, Runner

\* A HWINT bit that the board raised is not lost between the register and the command
\* mask, for any number of processors and CFDC2400 threads, unless a reset, a stop or a
\* collision with the write of zero gave it up.
THEOREM HwBitIsTracked == Spec => []HwBitTracked
<1>1. HwInv => HwBitTracked
  BY DEF HwInv, HwBitHeld, HwBitTracked, HwOnItsWay, Announced
<1>2. Spec => []HwInv
  BY HwInit, HwStep, InitInv, StepInv, PTL DEF Spec, IInv
<1> QED
  BY <1>1, <1>2, PTL

-----------------------------------------------------------------------------
(* References on the event objects.                                          *)

\* Where an array of slots holds an event, and where the locals of all clients, or of
\* all but one, hold it.
At(f, e) == {s \in Slot : f[s] = e}
HeldAt(h, e) == {cs \in Client \X Slot : h[cs[1]][cs[2]] = e}
HeldByOthers(h, c, e) == {cs \in (Client \ {c}) \X Slot : h[cs[1]][cs[2]] = e}

LEMMA SlotFinite == IsFiniteSet(Slot) /\ Slot \subseteq 0..4
<1>1. Slot \subseteq 0..4
  BY GroupAssumption DEF Slot
<1>2. Slot \in SUBSET Nat /\ \A s \in Slot : s <= 4
  BY <1>1
<1> QED
  BY <1>1, <1>2, FS_BoundedSetOfNaturals

LEMMA AtFinite ==
  ASSUME NEW f, NEW e
  PROVE  IsFiniteSet(At(f, e)) /\ Cardinality(At(f, e)) \in Nat
<1>1. At(f, e) \in SUBSET Slot
  BY DEF At
<1>2. IsFiniteSet(At(f, e))
  BY <1>1, SlotFinite, FS_Subset
<1> QED
  BY <1>2, FS_CardinalityType

\* The references of one client are counted apart from those of the others.
LEMMA SplitClient ==
  ASSUME NEW h, NEW c \in Client, NEW e
  PROVE  /\ IsFiniteSet(HeldByOthers(h, c, e)) <=> IsFiniteSet(HeldAt(h, e))
         /\ IsFiniteSet(HeldAt(h, e)) =>
               /\ Cardinality(HeldByOthers(h, c, e)) \in Nat
               /\ Cardinality(HeldAt(h, e))
                     = Cardinality(HeldByOthers(h, c, e)) + Cardinality(At(h[c], e))
<1> DEFINE own == {c} \X At(h[c], e)
<1>1. HeldAt(h, e) = HeldByOthers(h, c, e) \cup own
  BY DEF HeldAt, HeldByOthers, At
<1>2. HeldByOthers(h, c, e) \cap own = {}
  BY DEF HeldByOthers
<1>3. HeldByOthers(h, c, e) \in SUBSET HeldAt(h, e)
  BY <1>1
<1>4. IsFiniteSet({c}) /\ Cardinality({c}) = 1
  BY FS_Singleton
<1>5. IsFiniteSet(own) /\ Cardinality(own) = 1 * Cardinality(At(h[c], e))
  BY <1>4, AtFinite, FS_Product
<1>6. Cardinality(own) = Cardinality(At(h[c], e))
  BY <1>5, AtFinite
<1> HIDE DEF own
<1>7. IsFiniteSet(HeldAt(h, e)) => IsFiniteSet(HeldByOthers(h, c, e))
  BY <1>3, FS_Subset
<1>8. ASSUME IsFiniteSet(HeldByOthers(h, c, e))
      PROVE  /\ IsFiniteSet(HeldAt(h, e))
             /\ Cardinality(HeldByOthers(h, c, e)) \in Nat
             /\ Cardinality(HeldAt(h, e))
                  = Cardinality(HeldByOthers(h, c, e)) + Cardinality(At(h[c], e))
  <2>1. Cardinality(HeldByOthers(h, c, e)) \in Nat
    BY <1>8, FS_CardinalityType
  <2>2. /\ IsFiniteSet(HeldAt(h, e))
        /\ Cardinality(HeldAt(h, e)) = Cardinality(HeldByOthers(h, c, e))
              + Cardinality(own) - Cardinality({})
    BY <1>1, <1>2, <1>5, <1>8, FS_Union
  <2> QED
    BY <2>1, <2>2, <1>6, AtFinite, FS_EmptySet
<1> QED
  BY <1>7, <1>8

\* A nonempty set of slots has a least and a greatest one.
LEMMA SlotExtremes ==
  ASSUME NEW S \in SUBSET Slot, S # {}
  PROVE  Min(S) \in S /\ Max(S) \in S
<1>1. S \subseteq 0..4
  BY SlotFinite
<1>2. \E x \in S : \A y \in S : x =< y
  <2>1. PICK z \in S : TRUE
    OBVIOUS
  <2>2. CASE 0 \in S
    BY <1>1, <2>2
  <2>3. CASE 0 \notin S /\ 1 \in S
    BY <1>1, <2>3
  <2>4. CASE 0 \notin S /\ 1 \notin S /\ 2 \in S
    BY <1>1, <2>4
  <2>5. CASE 0 \notin S /\ 1 \notin S /\ 2 \notin S /\ 3 \in S
    BY <1>1, <2>5
  <2>6. CASE 0 \notin S /\ 1 \notin S /\ 2 \notin S /\ 3 \notin S
    BY <1>1, <2>1, <2>6
  <2> QED
    BY <2>2, <2>3, <2>4, <2>5, <2>6
<1>3. \E x \in S : \A y \in S : x >= y
  <2>1. PICK z \in S : TRUE
    OBVIOUS
  <2>2. CASE 4 \in S
    BY <1>1, <2>2
  <2>3. CASE 4 \notin S /\ 3 \in S
    BY <1>1, <2>3
  <2>4. CASE 4 \notin S /\ 3 \notin S /\ 2 \in S
    BY <1>1, <2>4
  <2>5. CASE 4 \notin S /\ 3 \notin S /\ 2 \notin S /\ 1 \in S
    BY <1>1, <2>5
  <2>6. CASE 4 \notin S /\ 3 \notin S /\ 2 \notin S /\ 1 \notin S
    BY <1>1, <2>1, <2>6
  <2> QED
    BY <2>2, <2>3, <2>4, <2>5, <2>6
<1>4. Min(S) \in S
  BY <1>2 DEF Min
<1>5. Max(S) \in S
  BY <1>3 DEF Max
<1> QED
  BY <1>4, <1>5

RefTyping ==
    /\ {slot, released} \subseteq [Slot -> Event \cup {Null}]
    /\ hold \in [Client -> [Slot -> Event \cup {Null}]]
    /\ target \in [Client -> SUBSET Slot]
    /\ capture \in [Client -> {"idle", "refer", "clear", "swap", "deref"}]
    /\ refs \in [Event -> Int]
    /\ \A e \in Event : IsFiniteSet(HeldAt(hold, e))

\* Locals hold references only for the slots that a request in progress replaces, and
\* a request that refers handles has not come to its last one.
LocalsHold ==
    \A c \in Client :
        /\ \A s \in Slot : hold[c][s] # Null => s \in target[c] /\ capture[c] # "idle"
        /\ capture[c] = "refer" =>
              target[c] # {} /\ hold[c][Max(target[c])] = Null

\* A stop holds the references of the slots only until it drops them.
ReleasedWhileStopping == pnp # "deref" => released = NoEvents

Balanced(e) ==
    refs[e] = Cardinality(At(slot, e)) + Cardinality(At(released, e))
              + Cardinality(HeldAt(hold, e))

RefInv ==
    RefTyping /\ LocalsHold /\ ReleasedWhileStopping /\ \A e \in Event : Balanced(e)

LEMMA NoneAt == ASSUME NEW e \in Event PROVE At(NoEvents, e) = {}
BY NullAssumption DEF At, NoEvents

LEMMA RefInit == Init => RefInv
<1> SUFFICES ASSUME Init PROVE RefInv
  OBVIOUS
<1>1. ASSUME NEW e \in Event PROVE HeldAt(hold, e) = {}
  BY NullAssumption DEF Init, HeldAt, NoEvents
<1>2. IsFiniteSet({}) /\ Cardinality({}) = 0
  BY FS_EmptySet
<1>3. RefTyping
  <2>1. \A e \in Event : IsFiniteSet(HeldAt(hold, e))
    BY <1>1, <1>2
  <2> QED
    BY <2>1 DEF Init, RefTyping, NoEvents
<1>4. LocalsHold /\ ReleasedWhileStopping
  BY DEF Init, LocalsHold, ReleasedWhileStopping, NoEvents
<1>5. ASSUME NEW e \in Event PROVE Balanced(e)
  <2>1. slot = NoEvents /\ released = NoEvents /\ refs[e] = 0
    BY DEF Init
  <2>2. At(NoEvents, e) = {}
    BY NoneAt
  <2>3. Cardinality(HeldAt(hold, e)) = 0 /\ Cardinality(At(NoEvents, e)) = 0
    BY <1>1, <1>2, <2>2
  <2> QED
    BY <2>1, <2>3 DEF Balanced
<1> QED
  BY <1>3, <1>4, <1>5 DEF RefInv

\* What a step of one client has to show: the references of the others stay as they are.
LEMMA ClientStep ==
  ASSUME RefInv, NEW c \in Client, NEW e \in Event, NEW k \in [Slot -> Event \cup {Null}],
         hold' = [hold EXCEPT ![c] = k]
  PROVE  /\ hold'[c] = k
         /\ IsFiniteSet(HeldAt(hold', e))
         /\ Cardinality(HeldAt(hold, e)) \in Nat /\ Cardinality(HeldAt(hold', e)) \in Nat
         /\ Cardinality(HeldAt(hold', e)) - Cardinality(HeldAt(hold, e))
              = Cardinality(At(k, e)) - Cardinality(At(hold[c], e))
<1>1. hold'[c] = k
  BY DEF RefInv, RefTyping
<1>2. HeldByOthers(hold', c, e) = HeldByOthers(hold, c, e)
  BY DEF RefInv, RefTyping, HeldByOthers
<1>3. IsFiniteSet(HeldAt(hold, e))
  BY DEF RefInv, RefTyping
<1>4. /\ IsFiniteSet(HeldByOthers(hold, c, e))
      /\ Cardinality(HeldByOthers(hold, c, e)) \in Nat
      /\ Cardinality(HeldAt(hold, e))
           = Cardinality(HeldByOthers(hold, c, e)) + Cardinality(At(hold[c], e))
  BY <1>3, SplitClient
<1>5. /\ IsFiniteSet(HeldAt(hold', e))
      /\ Cardinality(HeldAt(hold', e))
           = Cardinality(HeldByOthers(hold', c, e)) + Cardinality(At(hold'[c], e))
  BY <1>2, <1>4, SplitClient
<1>6. Cardinality(At(k, e)) \in Nat /\ Cardinality(At(hold[c], e)) \in Nat
  BY AtFinite
<1> QED
  BY <1>1, <1>2, <1>3, <1>4, <1>5, <1>6

\* ObReferenceObjectByHandle on the next handle.
LEMMA ReferStep ==
  ASSUME RefInv, NEW c \in Client, NEW ev \in Event, CaptureRefer(c, ev)
  PROVE  RefInv'
<1> DEFINE s == NextToRefer(c)
           k == [hold[c] EXCEPT ![s] = ev]
<1>1. {x \in target[c] : hold[c][x] = Null} \in (SUBSET Slot) \ {{}}
  BY SlotExtremes DEF RefInv, RefTyping, LocalsHold, CaptureRefer
<1>2. s \in Slot /\ s \in target[c] /\ hold[c][s] = Null
  BY <1>1, SlotExtremes DEF NextToRefer, RefInv, RefTyping
<1>3. hold' = [hold EXCEPT ![c] = k]
  BY DEF CaptureRefer
<1>4. capture[c] = "refer" /\ target' = target
      /\ capture' = [capture EXCEPT ![c] = IF s = Max(target[c]) THEN "clear" ELSE @]
      /\ refs' = [refs EXCEPT ![ev] = @ + 1]
      /\ slot' = slot /\ released' = released /\ pnp' = pnp
  BY DEF CaptureRefer, pnpVars
<1>5. hold[c] \in [Slot -> Event \cup {Null}]
  BY DEF RefInv, RefTyping
<1> HIDE DEF s
<1>6. k \in [Slot -> Event \cup {Null}]
  BY <1>5
<1>7. At(k, ev) = At(hold[c], ev) \cup {s} /\ s \notin At(hold[c], ev)
  BY <1>2, <1>5, NullAssumption DEF At
<1>8. ASSUME NEW e \in Event, e # ev PROVE At(k, e) = At(hold[c], e)
  BY <1>2, <1>5, <1>8, NullAssumption DEF At
<1>9. Cardinality(At(k, ev)) = Cardinality(At(hold[c], ev)) + 1
  BY <1>7, AtFinite, FS_AddElement
<1>10. LocalsHold'
  BY <1>2, <1>3, <1>4 DEF RefInv, RefTyping, LocalsHold
<1> HIDE DEF k
<1>11. RefTyping'
  <2>1. \A e \in Event : IsFiniteSet(HeldAt(hold', e))
    BY <1>3, <1>6, ClientStep
  <2>2. refs' \in [Event -> Int]
    BY <1>4 DEF RefInv, RefTyping
  <2>3. capture' \in [Client -> {"idle", "refer", "clear", "swap", "deref"}]
    BY <1>4 DEF RefInv, RefTyping
  <2> QED
    BY <1>3, <1>4, <1>6, <2>1, <2>2, <2>3 DEF RefInv, RefTyping
<1>12. ASSUME NEW e \in Event PROVE Balanced(e)'
  <2>1. /\ Cardinality(HeldAt(hold, e)) \in Nat /\ Cardinality(HeldAt(hold', e)) \in Nat
        /\ Cardinality(HeldAt(hold', e)) - Cardinality(HeldAt(hold, e))
             = Cardinality(At(k, e)) - Cardinality(At(hold[c], e))
    BY <1>3, <1>6, ClientStep
  <2>2. Balanced(e) /\ refs \in [Event -> Int]
    BY DEF RefInv, RefTyping
  <2>3. /\ Cardinality(At(slot, e)) \in Nat /\ Cardinality(At(released, e)) \in Nat
        /\ Cardinality(At(hold[c], e)) \in Nat
    BY AtFinite
  <2>4. Cardinality(At(k, e)) = Cardinality(At(hold[c], e)) + (IF e = ev THEN 1 ELSE 0)
    BY <1>8, <1>9, <2>3
  <2> QED
    BY <1>4, <2>1, <2>2, <2>3, <2>4 DEF Balanced
<1> QED
  BY <1>4, <1>10, <1>11, <1>12 DEF RefInv, ReleasedWhileStopping

\* The exchange of slots and locals.
LEMMA SwapStep ==
  ASSUME RefInv, NEW c \in Client, CaptureSwap(c)
  PROVE  RefInv'
<1> DEFINE T == target[c]
           k == [s \in Slot |-> IF s \in T THEN slot[s] ELSE Null]
<1>1. /\ slot' = [s \in Slot |-> IF s \in T THEN hold[c][s] ELSE slot[s]]
      /\ hold' = [hold EXCEPT ![c] = k]
      /\ capture' = [capture EXCEPT ![c] = "deref"]
      /\ target' = target /\ refs' = refs /\ released' = released /\ pnp' = pnp
  BY DEF CaptureSwap, pnpVars
<1>2. /\ hold[c] \in [Slot -> Event \cup {Null}] /\ slot \in [Slot -> Event \cup {Null}]
      /\ T \subseteq Slot
  BY DEF RefInv, RefTyping
<1>3. k \in [Slot -> Event \cup {Null}]
  BY <1>2
<1>4. LocalsHold'
  BY <1>1, <1>2 DEF RefInv, RefTyping, LocalsHold
<1>5. slot' \in [Slot -> Event \cup {Null}]
  BY <1>1, <1>2
<1>6. ASSUME NEW e \in Event
      PROVE  Cardinality(At(slot', e)) + Cardinality(At(k, e))
               = Cardinality(At(slot, e)) + Cardinality(At(hold[c], e))
  <2>1. At(slot', e) = (At(slot, e) \ T) \cup At(hold[c], e)
    BY <1>1, <1>2, NullAssumption DEF At, RefInv, LocalsHold
  <2>2. (At(slot, e) \ T) \cap At(hold[c], e) = {}
    BY <1>2, NullAssumption DEF At, RefInv, LocalsHold
  <2>3. At(k, e) = At(slot, e) \cap T
    BY <1>2, NullAssumption DEF At
  <2>4. /\ IsFiniteSet(At(slot, e) \ T)
        /\ Cardinality(At(slot, e) \ T)
             = Cardinality(At(slot, e)) - Cardinality(At(slot, e) \cap T)
    BY AtFinite, FS_Difference
  <2>5. Cardinality(At(slot', e))
          = Cardinality(At(slot, e) \ T) + Cardinality(At(hold[c], e)) - Cardinality({})
    BY <2>1, <2>2, <2>4, AtFinite, FS_Union
  <2>6. /\ Cardinality(At(slot, e)) \in Nat /\ Cardinality(At(hold[c], e)) \in Nat
        /\ Cardinality(At(k, e)) \in Nat /\ Cardinality({}) = 0
    BY AtFinite, FS_EmptySet
  <2> HIDE DEF k, T
  <2> QED
    BY <2>3, <2>4, <2>5, <2>6
<1> HIDE DEF k, T
<1>7. RefTyping'
  <2>1. \A e \in Event : IsFiniteSet(HeldAt(hold', e))
    BY <1>1, <1>3, ClientStep
  <2> QED
    BY <1>1, <1>3, <1>5, <2>1 DEF RefInv, RefTyping
<1>8. ASSUME NEW e \in Event PROVE Balanced(e)'
  <2>1. /\ Cardinality(HeldAt(hold, e)) \in Nat /\ Cardinality(HeldAt(hold', e)) \in Nat
        /\ Cardinality(HeldAt(hold', e)) - Cardinality(HeldAt(hold, e))
             = Cardinality(At(k, e)) - Cardinality(At(hold[c], e))
    BY <1>1, <1>3, ClientStep
  <2>2. Balanced(e)
    BY DEF RefInv
  <2>3. /\ Cardinality(At(slot, e)) \in Nat /\ Cardinality(At(released, e)) \in Nat
        /\ Cardinality(At(hold[c], e)) \in Nat /\ Cardinality(At(k, e)) \in Nat
        /\ Cardinality(At(slot', e)) \in Nat
    BY AtFinite
  <2> QED
    BY <1>1, <1>6, <2>1, <2>2, <2>3 DEF Balanced
<1> QED
  BY <1>1, <1>4, <1>7, <1>8 DEF RefInv, ReleasedWhileStopping

\* ObDereferenceObject on the locals.
LEMMA DerefStep ==
  ASSUME RefInv, NEW c \in Client, CaptureDeref(c)
  PROVE  RefInv'
<1>1. /\ hold' = [hold EXCEPT ![c] = NoEvents]
      /\ refs' = [e \in Event |-> refs[e] - Cardinality(At(hold[c], e))]
      /\ capture' = [capture EXCEPT ![c] = "idle"]
      /\ target' = [target EXCEPT ![c] = {}]
      /\ slot' = slot /\ released' = released /\ pnp' = pnp
  BY DEF CaptureDeref, pnpVars, At
<1>2. NoEvents \in [Slot -> Event \cup {Null}]
  BY DEF NoEvents
<1>3. LocalsHold'
  BY <1>1 DEF RefInv, RefTyping, LocalsHold, NoEvents
<1>4. refs' \in [Event -> Int]
  BY <1>1, AtFinite DEF RefInv, RefTyping
<1>5. RefTyping'
  <2>1. \A e \in Event : IsFiniteSet(HeldAt(hold', e))
    BY <1>1, <1>2, ClientStep
  <2> QED
    BY <1>1, <1>2, <1>4, <2>1 DEF RefInv, RefTyping
<1>6. ASSUME NEW e \in Event PROVE Balanced(e)'
  <2>1. /\ Cardinality(HeldAt(hold, e)) \in Nat /\ Cardinality(HeldAt(hold', e)) \in Nat
        /\ Cardinality(HeldAt(hold', e)) - Cardinality(HeldAt(hold, e))
             = Cardinality(At(NoEvents, e)) - Cardinality(At(hold[c], e))
    BY <1>1, <1>2, ClientStep
  <2>2. Balanced(e) /\ refs \in [Event -> Int]
    BY DEF RefInv, RefTyping
  <2>3. /\ Cardinality(At(slot, e)) \in Nat /\ Cardinality(At(released, e)) \in Nat
        /\ Cardinality(At(hold[c], e)) \in Nat /\ Cardinality(At(NoEvents, e)) = 0
    BY AtFinite, NoneAt, FS_EmptySet
  <2> QED
    BY <1>1, <2>1, <2>2, <2>3 DEF Balanced
<1> QED
  BY <1>1, <1>3, <1>5, <1>6 DEF RefInv, ReleasedWhileStopping

LEMMA RefStep == RefInv /\ [Next]_vars => RefInv'
<1> SUFFICES ASSUME RefInv, [Next]_vars PROVE RefInv'
  OBVIOUS
<1>1. ASSUME UNCHANGED <<slot, released, hold, target, capture, refs>>,
             pnp' # "deref" => pnp # "deref"
      PROVE  RefInv'
  BY <1>1 DEF RefInv, RefTyping, LocalsHold, ReleasedWhileStopping, Balanced
<1>2. CASE UNCHANGED vars \/ Hardware \/ Isr \/ Wake \/ Masks
  BY <1>1, <1>2 DEF vars, captureVars, pnpVars, Hardware, RaiseSource, RaiseHw, Isr,
     IsrAccept, IsrClearSources, IsrPend, IsrAcknowledge, IsrQueue, Wake, Masks,
     SetCommandEnable, ClearCommands, CommitCommandEnable, CommitMask, QueryStatus,
     ResetInterruptState
<1>3. ASSUME NEW r \in Runner, DpcStart(r) \/ Dispatch(r) PROVE RefInv'
  BY <1>1, <1>3 DEF captureVars, pnpVars, DpcStart, Dispatch, Exchange, SignalEvents,
     HwRead, HwClear, HwLatch
<1>4. ASSUME NEW i \in Injector, NEW m \in SUBSET Source, Inject(i, m) PROVE RefInv'
  BY <1>1, <1>4 DEF captureVars, pnpVars, Inject
<1>5. ASSUME NEW c \in Client, Capture(c) PROVE RefInv'
  <2>1. ASSUME NEW slots \in SUBSET Slot, RegisterEvents(c, slots) PROVE RefInv'
    <3>1. RefTyping' /\ ReleasedWhileStopping' /\ \A e \in Event : Balanced(e)'
      BY <2>1 DEF RegisterEvents, pnpVars, RefInv, RefTyping, ReleasedWhileStopping,
         Balanced
    <3>2. Max(slots) \in slots
      BY <2>1, SlotExtremes DEF RegisterEvents
    <3>3. LocalsHold'
      BY <2>1, <3>2 DEF RegisterEvents, RefInv, RefTyping, LocalsHold
    <3> QED
      BY <3>1, <3>3 DEF RefInv
  <2>2. CASE CaptureFails(c) \/ CaptureClear(c)
    BY <2>2 DEF CaptureFails, CaptureClear, pnpVars, RefInv, RefTyping, LocalsHold,
       ReleasedWhileStopping, Balanced
  <2> QED
    BY <1>5, <2>1, <2>2, ReferStep, SwapStep, DerefStep DEF Capture
<1>6. CASE DetachEvents
  <2>1. /\ released' = slot /\ slot' = NoEvents /\ pnp' = "deref" /\ pnp = "detach"
        /\ UNCHANGED <<hold, target, capture, refs>>
    BY <1>6 DEF DetachEvents, captureVars
  <2>2. released = NoEvents /\ NoEvents \in [Slot -> Event \cup {Null}]
    BY <2>1 DEF RefInv, ReleasedWhileStopping, NoEvents
  <2>3. RefTyping' /\ LocalsHold' /\ ReleasedWhileStopping'
    BY <2>1, <2>2 DEF RefInv, RefTyping, LocalsHold, ReleasedWhileStopping
  <2>4. ASSUME NEW e \in Event PROVE Balanced(e)'
    <3>1. Balanced(e) /\ Cardinality(At(slot, e)) \in Nat
          /\ Cardinality(At(NoEvents, e)) \in Nat
      BY AtFinite DEF RefInv
    <3> QED
      BY <2>1, <2>2, <3>1 DEF Balanced
  <2> QED
    BY <2>3, <2>4 DEF RefInv
<1>7. CASE DerefReleased
  <2>1. /\ released' = NoEvents /\ pnp' = "unmap"
        /\ refs' = [e \in Event |-> refs[e] - Cardinality(At(released, e))]
        /\ UNCHANGED <<slot, hold, target, capture>>
    BY <1>7 DEF DerefReleased, captureVars, At
  <2>2. RefTyping' /\ LocalsHold' /\ ReleasedWhileStopping'
    BY <2>1, AtFinite DEF RefInv, RefTyping, LocalsHold, ReleasedWhileStopping, NoEvents
  <2>3. ASSUME NEW e \in Event PROVE Balanced(e)'
    <3>1. /\ Balanced(e) /\ Cardinality(At(slot, e)) \in Nat /\ refs \in [Event -> Int]
          /\ Cardinality(At(released, e)) \in Nat /\ Cardinality(At(NoEvents, e)) = 0
          /\ Cardinality(HeldAt(hold, e)) \in Nat
      BY AtFinite, NoneAt, FS_EmptySet, FS_CardinalityType DEF RefInv, RefTyping
    <3> QED
      BY <2>1, <3>1 DEF Balanced
  <2> QED
    BY <2>2, <2>3 DEF RefInv
<1>8. CASE Start \/ Stop \/ Disconnect \/ UnmapBars
  BY <1>1, <1>8 DEF Start, Stop, Disconnect, UnmapBars, captureVars
<1> QED
  BY <1>2, <1>3, <1>4, <1>5, <1>6, <1>7, <1>8 DEF Next, Dpc, Pnp, Runner

\* Every reference on an event object is accounted for by a slot, a request in progress
\* or a stop in progress, for any number of clients and events: none leaks, and none is
\* dropped twice, whatever requests, failures and stops interleave.
THEOREM ReferencesAreBalanced == Spec => []ReferencesBalanced
<1>1. RefInv => ReferencesBalanced
  BY DEF RefInv, Balanced, At, HeldAt, ReferencesBalanced
<1>2. Spec => []RefInv
  BY RefInit, RefStep, PTL DEF Spec
<1> QED
  BY <1>1, <1>2, PTL
=============================================================================
