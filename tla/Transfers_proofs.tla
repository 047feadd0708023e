-------------------------- MODULE Transfers_proofs --------------------------
(* Safety of the transfer registry for any number of threads, processes,    *)
(* records and processors.                                                  *)
EXTENDS Transfers, TLAPS

\* The thread in an acquisition is the holder of TransferMutex.
MutexHeld == \A t \in Thread : pc[t] \in AcquirePc <=> mutex = t

\* What a thread's local pointer refers to at each step.
ReqInv ==
    \A t \in Thread :
        /\ pc[t] \in {"idle", "closing"} \cup DirectPc <=> req[t] = Null
        /\ pc[t] \in AcquirePc => state[req[t]] = "listed"
        /\ pc[t] = "building" => state[req[t]] = "building"
        /\ pc[t] \in {"freeing", "closefree"} => state[req[t]] = "unlinked"
        /\ pc[t] \in RequestPc \cup ClosePc /\ req[t] # Null
             => owner[req[t]] = ProcessOf[t]

\* No two actors hold the same record.
ReqDistinct ==
    \A t, u \in Thread : t # u /\ req[t] # Null => req[t] # req[u]

VictimInv ==
    /\ pnp = "free" <=> victim # Null
    /\ victim # Null =>
          /\ state[victim] = "unlinked"
          /\ \A t \in Thread : req[t] # victim

\* CurrentTransfer is set between selection and deselection only.
CurrentInv ==
    current # Null =>
        /\ mutex \in Thread
        /\ pc[mutex] \in {"check", "commit", "unmask", "launch", "wait", "disable",
                         "mask", "deselect"}
        /\ req[mutex] = current

\* Start and stop order mapping, admission, connection and the mutex.
PnpInv ==
    /\ started <=> pnp \in {"connect", "running"}
    /\ mapped <=> pnp # "stopped"
    /\ pnp \in {"unmap", "stopped"} => mutex = Null
    /\ connected => pnp \in {"running", "disconnect"}
    /\ isr # "idle" => connected

\* Who runs the DPC routine holds a record exactly between loading and
\* signalling it; a thread runs it only within its CFDC2400.
DpcInv ==
    /\ \A c \in Runner : dpc[c] = "signal" <=> arg[c] # Null
    /\ \A t \in Thread : dpc[t] # "idle" => pc[t] = "inject"

\* Tokens of one process differ from the moment they are drawn.
TokenInv ==
    \A r, s \in Record :
        /\ state[r] \in {"listed", "building"} /\ state[s] \in {"listed", "building"}
        /\ r # s /\ owner[r] = owner[s]
        => token[r] # token[s]

\* A request needs an open handle; a registered transfer has an owner with one,
\* or one whose release loop is running.
HandleInv ==
    /\ \A t \in Thread : pc[t] \in RequestPc => handles[ProcessOf[t]] > 0
    /\ \A r \in Record : state[r] = "listed" => owner[r] \in Process
    /\ ClosedHoldsNothing

IInv == /\ TypeOK /\ MutexHeld /\ ReqInv /\ ReqDistinct /\ VictimInv
        /\ CurrentInv /\ PnpInv /\ DpcInv /\ TokenInv /\ HandleInv

-----------------------------------------------------------------------------
USE ProcessOfAssumption, NullAssumption, TokenMaxAssumption, HandleMaxAssumption,
    DirectMaxAssumption, RunnerAssumption

\* The initial state satisfies the inductive invariant.
LEMMA InitInv == Init => IInv
<1> SUFFICES ASSUME Init PROVE IInv
  OBVIOUS
<1>1. FlagsOK
  BY Zenon DEF Init, FlagsOK
<1>2. QED
  BY <1>1 DEF Init, IInv, TypeOK, MutexHeld, ReqInv, ReqDistinct, VictimInv,
      CurrentInv, PnpInv, DpcInv, TokenInv, HandleInv, ClosedHoldsNothing,
      Runner, AcquirePc, DirectPc, RequestPc, ClosePc, StatePc

\* The token drawn is a legal one, not zero.
LEMMA PickedTokenRange ==
    ASSUME nextToken \in 0..TokenMax, NEW k, NEW p, PickedToken(k, p)
    PROVE  k \in 1..TokenMax
BY DEF PickedToken, TokenAfter

\* Every step preserves it.
LEMMA StepInv == IInv /\ [Next]_vars => IInv'
<1> USE DEF IInv, TypeOK, MutexHeld, ReqInv, ReqDistinct, VictimInv,
            CurrentInv, PnpInv, DpcInv, TokenInv, HandleInv,
            ClosedHoldsNothing, Runner, AcquirePc, DirectPc, RequestPc, ClosePc, StatePc,
            reqVars, regVars, pnpVars, irqVars, dpcVars, dmaVars, maskVars, history,
            MayRequest,
            Go, PutBack, Releasable, FindTransferOwned
<1>1. ASSUME NEW t \in Thread, NEW r \in Record, NEW k \in 0..TokenMax,
             IInv, RegisterPickToken(t, r, k)
      PROVE  IInv'
  <2> USE <1>1 DEF RegisterPickToken
  <2>1. k \in 1..TokenMax
    BY PickedTokenRange
  <2>2. \A s \in Record :
          state[s] \in {"listed", "building"} /\ owner[s] = ProcessOf[t]
            => token[s] # k
    BY DEF PickedToken, NoWrapWhileBuilding
  <2>3. FlagsOK'
    BY Zenon DEF FlagsOK
  <2>4. TypeOK' /\ MutexHeld' /\ CurrentInv' /\ PnpInv' /\ DpcInv'
    BY <2>1, <2>3
  <2>5. ReqInv' /\ ReqDistinct' /\ VictimInv'
    OBVIOUS
  <2>6. TokenInv' /\ HandleInv'
    BY <2>2
  <2>7. QED
    BY <2>4, <2>5, <2>6
<1>2. ASSUME NEW t \in Thread, IInv, RegisterBuildFails(t) PROVE IInv'
  BY <1>2 DEF RegisterBuildFails, FlagsOK
<1>3. ASSUME NEW t \in Thread, IInv, RegisterInsert(t) PROVE IInv'
  BY <1>3 DEF RegisterInsert, FlagsOK
<1>4. ASSUME NEW t \in Thread, NEW k \in 1..TokenMax, IInv, UnregisterTransfer(t, k) PROVE IInv'
  BY <1>4 DEF UnregisterTransfer, FlagsOK
<1>5. ASSUME NEW t \in Thread, IInv, FreeTransfer(t) PROVE IInv'
  BY <1>5 DEF FreeTransfer, FlagsOK
<1>6. ASSUME NEW p \in Process, IInv, Create(p) PROVE IInv'
  BY <1>6 DEF Create, FlagsOK
<1>7. ASSUME NEW t \in Thread, IInv, Close(t) PROVE IInv'
  BY <1>7 DEF Close, FlagsOK
<1>8. ASSUME NEW t \in Thread, NEW r \in Record, IInv, CloseRelease(t, r) PROVE IInv'
  BY <1>8 DEF CloseRelease, FlagsOK
<1>9. ASSUME NEW t \in Thread, IInv, CloseDone(t) PROVE IInv'
  BY <1>9 DEF CloseDone, FlagsOK
<1>10. ASSUME NEW t \in Thread, NEW k \in 1..TokenMax, IInv, AcquireBegin(t, k) PROVE IInv'
  BY <1>10 DEF AcquireBegin, FlagsOK
<1>11. ASSUME NEW t \in Thread, IInv, ResetEvent(t) PROVE IInv'
  BY <1>11 DEF ResetEvent, FlagsOK
<1>12. ASSUME NEW t \in Thread, IInv, ClearPending(t) PROVE IInv'
  <2> USE <1>12 DEF ClearPending
  <2>1. FlagsOK'
    BY Zenon DEF FlagsOK
  <2>2. TypeOK'
    BY <2>1
  <2>3. QED
    BY <2>2 DEF FlagsOK
<1>13. ASSUME NEW t \in Thread, IInv, SelectTransfer(t) PROVE IInv'
  BY <1>13 DEF SelectTransfer, FlagsOK
<1>14. ASSUME NEW t \in Thread, IInv, EnableCheck(t) PROVE IInv'
  BY <1>14 DEF EnableCheck, FlagsOK
<1>15. ASSUME NEW t \in Thread, IInv, EnableCommit(t) PROVE IInv'
  BY <1>15 DEF EnableCommit, FlagsOK
<1>16. ASSUME NEW t \in Thread, IInv, Launch(t) PROVE IInv'
  <2> USE <1>16 DEF Launch
  <2>1. FlagsOK'
    BY Zenon DEF FlagsOK
  <2>2. TypeOK'
    BY <2>1
  <2>3. QED
    BY <2>2 DEF FlagsOK
<1>17. ASSUME NEW t \in Thread, IInv, WaitCompleted(t) PROVE IInv'
  BY <1>17 DEF WaitCompleted, FlagsOK
<1>18. ASSUME NEW t \in Thread, IInv, WaitTimedOut(t) PROVE IInv'
  BY <1>18 DEF WaitTimedOut, FlagsOK
<1>19. ASSUME NEW t \in Thread, IInv, Disable(t) PROVE IInv'
  <2> USE <1>19 DEF Disable
  <2>1. FlagsOK'
    BY Zenon DEF FlagsOK
  <2>2. TypeOK'
    BY <2>1
  <2>3. QED
    BY <2>2 DEF FlagsOK
<1>20. ASSUME NEW t \in Thread, IInv, Deselect(t) PROVE IInv'
  <2> USE <1>20 DEF Deselect
  <2>1. FlagsOK'
    BY Zenon DEF FlagsOK
  <2>2. TypeOK'
    BY <2>1
  <2>3. QED
    BY <2>2 DEF FlagsOK
<1>21. ASSUME NEW t \in Thread, IInv, AcquireEnd(t) PROVE IInv'
  <2> USE <1>21 DEF AcquireEnd
  <2>1. FlagsOK'
    BY Zenon DEF FlagsOK
  <2>2. TypeOK'
    BY <2>1
  <2>3. QED
    BY <2>2 DEF FlagsOK
<1>22. ASSUME IInv, DmaCompletes PROVE IInv'
  BY <1>22 DEF DmaCompletes, FlagsOK
<1>23. ASSUME IInv, IsrAccept PROVE IInv'
  BY <1>23 DEF IsrAccept, FlagsOK
<1>24. ASSUME IInv, IsrPend PROVE IInv'
  BY <1>24 DEF IsrPend, FlagsOK
<1>25. ASSUME IInv, IsrAcknowledge PROVE IInv'
  <2> USE <1>25 DEF IsrAcknowledge
  <2>1. FlagsOK'
    BY Zenon DEF FlagsOK
  <2>2. TypeOK'
    BY <2>1
  <2>3. QED
    BY <2>2 DEF FlagsOK
<1>26. ASSUME NEW c \in Cpu, IInv, DpcStart(c) PROVE IInv'
  <2> USE <1>26 DEF DpcStart
  <2>1. FlagsOK'
    BY Zenon DEF FlagsOK
  <2>2. TypeOK'
    BY <2>1
  <2>3. QED
    BY <2>2 DEF FlagsOK
<1>27. ASSUME NEW c \in Runner, IInv, DpcExchange(c) PROVE IInv'
  <2> USE <1>27 DEF DpcExchange
  <2>1. FlagsOK'
    BY Zenon DEF FlagsOK
  <2>2. TypeOK'
    BY <2>1
  <2>3. QED
    BY <2>2 DEF FlagsOK
<1>28. ASSUME NEW c \in Runner, IInv, DpcLoad(c) PROVE IInv'
  BY <1>28 DEF DpcLoad, FlagsOK
<1>29. ASSUME NEW c \in Runner, IInv, DpcSignal(c) PROVE IInv'
  <2> USE <1>29 DEF DpcSignal
  <2>1. FlagsOK'
    BY Zenon DEF FlagsOK
  <2>2. TypeOK'
    BY <2>1
  <2>3. QED
    BY <2>2 DEF FlagsOK
<1>30. ASSUME IInv, StartDevice PROVE IInv'
  BY <1>30 DEF StartDevice, FlagsOK
<1>31. ASSUME IInv, ConnectInterrupt PROVE IInv'
  BY <1>31 DEF ConnectInterrupt, FlagsOK
<1>32. ASSUME IInv, StopDevice PROVE IInv'
  <2> USE <1>32 DEF StopDevice
  <2>1. FlagsOK'
    BY Zenon DEF FlagsOK
  <2>2. TypeOK'
    BY <2>1
  <2>3. QED
    BY <2>2 DEF FlagsOK
<1>33. ASSUME IInv, DisconnectInterrupt PROVE IInv'
  <2> USE <1>33 DEF DisconnectInterrupt
  <2>1. FlagsOK'
    BY Zenon DEF FlagsOK
  <2>2. TypeOK'
    BY <2>1
  <2>3. QED
    BY <2>2 DEF FlagsOK
<1>34. ASSUME NEW r \in Record, IInv, ReleaseTransfer(r) PROVE IInv'
  BY <1>34 DEF ReleaseTransfer, FlagsOK
<1>35. ASSUME IInv, FreeReleased PROVE IInv'
  BY <1>35 DEF FreeReleased, FlagsOK
<1>36. ASSUME IInv, ReleaseDone PROVE IInv'
  BY <1>36 DEF ReleaseDone, FlagsOK
<1>37. ASSUME IInv, UnmapBars PROVE IInv'
  <2> USE <1>37 DEF UnmapBars
  <2>1. FlagsOK'
    BY Zenon DEF FlagsOK
  <2>2. TypeOK'
    BY <2>1
  <2>3. QED
    BY <2>2 DEF FlagsOK
<1>38. ASSUME IInv, UNCHANGED vars PROVE IInv'
  BY <1>38 DEF vars, FlagsOK
<1>39. ASSUME NEW t \in Thread, IInv, EnableWrite(t) PROVE IInv'
  <2> USE <1>39 DEF EnableWrite
  <2>1. FlagsOK'
    BY Zenon DEF FlagsOK
  <2>2. TypeOK'
    BY <2>1
  <2>3. QED
    BY <2>2 DEF FlagsOK
<1>40. ASSUME NEW t \in Thread, IInv, DisableWrite(t) PROVE IInv'
  <2> USE <1>40 DEF DisableWrite
  <2>1. FlagsOK'
    BY Zenon DEF FlagsOK
  <2>2. TypeOK'
    BY <2>1
  <2>3. QED
    BY <2>2 DEF FlagsOK
<1>41. ASSUME NEW t \in Thread, NEW bit \in BOOLEAN, IInv, InjectPending(t, bit) PROVE IInv'
  <2> USE <1>41 DEF InjectPending, BeginDirect
  <2>1. FlagsOK'
    BY Zenon DEF FlagsOK
  <2>2. TypeOK'
    BY <2>1
  <2>3. QED
    BY <2>2 DEF FlagsOK
<1>42. ASSUME NEW t \in Thread, IInv, InjectDone(t) PROVE IInv'
  <2> USE <1>42 DEF InjectDone
  <2>1. FlagsOK'
    BY Zenon DEF FlagsOK
  <2>2. TypeOK'
    BY <2>1
  <2>3. QED
    BY <2>2 DEF FlagsOK
<1>43. ASSUME NEW t \in Thread, IInv, ResolveRegister(t) PROVE IInv'
  <2> USE <1>43 DEF ResolveRegister, BeginDirect
  <2>1. FlagsOK'
    BY Zenon DEF FlagsOK
  <2>2. TypeOK'
    BY <2>1
  <2>3. QED
    BY <2>2 DEF FlagsOK
<1>44. ASSUME NEW t \in Thread, NEW bit \in BOOLEAN, IInv, CommitExchange(t, bit) PROVE IInv'
  <2> USE <1>44 DEF CommitExchange
  <2>1. FlagsOK'
    BY Zenon DEF FlagsOK
  <2>2. TypeOK'
    BY <2>1
  <2>3. QED
    BY <2>2 DEF FlagsOK
<1>45. ASSUME NEW t \in Thread, IInv, CommitWrite(t) PROVE IInv'
  <2> USE <1>45 DEF CommitWrite
  <2>1. FlagsOK'
    BY Zenon DEF FlagsOK
  <2>2. TypeOK'
    BY <2>1
  <2>3. QED
    BY <2>2 DEF FlagsOK
<1>46. ASSUME NEW t \in Thread, IInv, WriteRegister(t) PROVE IInv'
  <2> USE <1>46 DEF WriteRegister
  <2>1. FlagsOK'
    <3>1. inten' \in BOOLEAN /\ intst' \in BOOLEAN /\ forged' \in BOOLEAN
      BY Zenon DEF FlagsOK
    <3>2. crossed' \in BOOLEAN
      BY Zenon
    <3> QED
      BY <3>1, <3>2, Zenon DEF FlagsOK
  <2>2. TypeOK'
    BY <2>1
  <2>3. QED
    BY <2>2 DEF FlagsOK
<1> HIDE DEF IInv, TypeOK, MutexHeld, ReqInv, ReqDistinct, VictimInv, CurrentInv,
            PnpInv, DpcInv, TokenInv, HandleInv, ClosedHoldsNothing, Runner,
            AcquirePc, DirectPc, RequestPc, ClosePc, StatePc, reqVars, regVars,
            pnpVars, irqVars, dpcVars, dmaVars, maskVars, history, MayRequest,
            Go, PutBack, Releasable, FindTransferOwned
<1>47. QED
  BY <1>1, <1>2, <1>3, <1>4, <1>5, <1>6, <1>7, <1>8, <1>9, <1>10, <1>11, <1>12,
     <1>13, <1>14, <1>15, <1>16, <1>17, <1>18, <1>19, <1>20, <1>21, <1>22, <1>23,
     <1>24, <1>25, <1>26, <1>27, <1>28, <1>29, <1>30, <1>31, <1>32, <1>33, <1>34,
     <1>35, <1>36, <1>37, <1>38, <1>39, <1>40, <1>41, <1>42, <1>43, <1>44,
     <1>45, <1>46
  DEF Next, Register, Unregister, CloseHandle, Acquire, AcquireProgress, Direct,
      Isr, DpcRoutine, Start, Stop, Thread

-----------------------------------------------------------------------------
\* The strengthening is an invariant of the specification.
THEOREM Invariant == Spec => []IInv
BY InitInv, StepInv, PTL DEF Spec

\* Type correctness of every variable of the registry, its clients, the
\* interrupt path and PnP.
THEOREM TypeCorrect == Spec => []TypeOK
<1>1. IInv => TypeOK
  BY DEF IInv
<1>2. QED
  BY <1>1, Invariant, PTL

\* CurrentTransfer is only ever a registered transfer of the thread holding
\* TransferMutex (LecUnregisterTransfer and the release loops rely on it).
THEOREM CurrentIsPinned == Spec => []CurrentPinned
<1>1. IInv => CurrentPinned
  BY NullAssumption DEF IInv, TypeOK, CurrentInv, CurrentPinned, ReqInv, AcquirePc
<1>2. QED
  BY <1>1, Invariant, PTL

\* A token and its owner identify one registered transfer
\* (LecFindTransferOwned returns the only match), and no registered transfer
\* has the token zero.
THEOREM TokensAreUnique == Spec => []TokensUnique
<1>1. IInv => TokensUnique
  BY DEF IInv, TypeOK, TokenInv, TokensUnique
<1>2. QED
  BY <1>1, Invariant, PTL

\* A process without handles has nothing left registered once its last
\* IRP_MJ_CLOSE has completed.
THEOREM LastCloseReleasesAll == Spec => []ClosedHoldsNothing
<1>1. IInv => ClosedHoldsNothing
  BY DEF IInv, HandleInv
<1>2. QED
  BY <1>1, Invariant, PTL

\* No acquisition and no ISR dereferences a register pointer whose BAR has
\* been unmapped by STOP, SURPRISE_REMOVAL or REMOVE.
THEOREM AcquisitionMmioIsMapped == Spec => []MmioMapped
<1>1. IInv => MmioMapped
  BY NullAssumption DEF IInv, TypeOK, MutexHeld, PnpInv, MmioMapped
<1>2. QED
  BY <1>1, Invariant, PTL

-----------------------------------------------------------------------------
(* The way of a completion, until a first acquisition times out or a client  *)
(* forges one: the DMA engine, INTST and the ISR, the pending bit, whoever    *)
(* runs the DPC routine and the event are stations of one completion, which  *)
(* belongs to the acquisition that waits.  A dispatcher that has yet to      *)
(* exchange the pending bit, the queued DPC or a CFDC2400 with bit 0 clear,   *)
(* carries nothing; an INTST the ISR has already recorded neither.           *)

InService == isr = "accepted" \/ (isr = "idle" /\ intst)
Carries(c) == dpc[c] \in {"load", "signal"}
DpcRuns == \E c \in Runner : Carries(c)

\* At most one station is taken.
OneStation ==
    /\ engine # Null => ~InService
    /\ engine # Null \/ InService => ~pending
    /\ engine # Null \/ InService \/ pending => ~DpcRuns
    /\ \A b, c \in Runner : Carries(b) /\ Carries(c) => b = c
    /\ signaled # {} => engine = Null /\ ~InService /\ ~pending /\ ~DpcRuns

\* What is at a station is of the acquisition that waits, and done once it has left
\* the engine.
OfTheWaiter ==
    /\ engine # Null => mutex \in Thread /\ pc[mutex] = "wait" /\ engine = req[mutex]
    /\ InService \/ pending \/ DpcRuns \/ signaled # {} =>
          mutex \in Thread /\ pc[mutex] = "wait" /\ done
    /\ \A c \in Runner : arg[c] # Null => arg[c] = req[mutex]
    /\ \A r \in signaled : r = req[mutex]

DmaInv == CompletionGenuine /\ (~timedOut /\ ~forged => OneStation /\ OfTheWaiter)

LEMMA DmaInit == Init => DmaInv
BY DEF Init, DmaInv, CompletionGenuine, OneStation, OfTheWaiter, DpcRuns, Carries, InService,
       Runner

LEMMA DmaStep == IInv /\ DmaInv /\ [Next]_vars => DmaInv'
<1> USE DEF DmaInv, CompletionGenuine, OneStation, OfTheWaiter, DpcRuns, Carries,
            InService, Runner, IInv, TypeOK, FlagsOK, MutexHeld, ReqInv, ReqDistinct, CurrentInv, DpcInv,
            AcquirePc, DirectPc, RequestPc, ClosePc, reqVars, regVars, pnpVars, irqVars,
            dpcVars, dmaVars, maskVars, history, MayRequest, Go
<1>1. ASSUME NEW t \in Thread, IInv, DmaInv, RegisterBuildFails(t) PROVE DmaInv'
  BY <1>1 DEF RegisterBuildFails
<1>2. ASSUME NEW t \in Thread, IInv, DmaInv, RegisterInsert(t) PROVE DmaInv'
  BY <1>2 DEF RegisterInsert
<1>3. ASSUME NEW t \in Thread, IInv, DmaInv, FreeTransfer(t) PROVE DmaInv'
  BY <1>3 DEF FreeTransfer
<1>4. ASSUME NEW t \in Thread, IInv, DmaInv, Close(t) PROVE DmaInv'
  BY <1>4 DEF Close
<1>5. ASSUME NEW t \in Thread, IInv, DmaInv, CloseDone(t) PROVE DmaInv'
  BY <1>5 DEF CloseDone
<1>6. ASSUME NEW t \in Thread, NEW r \in Record, NEW k \in 0..TokenMax,
             IInv, DmaInv, RegisterPickToken(t, r, k) PROVE DmaInv'
  BY <1>6 DEF RegisterPickToken
<1>7. ASSUME NEW t \in Thread, NEW k \in 1..TokenMax, IInv, DmaInv, UnregisterTransfer(t, k) PROVE DmaInv'
  BY <1>7 DEF UnregisterTransfer
<1>8. ASSUME NEW t \in Thread, NEW r \in Record, IInv, DmaInv, CloseRelease(t, r) PROVE DmaInv'
  BY <1>8 DEF CloseRelease
<1>9. ASSUME NEW t \in Thread, NEW k \in 1..TokenMax, IInv, DmaInv, AcquireBegin(t, k) PROVE DmaInv'
  BY <1>9 DEF AcquireBegin
<1>10. ASSUME NEW t \in Thread, IInv, DmaInv, ResetEvent(t) PROVE DmaInv'
  BY <1>10 DEF ResetEvent
<1>11. ASSUME NEW t \in Thread, IInv, DmaInv, ClearPending(t) PROVE DmaInv'
  BY <1>11 DEF ClearPending
<1>12. ASSUME NEW t \in Thread, IInv, DmaInv, SelectTransfer(t) PROVE DmaInv'
  BY <1>12 DEF SelectTransfer
<1>13. ASSUME NEW t \in Thread, IInv, DmaInv, EnableCheck(t) PROVE DmaInv'
  BY <1>13 DEF EnableCheck
<1>14. ASSUME NEW t \in Thread, IInv, DmaInv, EnableCommit(t) PROVE DmaInv'
  BY <1>14 DEF EnableCommit
<1>15. ASSUME NEW t \in Thread, IInv, DmaInv, Launch(t) PROVE DmaInv'
  BY <1>15 DEF Launch
<1>16. ASSUME NEW t \in Thread, IInv, DmaInv, WaitCompleted(t) PROVE DmaInv'
  BY <1>16 DEF WaitCompleted
<1>17. ASSUME NEW t \in Thread, IInv, DmaInv, WaitTimedOut(t) PROVE DmaInv'
  BY <1>17 DEF WaitTimedOut
<1>18. ASSUME NEW t \in Thread, IInv, DmaInv, Disable(t) PROVE DmaInv'
  BY <1>18 DEF Disable
<1>19. ASSUME NEW t \in Thread, IInv, DmaInv, Deselect(t) PROVE DmaInv'
  BY <1>19 DEF Deselect
<1>20. ASSUME NEW t \in Thread, IInv, DmaInv, AcquireEnd(t) PROVE DmaInv'
  BY <1>20 DEF AcquireEnd
<1>21. ASSUME IInv, DmaInv, DmaCompletes PROVE DmaInv'
  BY <1>21 DEF DmaCompletes
<1>22. ASSUME IInv, DmaInv, IsrAccept PROVE DmaInv'
  BY <1>22 DEF IsrAccept
<1>23. ASSUME IInv, DmaInv, IsrPend PROVE DmaInv'
  BY <1>23 DEF IsrPend
<1>24. ASSUME IInv, DmaInv, IsrAcknowledge PROVE DmaInv'
  BY <1>24 DEF IsrAcknowledge
<1>25. ASSUME NEW c \in Cpu, IInv, DmaInv, DpcStart(c) PROVE DmaInv'
  BY <1>25 DEF DpcStart
<1>26. ASSUME NEW c \in Runner, IInv, DmaInv, DpcExchange(c) PROVE DmaInv'
  BY <1>26 DEF DpcExchange
<1>27. ASSUME NEW c \in Runner, IInv, DmaInv, DpcLoad(c) PROVE DmaInv'
  BY <1>27 DEF DpcLoad
<1>28. ASSUME NEW c \in Runner, IInv, DmaInv, DpcSignal(c) PROVE DmaInv'
  BY <1>28 DEF DpcSignal
<1>29. ASSUME NEW p \in Process, IInv, DmaInv, Create(p) PROVE DmaInv'
  BY <1>29 DEF Create
<1>30. ASSUME IInv, DmaInv, StartDevice PROVE DmaInv'
  BY <1>30 DEF StartDevice
<1>31. ASSUME IInv, DmaInv, ConnectInterrupt PROVE DmaInv'
  BY <1>31 DEF ConnectInterrupt
<1>32. ASSUME IInv, DmaInv, StopDevice PROVE DmaInv'
  BY <1>32 DEF StopDevice
<1>33. ASSUME IInv, DmaInv, DisconnectInterrupt PROVE DmaInv'
  BY <1>33 DEF DisconnectInterrupt
<1>34. ASSUME IInv, DmaInv, FreeReleased PROVE DmaInv'
  BY <1>34 DEF FreeReleased
<1>35. ASSUME IInv, DmaInv, ReleaseDone PROVE DmaInv'
  BY <1>35 DEF ReleaseDone
<1>36. ASSUME IInv, DmaInv, UnmapBars PROVE DmaInv'
  BY <1>36 DEF UnmapBars
<1>37. ASSUME NEW r \in Record, IInv, DmaInv, ReleaseTransfer(r) PROVE DmaInv'
  BY <1>37 DEF ReleaseTransfer
<1>38. ASSUME IInv, DmaInv, UNCHANGED vars PROVE DmaInv'
  BY <1>38 DEF vars
<1>39. ASSUME NEW t \in Thread, IInv, DmaInv, EnableWrite(t) PROVE DmaInv'
  BY <1>39 DEF EnableWrite
<1>40. ASSUME NEW t \in Thread, IInv, DmaInv, DisableWrite(t) PROVE DmaInv'
  BY <1>40 DEF DisableWrite
<1>41. ASSUME NEW t \in Thread, NEW bit \in BOOLEAN, IInv, DmaInv, InjectPending(t, bit) PROVE DmaInv'
  BY <1>41 DEF InjectPending, BeginDirect
<1>42. ASSUME NEW t \in Thread, IInv, DmaInv, InjectDone(t) PROVE DmaInv'
  BY <1>42 DEF InjectDone
<1>43. ASSUME NEW t \in Thread, IInv, DmaInv, ResolveRegister(t) PROVE DmaInv'
  BY <1>43 DEF ResolveRegister, BeginDirect
<1>44. ASSUME NEW t \in Thread, NEW bit \in BOOLEAN, IInv, DmaInv, CommitExchange(t, bit) PROVE DmaInv'
  BY <1>44 DEF CommitExchange
<1>45. ASSUME NEW t \in Thread, IInv, DmaInv, CommitWrite(t) PROVE DmaInv'
  BY <1>45 DEF CommitWrite
<1>46. ASSUME NEW t \in Thread, IInv, DmaInv, WriteRegister(t) PROVE DmaInv'
  BY <1>46 DEF WriteRegister
<1> HIDE DEF DmaInv, CompletionGenuine, OneStation, OfTheWaiter, DpcRuns, Carries,
            InService, Runner, IInv, TypeOK, FlagsOK, MutexHeld, ReqInv, ReqDistinct,
            CurrentInv, DpcInv, AcquirePc, DirectPc, RequestPc, ClosePc, reqVars,
            regVars, pnpVars, irqVars, dpcVars, dmaVars, maskVars, history,
            MayRequest, Go
<1> QED
  BY <1>1, <1>2, <1>3, <1>4, <1>5, <1>6, <1>7, <1>8, <1>9, <1>10, <1>11, <1>12,
     <1>13, <1>14, <1>15, <1>16, <1>17, <1>18, <1>19, <1>20, <1>21, <1>22, <1>23,
     <1>24, <1>25, <1>26, <1>27, <1>28, <1>29, <1>30, <1>31, <1>32, <1>33, <1>34,
     <1>35, <1>36, <1>37, <1>38, <1>39, <1>40, <1>41, <1>42, <1>43, <1>44,
     <1>45, <1>46
  DEF Next, Register, Unregister, CloseHandle, Acquire, AcquireProgress, Direct,
      Isr, DpcRoutine, Start, Stop, Thread

THEOREM DmaInvariant == Spec => [](IInv /\ DmaInv)
BY InitInv, StepInv, DmaInit, DmaStep, PTL DEF Spec

\* Until a first acquisition times out or a client forges a completion or a launch,
\* nobody running the DPC routine signals and no DMA runs on a transfer that was
\* unregistered or released meanwhile.
THEOREM NothingDangles == Spec => []NoDanglingUse
<1>1. IInv /\ DmaInv => NoDanglingUse
  BY DEF IInv, TypeOK, DmaInv, OneStation, OfTheWaiter, DpcRuns, Carries, InService,
         DpcInv, NoDanglingUse, ReqInv, AcquirePc
<1> QED
  BY <1>1, DmaInvariant, PTL

\* Until then CFDC2138 returns success only after its own DMA has finished, although
\* clients run the DPC routine and rewrite INTEN, INTST and IIMCL under it.
THEOREM SuccessIsGenuine == Spec => []CompletionGenuine
<1>1. DmaInv => CompletionGenuine
  BY DEF DmaInv
<1> QED
  BY <1>1, DmaInvariant, PTL
=============================================================================
