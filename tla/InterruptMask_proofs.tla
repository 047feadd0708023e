------------------------ MODULE InterruptMask_proofs ------------------------
(* Proofs about InterruptMask: for any set of threads and of error bits the  *)
(* four-step updates are serialised unless they overlap, and the error latch *)
(* loses nothing.                                                            *)
EXTENDS InterruptMask, TLAPS

-----------------------------------------------------------------------------
(* Types.                                                                   *)

\* Only the bit of a transfer, 0x01, keeps a request in "launched", and only
\* requests without the mutex change ERRM.
PcFits ==
    \A t \in Thread :
        /\ pc[t] = "launched" => "dma" \in MaskBit
        /\ pc[t] \in ErrmPc => t \notin Locked

Typing == TypeOK /\ PcFits

LEMMA TypeInit == Init => Typing
<1> SUFFICES ASSUME Init PROVE Typing
  OBVIOUS
<1>1. /\ NoChange \in Change
      /\ {} \in SUBSET MaskBit /\ {} \in SUBSET ErrBit
  BY DEF NoChange, Change
<1>2. /\ change \in [Thread -> Change]
      /\ new \in [Thread -> SUBSET MaskBit]
      /\ errmNew \in [Thread -> SUBSET ErrBit]
      /\ pc \in [Thread -> MaskPc \cup ErrmPc \cup {"idle", "launched"}]
  BY <1>1 DEF Init
<1>3. \A t \in Locked : pc[t] # "idle" <=> mutex = t
  BY ThreadAssumption DEF Init, Thread
<1> QED
  BY <1>1, <1>2, <1>3 DEF Init, TypeOK, PcFits, ErrmPc, Typing

\* Applying a change to a mask gives a mask.
LEMMA AppliedType ==
  ASSUME NEW c \in Change, NEW m \in SUBSET MaskBit
  PROVE  Applied(c, m) \in SUBSET MaskBit
BY DEF Applied, Change

\* The end of a request keeps what TypeOK says of the threads.
LEMMA DoneType ==
  ASSUME TypeOK, NEW t \in Thread, pc[t] # "idle",
         NEW launched \in BOOLEAN, launched => t \in Locked, Done(t, launched)
  PROVE  /\ pc' \in [Thread -> MaskPc \cup ErrmPc \cup {"idle", "launched"}]
         /\ mutex' \in Locked \cup {Null}
         /\ change' \in [Thread -> Change]
         /\ \A u \in Locked : pc'[u] # "idle" <=> mutex' = u
BY ThreadAssumption DEF TypeOK, Done, Thread, Change, NoChange

LEMMA TypeStep == Typing /\ [Next]_vars => TypeOK'
<1> SUFFICES ASSUME TypeOK, PcFits, [Next]_vars PROVE TypeOK'
  BY DEF Typing
<1>1. CASE UNCHANGED vars
  BY <1>1 DEF TypeOK, vars, threadVars, maskVars, errmVars, errorVars, isrVars,
     pnpVars, raceVars
<1>2. ASSUME NEW t \in Thread, LockedRequest(t) PROVE TypeOK'
  <2>1. ASSUME NEW c \in Change, LockedBegin(t, c) PROVE TypeOK'
    BY <2>1, ThreadAssumption DEF TypeOK, LockedBegin, Thread, MaskPc, maskVars,
       errmVars, errorVars, isrVars, pnpVars
  <2>2. CASE TransferEnds(t)
    <3>1. Off("dma") \in Change
      BY <2>2 DEF PcFits, TransferEnds, Off, Change
    <3> QED
      BY <2>2, <3>1 DEF TypeOK, TransferEnds, Thread, MaskPc, maskVars, errmVars,
         errorVars, isrVars, pnpVars
  <2> QED
    BY <1>2, <2>1, <2>2 DEF LockedRequest
<1>3. ASSUME NEW t \in Thread, UnlockedRequest(t) PROVE TypeOK'
  <2>1. ASSUME NEW e \in SUBSET ErrBit, ErrorMaskBegin(t, e) PROVE TypeOK'
    <3>1. On("err") \in Change /\ Off("err") \in Change
      BY <2>1 DEF ErrorMaskBegin, On, Off, Change
    <3>2. t \notin Locked
      BY <2>1, ThreadAssumption DEF ErrorMaskBegin
    <3> QED
      BY <2>1, <3>1, <3>2 DEF TypeOK, ErrorMaskBegin, Thread, ErrmPc, maskVars,
         errmVars, errorVars, isrVars, pnpVars
  <2>2. ASSUME NEW e \in SUBSET ErrBit, SetErrmBegin(t, e) PROVE TypeOK'
    <3>1. t \notin Locked
      BY <2>2, ThreadAssumption DEF SetErrmBegin
    <3> QED
      BY <2>2, <3>1 DEF TypeOK, SetErrmBegin, Thread, ErrmPc, maskVars, errmVars,
         errorVars, isrVars, pnpVars
  <2>3. ASSUME NEW m \in SUBSET MaskBit, SetMaskBegin(t, m) PROVE TypeOK'
    <3>1. [set |-> m, clear |-> MaskBit \ m] \in Change
      BY DEF Change
    <3>2. t \notin Locked
      BY <2>3, ThreadAssumption DEF SetMaskBegin
    <3> QED
      BY <2>3, <3>1, <3>2 DEF TypeOK, SetMaskBegin, Thread, MaskPc, maskVars,
         errmVars, errorVars, isrVars, pnpVars
  <2>4. CASE ErrmExchange(t)
    BY <2>4 DEF TypeOK, ErrmExchange, Thread, ErrmPc, maskVars, errorVars, isrVars,
       pnpVars, raceVars
  <2>5. CASE ErrmWrite(t)
    <3>1. overlap' \in BOOLEAN
      BY <2>5, Zenon DEF ErrmWrite
    <3>2. pc' = [pc EXCEPT ![t] = IF change[t] = NoChange THEN "idle" ELSE "read"]
      BY <2>5 DEF ErrmWrite
    <3>3. pc' \in [Thread -> MaskPc \cup ErrmPc \cup {"idle", "launched"}]
      BY <3>2 DEF TypeOK, MaskPc
    <3>4. \A u \in Locked : pc'[u] # "idle" <=> mutex' = u
      BY <2>5, <3>2 DEF TypeOK, PcFits, ErrmWrite, ErrmPc, Thread
    <3> QED
      BY <2>5, <3>1, <3>3, <3>4 DEF TypeOK, ErrmWrite, maskVars, errorVars,
         isrVars, pnpVars
  <2> QED
    BY <1>3, <2>1, <2>2, <2>3, <2>4, <2>5 DEF UnlockedRequest
<1>4. ASSUME NEW t \in Thread, MaskUpdate(t) PROVE TypeOK'
  <2>1. CASE ReadShadow(t)
    <3> DEFINE skip == change[t] = On("rx") /\ "rx" \in shadow
    <3>1. new' \in [Thread -> SUBSET MaskBit]
      BY <2>1, AppliedType DEF TypeOK, ReadShadow
    <3>2. CASE skip
      <4>1. Done(t, FALSE) /\ pc[t] # "idle"
        BY <2>1, <3>2 DEF ReadShadow
      <4>2. UNCHANGED <<errmNew, maskVars, errmVars, errorVars, isrVars, pnpVars,
                        raceVars>>
        BY <2>1 DEF ReadShadow
      <4> HIDE DEF skip
      <4> QED
        BY <3>1, <4>1, <4>2, DoneType DEF TypeOK, maskVars, errmVars, errorVars,
           isrVars, pnpVars, raceVars
    <3>3. CASE ~skip
      <4>1. /\ pc[t] = "read"
            /\ pc' = [pc EXCEPT ![t] = "check"] /\ UNCHANGED <<mutex, change>>
        BY <2>1, <3>3 DEF ReadShadow
      <4>2. UNCHANGED <<errmNew, maskVars, errmVars, errorVars, isrVars, pnpVars,
                        raceVars>>
        BY <2>1 DEF ReadShadow
      <4> HIDE DEF skip
      <4> QED
        BY <3>1, <4>1, <4>2 DEF TypeOK, MaskPc, maskVars, errmVars, errorVars,
           isrVars, pnpVars, raceVars
    <3> QED
      BY <3>2, <3>3
  <2>2. CASE CheckStarted(t)
    <3>1. CASE started
      <4>1. /\ pc[t] = "check"
            /\ pc' = [pc EXCEPT ![t] = "exchange"] /\ UNCHANGED <<mutex, change>>
            /\ UNCHANGED <<new, errmNew, maskVars, errmVars, errorVars, isrVars,
                           pnpVars, raceVars>>
        BY <2>2, <3>1 DEF CheckStarted
      <4> QED
        BY <4>1 DEF TypeOK, MaskPc, maskVars, errmVars, errorVars, isrVars, pnpVars,
           raceVars
    <3>2. CASE ~started
      <4>1. Done(t, FALSE) /\ pc[t] # "idle"
        BY <2>2, <3>2 DEF CheckStarted
      <4> QED
        BY <2>2, <4>1, DoneType DEF TypeOK, CheckStarted, maskVars, errmVars,
           errorVars, isrVars, pnpVars, raceVars
    <3> QED
      BY <3>1, <3>2
  <2>3. CASE ExchangeShadow(t)
    BY <2>3, AppliedType DEF TypeOK, ExchangeShadow, MaskPc, errmVars, errorVars,
       isrVars, pnpVars, raceVars
  <2>4. CASE WriteInten(t)
    BY <2>4, DoneType DEF TypeOK, WriteInten, errmVars, errorVars, isrVars, pnpVars,
       raceVars
  <2> QED
    BY <1>4, <2>1, <2>2, <2>3, <2>4 DEF MaskUpdate
<1>5. CASE WriteRaw \/ (\E b \in ErrBit : RaiseError(b)) \/ ReadErrorStatus
           \/ ResetInterruptState
  BY <1>5 DEF TypeOK, WriteRaw, RaiseError, ReadErrorStatus, ResetInterruptState,
     threadVars, maskVars, errmVars, errorVars, isrVars, pnpVars, raceVars
<1>6. CASE Isr
  BY <1>6 DEF TypeOK, Isr, IsrAccept, IsrReadErrs, IsrAckErrs, IsrAckIntst, IsrRecheck,
     IsrWiden, IsrWriteErrm, threadVars, maskVars, errmVars, errorVars, isrVars,
     pnpVars, raceVars
<1>7. CASE StopDevice \/ DisconnectInterrupt \/ StartDevice
  BY <1>7 DEF TypeOK, StopDevice, DisconnectInterrupt, StartDevice, threadVars,
     maskVars, errmVars, errorVars, isrVars, pnpVars, raceVars
<1> QED
  BY <1>1, <1>2, <1>3, <1>4, <1>5, <1>6, <1>7 DEF Next

LEMMA PcFitsStep == Typing /\ [Next]_vars => PcFits'
<1> SUFFICES ASSUME TypeOK, PcFits, [Next]_vars PROVE PcFits'
  BY DEF Typing
<1> USE DEF PcFits
<1>1. ASSUME NEW t \in Thread, WriteInten(t) PROVE PcFits'
  <2>1. change[t] = On("dma") => "dma" \in MaskBit
    BY DEF TypeOK, On, Change
  <2> QED
    BY <1>1, <2>1 DEF TypeOK, WriteInten, Done, ErrmPc
<1>2. ASSUME NEW t \in Thread,
             ReadShadow(t) \/ CheckStarted(t) \/ ExchangeShadow(t)
      PROVE  PcFits'
  BY <1>2 DEF TypeOK, ReadShadow, CheckStarted, ExchangeShadow, Done,
     ErrmPc
<1>3. ASSUME NEW t \in Thread, LockedRequest(t) \/ UnlockedRequest(t)
      PROVE  PcFits'
  BY <1>3, ThreadAssumption DEF TypeOK, LockedRequest, UnlockedRequest, LockedBegin,
     TransferEnds, ErrorMaskBegin, SetErrmBegin, SetMaskBegin, ErrmExchange, ErrmWrite, ErrmPc
<1>4. CASE \/ UNCHANGED vars \/ WriteRaw \/ Isr
           \/ \E b \in ErrBit : RaiseError(b)
           \/ ReadErrorStatus \/ ResetInterruptState
           \/ StopDevice \/ DisconnectInterrupt \/ StartDevice
  BY <1>4 DEF vars, threadVars, WriteRaw, Isr, IsrAccept, IsrReadErrs, IsrAckErrs,
     IsrAckIntst, IsrRecheck, IsrWiden, IsrWriteErrm, RaiseError, ReadErrorStatus,
     ResetInterruptState, StopDevice, DisconnectInterrupt, StartDevice
<1> QED
  BY <1>1, <1>2, <1>3, <1>4 DEF Next, MaskUpdate

\* The variables keep their types, and a thread of Locked is in a request
\* exactly while it holds TransferMutex.
THEOREM TypeCorrect == Spec => []TypeOK
<1>1. Init => Typing
  BY TypeInit
<1>2. Typing /\ [Next]_vars => Typing'
  BY TypeStep, PcFitsStep DEF Typing
<1>3. Typing => TypeOK
  BY DEF Typing
<1> QED
  BY <1>1, <1>2, <1>3, PTL DEF Spec

-----------------------------------------------------------------------------
(* The error latch.                                                         *)

\* ErrorsKept is not inductive: between its read of ERRS and the acknowledgement
\* the ISR must have latched, or had reported, all it is about to clear.
ErrorsInv ==
    /\ ErrorsKept
    /\ isr = "ackErrs" => raised \cap errorState \subseteq latch

LEMMA ErrorsStep == ErrorsInv /\ [Next]_vars => ErrorsInv'
<1> SUFFICES ASSUME ErrorsInv, [Next]_vars PROVE ErrorsInv'
  OBVIOUS
<1> USE DEF ErrorsInv, ErrorsKept
<1>1. CASE UNCHANGED vars
  BY <1>1 DEF vars, errorVars, isrVars
<1>2. CASE Isr
  <2>1. CASE IsrAccept \/ IsrReadErrs \/ IsrAckErrs \/ IsrAckIntst
    BY <2>1 DEF IsrAccept, IsrReadErrs, IsrAckErrs, IsrAckIntst, errorVars
  <2>2. CASE IsrRecheck \/ IsrWiden \/ IsrWriteErrm
    BY <2>2 DEF IsrRecheck, IsrWiden, IsrWriteErrm, errorVars
  <2> QED
    BY <1>2, <2>1, <2>2 DEF Isr
<1>3. ASSUME NEW b \in ErrBit, RaiseError(b) PROVE ErrorsInv'
  BY <1>3 DEF RaiseError, Unacknowledged, isrVars
<1>4. CASE ReadErrorStatus
  BY <1>4 DEF ReadErrorStatus, Unacknowledged, isrVars
<1>5. CASE ResetInterruptState
  BY <1>5 DEF ResetInterruptState, isrVars
<1>6. CASE WriteRaw \/ StopDevice \/ DisconnectInterrupt \/ StartDevice
  BY <1>6 DEF WriteRaw, StopDevice, DisconnectInterrupt, StartDevice, errorVars,
     isrVars
<1>7. ASSUME NEW t \in Thread, LockedRequest(t) \/ UnlockedRequest(t) \/ MaskUpdate(t)
      PROVE  ErrorsInv'
  <2>1. UNCHANGED <<errorVars, isrVars>>
    BY <1>7 DEF LockedRequest, UnlockedRequest, MaskUpdate, LockedBegin, TransferEnds,
       ErrorMaskBegin, SetErrmBegin, SetMaskBegin, ErrmExchange, ErrmWrite, ReadShadow,
       CheckStarted, ExchangeShadow, WriteInten
  <2> QED
    BY <2>1 DEF errorVars, isrVars
<1> QED
  BY <1>1, <1>2, <1>3, <1>4, <1>5, <1>6, <1>7 DEF Next

\* No error is lost between ERRS and the latch, however many error bits there
\* are and whenever they come up.
THEOREM ErrorsAreKept == Spec => []ErrorsKept
<1>1. Init => ErrorsInv
  BY DEF Init, ErrorsInv, ErrorsKept
<1>2. ErrorsInv => ErrorsKept
  BY DEF ErrorsInv
<1> QED
  BY <1>1, <1>2, ErrorsStep, PTL DEF Spec

-----------------------------------------------------------------------------
(* Serialisation of the mask updates.                                       *)

\* What has overlapped or been bypassed stays so.
LEMMA RacesStay == [Next]_vars => (overlap => overlap') /\ (bypassed => bypassed')
<1> SUFFICES ASSUME [Next]_vars PROVE (overlap => overlap') /\ (bypassed => bypassed')
  OBVIOUS
<1>1. ASSUME NEW t \in Thread, LockedRequest(t) \/ UnlockedRequest(t)
      PROVE  (overlap => overlap') /\ (bypassed => bypassed')
  <2>1. bypassed' = bypassed
    BY <1>1 DEF LockedRequest, UnlockedRequest, LockedBegin, TransferEnds,
       ErrorMaskBegin, SetErrmBegin, SetMaskBegin, ErrmExchange, ErrmWrite, raceVars
  <2>2. overlap => overlap'
    <3>1. CASE ErrmExchange(t)
      BY <3>1 DEF ErrmExchange, raceVars
    <3>2. CASE ~ErrmExchange(t)
      BY <1>1, <3>2, Zenon DEF LockedRequest, UnlockedRequest, LockedBegin,
         TransferEnds, ErrorMaskBegin, SetErrmBegin, SetMaskBegin, ErrmWrite
    <3> QED
      BY <3>1, <3>2
  <2> QED
    BY <2>1, <2>2
<1>2. CASE DisconnectInterrupt \/ IsrRecheck
  <2>1. bypassed' = TRUE \/ bypassed' = bypassed
    BY <1>2 DEF DisconnectInterrupt, IsrRecheck
  <2>2. overlap => overlap'
    BY <1>2, Zenon DEF DisconnectInterrupt, IsrRecheck
  <2> QED
    BY <2>1, <2>2
<1>3. CASE WriteRaw
  BY <1>3 DEF WriteRaw
<1>4. CASE \/ UNCHANGED vars \/ \E t \in Thread : MaskUpdate(t)
           \/ IsrAccept \/ IsrReadErrs \/ IsrAckErrs \/ IsrAckIntst \/ IsrWiden
           \/ IsrWriteErrm \/ \E b \in ErrBit : RaiseError(b)
           \/ ReadErrorStatus \/ ResetInterruptState \/ StopDevice \/ StartDevice
  <2>1. UNCHANGED raceVars
    BY <1>4 DEF vars, MaskUpdate, ReadShadow, CheckStarted, ExchangeShadow, WriteInten,
       IsrAccept, IsrReadErrs, IsrAckErrs, IsrAckIntst, IsrWiden, IsrWriteErrm,
       RaiseError, ReadErrorStatus, ResetInterruptState, StopDevice, StartDevice
  <2> QED
    BY <2>1 DEF raceVars
<1> QED
  BY <1>1, <1>2, <1>3, <1>4 DEF Next, Isr

\* While no two updates have overlapped, at most one is under way, and the mask
\* it has computed is its change of the present shadow.
SerialInv ==
    ~overlap =>
        /\ shadow = want
        /\ \A t, u \in Thread : pc[t] \in MaskPc /\ pc[u] \in MaskPc => t = u
        /\ \A t \in Thread :
              pc[t] \in {"check", "exchange"} => new[t] = Applied(change[t], shadow)

LEMMA SerialStep == TypeOK /\ SerialInv /\ [Next]_vars => SerialInv'
<1> SUFFICES ASSUME TypeOK, SerialInv, [Next]_vars, ~overlap' PROVE SerialInv'
  BY DEF SerialInv
<1> USE DEF SerialInv
<1>t. /\ DOMAIN pc = Thread /\ DOMAIN new = Thread /\ DOMAIN change = Thread
      /\ pc = [t \in Thread |-> pc[t]] /\ new = [t \in Thread |-> new[t]]
      /\ change = [t \in Thread |-> change[t]]
  BY DEF TypeOK
<1>1. ASSUME NEW t \in Thread,
             \/ \E c \in Change : LockedBegin(t, c)
             \/ TransferEnds(t)
             \/ \E m \in SUBSET MaskBit : SetMaskBegin(t, m)
      PROVE  SerialInv'
  <2>1. ~overlap /\ ~MaskBusy(t)
    BY <1>1, Zenon DEF LockedBegin, TransferEnds, SetMaskBegin
  <2>2. \A u \in Thread \ {t} : pc[u] \notin MaskPc
    BY <2>1 DEF MaskBusy
  <2>3. /\ pc' = [pc EXCEPT ![t] = "read"]
        /\ UNCHANGED <<new, shadow, want>>
        /\ \A u \in Thread \ {t} : change'[u] = change[u]
    BY <1>1, <1>t DEF LockedBegin, TransferEnds, SetMaskBegin, maskVars
  <2> QED
    BY <1>t, <2>1, <2>2, <2>3 DEF MaskPc
<1>2. ASSUME NEW t \in Thread, MaskUpdate(t) PROVE SerialInv'
  <2>0. ~overlap
    BY RacesStay
  <2>1. CASE ReadShadow(t)
    BY <1>t, <2>0, <2>1 DEF ReadShadow, Done, MaskPc, maskVars
  <2>2. CASE CheckStarted(t)
    BY <1>t, <2>0, <2>2 DEF CheckStarted, Done, MaskPc, maskVars
  <2>3. CASE ExchangeShadow(t)
    BY <1>t, <2>0, <2>3 DEF ExchangeShadow, MaskPc
  <2>4. CASE WriteInten(t)
    BY <1>t, <2>0, <2>4 DEF WriteInten, Done, MaskPc
  <2> QED
    BY <1>2, <2>1, <2>2, <2>3, <2>4 DEF MaskUpdate
<1>3. ASSUME NEW t \in Thread,
             \/ \E e \in SUBSET ErrBit : ErrorMaskBegin(t, e) \/ SetErrmBegin(t, e)
             \/ ErrmExchange(t)
      PROVE  SerialInv'
  <2>1. ~overlap
    BY RacesStay
  <2>2. /\ pc[t] \notin {"check", "exchange"} /\ pc'[t] \notin MaskPc
        /\ \A u \in Thread \ {t} : pc'[u] = pc[u] /\ change'[u] = change[u]
        /\ UNCHANGED <<new, shadow, want>>
    BY <1>t, <1>3 DEF ErrorMaskBegin, SetErrmBegin, ErrmExchange, MaskPc, maskVars
  <2> QED
    BY <2>1, <2>2 DEF MaskPc
<1>4. ASSUME NEW t \in Thread, ErrmWrite(t) PROVE SerialInv'
  <2>1. ~overlap /\ (change[t] # NoChange => ~MaskBusy(t))
    BY <1>4, Zenon DEF ErrmWrite
  <2>2. /\ pc' = [pc EXCEPT ![t] = IF change[t] = NoChange THEN "idle" ELSE "read"]
        /\ pc[t] = "errmWrite" /\ UNCHANGED <<new, change, shadow, want>>
    BY <1>4 DEF ErrmWrite, maskVars
  <2> QED
    BY <1>t, <2>1, <2>2 DEF MaskPc, MaskBusy
<1>5. CASE DisconnectInterrupt
  <2>1. ~overlap /\ \A t \in Thread : pc[t] \notin MaskPc
    BY <1>5, Zenon DEF DisconnectInterrupt
  <2> QED
    BY <1>5, <2>1 DEF DisconnectInterrupt, threadVars, MaskPc
<1>6. CASE \/ UNCHANGED vars \/ WriteRaw \/ Isr
           \/ \E b \in ErrBit : RaiseError(b)
           \/ ReadErrorStatus \/ ResetInterruptState \/ StopDevice \/ StartDevice
  <2>1. ~overlap
    BY RacesStay
  <2>2. UNCHANGED <<threadVars, shadow, want>>
    BY <1>6 DEF vars, WriteRaw, Isr, IsrAccept, IsrReadErrs, IsrAckErrs,
       IsrAckIntst, IsrRecheck, IsrWiden, IsrWriteErrm, RaiseError, ReadErrorStatus,
       ResetInterruptState, StopDevice, StartDevice, maskVars
  <2> QED
    BY <2>1, <2>2 DEF threadVars
<1> QED
  BY <1>1, <1>2, <1>3, <1>4, <1>5, <1>6 DEF Next, LockedRequest, UnlockedRequest

\* For any number of requests with and without TransferMutex: as long as no
\* update of INTEN has overlapped another, none has lost a bit.
THEOREM MaskIsSerialised == Spec => []MaskSerialised
<1>1. Init => TypeOK /\ SerialInv
  BY TypeInit DEF Typing, Init, SerialInv, MaskPc
<1>2. SerialInv => MaskSerialised
  BY DEF SerialInv, MaskSerialised
<1> QED
  BY <1>1, <1>2, SerialStep, TypeCorrect, PTL DEF Spec

-----------------------------------------------------------------------------
(* Registers and shadows.                                                   *)

\* Between the exchange and the write of INTEN the mask to be written is the
\* shadow; at all other times INTEN is.
IntenInv ==
    ~overlap /\ ~bypassed =>
        /\ (\A t \in Thread : pc[t] # "write") => inten = shadow
        /\ \A t \in Thread : pc[t] = "write" => new[t] = shadow

LEMMA IntenStep == TypeOK /\ SerialInv /\ IntenInv /\ [Next]_vars => IntenInv'
<1> SUFFICES ASSUME TypeOK, SerialInv, IntenInv, [Next]_vars, ~overlap', ~bypassed'
             PROVE  IntenInv'
  BY DEF IntenInv
<1> USE DEF IntenInv
<1>t. /\ DOMAIN pc = Thread /\ DOMAIN new = Thread
      /\ pc = [t \in Thread |-> pc[t]] /\ new = [t \in Thread |-> new[t]]
  BY DEF TypeOK
<1>1. ASSUME NEW t \in Thread, MaskUpdate(t) PROVE IntenInv'
  <2>0. ~overlap /\ ~bypassed
    BY RacesStay
  <2>1. CASE ReadShadow(t)
    BY <1>t, <2>0, <2>1 DEF ReadShadow, Done, maskVars
  <2>2. CASE CheckStarted(t)
    BY <1>t, <2>0, <2>2 DEF CheckStarted, Done, maskVars
  <2>3. CASE ExchangeShadow(t)
    <3>1. \A u \in Thread \ {t} : pc[u] # "write"
      BY <2>0, <2>3 DEF SerialInv, ExchangeShadow, MaskPc
    <3> QED
      BY <1>t, <2>0, <2>3, <3>1 DEF ExchangeShadow
  <2>4. CASE WriteInten(t)
    <3>1. \A u \in Thread \ {t} : pc[u] # "write"
      BY <2>0, <2>4 DEF SerialInv, WriteInten, MaskPc
    <3> QED
      BY <1>t, <2>0, <2>4, <3>1 DEF WriteInten, Done
  <2> QED
    BY <1>1, <2>1, <2>2, <2>3, <2>4 DEF MaskUpdate
<1>2. ASSUME NEW t \in Thread, LockedRequest(t) \/ UnlockedRequest(t) PROVE IntenInv'
  <2>1. ~overlap /\ ~bypassed
    BY RacesStay
  <2>2. \A u \in Thread : pc'[u] = "write" <=> pc[u] = "write"
    <3>1. CASE \/ \E c \in Change : LockedBegin(t, c)
               \/ TransferEnds(t)
      BY <1>t, <3>1, ThreadAssumption DEF TypeOK, LockedBegin, TransferEnds
    <3>2. CASE UnlockedRequest(t)
      BY <1>t, <3>2 DEF UnlockedRequest, ErrorMaskBegin, SetErrmBegin, SetMaskBegin,
         ErrmExchange, ErrmWrite
    <3> QED
      BY <1>2, <3>1, <3>2 DEF LockedRequest
  <2>3. UNCHANGED <<new, inten, shadow>>
    BY <1>2 DEF LockedRequest, UnlockedRequest, LockedBegin, TransferEnds,
       ErrorMaskBegin, SetErrmBegin, SetMaskBegin, ErrmExchange, ErrmWrite, maskVars
  <2> QED
    BY <2>1, <2>2, <2>3
<1>3. CASE WriteRaw \/ DisconnectInterrupt
  BY <1>3 DEF WriteRaw, DisconnectInterrupt
<1>4. CASE \/ UNCHANGED vars \/ Isr \/ \E b \in ErrBit : RaiseError(b)
           \/ ReadErrorStatus \/ ResetInterruptState \/ StopDevice \/ StartDevice
  <2>1. ~overlap /\ ~bypassed
    BY RacesStay
  <2>2. UNCHANGED <<threadVars, maskVars>>
    BY <1>4 DEF vars, Isr, IsrAccept, IsrReadErrs, IsrAckErrs, IsrAckIntst,
       IsrRecheck, IsrWiden, IsrWriteErrm, RaiseError, ReadErrorStatus,
       ResetInterruptState, StopDevice, StartDevice
  <2> QED
    BY <2>1, <2>2 DEF threadVars, maskVars
<1> QED
  BY <1>1, <1>2, <1>3, <1>4 DEF Next

\* The same of ERRM, which a request and the ISR update: while no two updates
\* have overlapped, one of them at most is under way.
ErrmInv ==
    ~overlap /\ ~bypassed =>
        /\ (isr # "write" /\ \A t \in Thread : pc[t] # "errmWrite") => errm = errmShadow
        /\ \A t \in Thread : pc[t] = "errmWrite" => errmNew[t] = errmShadow
        /\ isr = "write" => previousMask \cup errorState = errmShadow
        /\ \A t, u \in Thread : pc[t] \in ErrmPc /\ pc[u] \in ErrmPc => t = u
        /\ isr \in IsrErrmStep => \A t \in Thread : pc[t] \notin ErrmPc

LEMMA ErrmStep == TypeOK /\ ErrmInv /\ [Next]_vars => ErrmInv'
<1> SUFFICES ASSUME TypeOK, ErrmInv, [Next]_vars, ~overlap', ~bypassed'
             PROVE  ErrmInv'
  BY DEF ErrmInv
<1> USE DEF ErrmInv
<1>t. /\ DOMAIN pc = Thread /\ DOMAIN errmNew = Thread
      /\ pc = [t \in Thread |-> pc[t]] /\ errmNew = [t \in Thread |-> errmNew[t]]
  BY DEF TypeOK
<1>1. ASSUME NEW t \in Thread,
             \E e \in SUBSET ErrBit : ErrorMaskBegin(t, e) \/ SetErrmBegin(t, e)
      PROVE  ErrmInv'
  <2>0. ~overlap /\ ~bypassed
    BY RacesStay
  <2>1. ~ErrmBusy(t)
    BY <1>1, Zenon DEF ErrorMaskBegin, SetErrmBegin
  <2>2. isr \notin IsrErrmStep /\ \A u \in Thread \ {t} : pc[u] \notin ErrmPc
    BY <2>1 DEF ErrmBusy
  <2>3. /\ pc[t] = "idle" /\ pc' = [pc EXCEPT ![t] = "errmExchange"]
        /\ UNCHANGED <<errmShadow, errm, isr, errorState, previousMask>>
        /\ \A u \in Thread \ {t} : errmNew'[u] = errmNew[u]
    BY <1>1, <1>t DEF ErrorMaskBegin, SetErrmBegin, errmVars, isrVars
  <2> QED
    BY <1>t, <2>0, <2>2, <2>3 DEF ErrmPc, IsrErrmStep
<1>2. ASSUME NEW t \in Thread, ErrmExchange(t) PROVE ErrmInv'
  BY <1>2, <1>t DEF ErrmExchange, ErrmPc, IsrErrmStep, isrVars, raceVars
<1>3. ASSUME NEW t \in Thread, ErrmWrite(t) PROVE ErrmInv'
  <2>1. ~overlap /\ ~bypassed
    BY RacesStay
  <2>2. /\ pc[t] = "errmWrite" /\ errm' = errmNew[t]
        /\ pc' = [pc EXCEPT ![t] = IF change[t] = NoChange THEN "idle" ELSE "read"]
        /\ UNCHANGED <<errmShadow, isr>>
    BY <1>3 DEF ErrmWrite, isrVars
  <2> QED
    BY <1>t, <2>1, <2>2 DEF ErrmPc, IsrErrmStep
<1>4. ASSUME NEW t \in Thread,
             \/ LockedRequest(t) \/ MaskUpdate(t)
             \/ \E m \in SUBSET MaskBit : SetMaskBegin(t, m)
      PROVE  ErrmInv'
  <2>1. ~overlap /\ ~bypassed
    BY RacesStay
  <2>2. pc'[t] \notin ErrmPc /\ pc[t] \notin ErrmPc
    <3>1. CASE LockedRequest(t) \/ \E m \in SUBSET MaskBit : SetMaskBegin(t, m)
      BY <1>t, <3>1, ThreadAssumption DEF TypeOK, LockedRequest, LockedBegin,
         TransferEnds, SetMaskBegin, ErrmPc
    <3>2. CASE MaskUpdate(t)
      BY <1>t, <3>2 DEF MaskUpdate, ReadShadow, CheckStarted, ExchangeShadow,
         WriteInten, Done, ErrmPc
    <3> QED
      BY <1>4, <3>1, <3>2
  <2>3. /\ \A u \in Thread \ {t} : pc'[u] = pc[u]
        /\ UNCHANGED <<errmNew, errmVars, isrVars>>
    BY <1>4, <1>t DEF LockedRequest, MaskUpdate, LockedBegin, TransferEnds,
       SetMaskBegin, ReadShadow, CheckStarted, ExchangeShadow, WriteInten, Done
  <2> QED
    BY <2>1, <2>2, <2>3 DEF errmVars, isrVars, ErrmPc
<1>5. CASE Isr
  <2>1. CASE IsrRecheck
    <3>1. /\ ~overlap /\ ~bypassed
          /\ isr' = "widen" => \A t \in Thread : pc[t] \notin ErrmPc
      BY <2>1, Zenon DEF IsrRecheck
    <3>2. isr = "recheck" /\ isr' \in {"widen", "idle"}
          /\ UNCHANGED <<threadVars, errmVars, previousMask>>
      BY <2>1 DEF IsrRecheck
    <3> QED
      BY <3>1, <3>2 DEF threadVars, errmVars, IsrErrmStep
  <2>2. CASE IsrWiden \/ IsrWriteErrm
    BY <2>2 DEF IsrWiden, IsrWriteErrm, threadVars, raceVars, IsrErrmStep, ErrmPc
  <2>3. CASE IsrAccept \/ IsrReadErrs \/ IsrAckErrs \/ IsrAckIntst
    BY <2>3 DEF IsrAccept, IsrReadErrs, IsrAckErrs, IsrAckIntst, threadVars, errmVars,
       raceVars, IsrErrmStep
  <2> QED
    BY <1>5, <2>1, <2>2, <2>3 DEF Isr
<1>6. CASE WriteRaw \/ DisconnectInterrupt
  BY <1>6 DEF WriteRaw, DisconnectInterrupt
<1>7. CASE \/ UNCHANGED vars \/ \E b \in ErrBit : RaiseError(b)
           \/ ReadErrorStatus \/ ResetInterruptState \/ StopDevice \/ StartDevice
  <2>1. UNCHANGED <<threadVars, errmVars, isrVars, raceVars>>
    BY <1>7 DEF vars, RaiseError, ReadErrorStatus, ResetInterruptState, StopDevice,
       StartDevice
  <2> QED
    BY <2>1 DEF threadVars, errmVars, isrVars, raceVars
<1> QED
  BY <1>1, <1>2, <1>3, <1>4, <1>5, <1>6, <1>7 DEF Next, UnlockedRequest

\* INTEN and ERRM agree with their shadows between updates, until two updates
\* overlap or something writes only one of the pair.
THEOREM MasksAreCoherent == Spec => []MaskCoherent
<1>1. Init => TypeOK /\ SerialInv /\ IntenInv /\ ErrmInv
  BY TypeInit DEF Typing, Init, SerialInv, IntenInv, ErrmInv, MaskPc, ErrmPc,
     IsrErrmStep
<1>2. IntenInv /\ ErrmInv => MaskCoherent
  BY DEF IntenInv, ErrmInv, MaskCoherent
<1> QED
  BY <1>1, <1>2, SerialStep, IntenStep, ErrmStep, TypeCorrect, PTL DEF Spec

=============================================================================
