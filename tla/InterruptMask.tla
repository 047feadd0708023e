--------------------------- MODULE InterruptMask ---------------------------
(***************************************************************************)
(* The interrupt masks INTEN and ERRM with their software shadows, and the *)
(* sticky error latch of CFDC2194.                                         *)
(*                                                                         *)
(* Every change of INTEN reads the shadow, computes a mask, exchanges the  *)
(* shadow and writes the register: four steps.  The CFDC2110 records and   *)
(* the acquisition take them under TransferMutex; CFDC2190, the            *)
(* SetOneRegister request and the raw write CFDC21C4 take no lock, and the *)
(* interrupt service routine interrupts all of them.                       *)
(***************************************************************************)
EXTENDS Naturals, FiniteSets

CONSTANTS
    Locked,      \* threads whose requests hold TransferMutex
    Unlocked,    \* threads whose requests do not
    MaskBit,     \* INTEN bits: 0x01 "dma", 0x02 "err", "cmd", 0x08 "rx"
    ErrBit,      \* bits of ERRS and ERRM
    Persistent,  \* bit 31 of the latch: the error would not go away
    Null

ASSUME ThreadAssumption == Locked \cap Unlocked = {} /\ Null \notin Locked
ASSUME BitAssumption == MaskBit \subseteq {"dma", "err", "cmd", "rx"}
ASSUME PersistentAssumption == Persistent \notin ErrBit

Thread == Locked \cup Unlocked

VARIABLES
    pc,          \* [Thread]: step of its request
    mutex,       \* holder of TransferMutex
    change,      \* [Thread]: the INTEN bits its request sets and clears
    new,         \* [Thread]: local variable `newMask`
    errmNew,     \* [Thread]: local variable `programmedErrm`
    shadow,      \* InterruptEnableShadow
    inten,       \* INTEN
    errmShadow,  \* LegacyErrmShadow
    errm,        \* ERRM: the error bits that are masked
    errs,        \* ERRS
    intst,       \* bit 1 of INTST
    latch,       \* LegacyErrorStatusLatch
    isr,         \* step of the ISR in its branch for bit 1
    errorState,  \* its local variable
    previousMask,\* its local variable
    started,     \* Started
    connected,   \* InterruptConnected
    want,        \* history: the mask the requests so far have asked for
    raised,      \* history: errors raised and not reported, reset or cleared
    overlap,     \* history: two updates of a shadow have overlapped
    bypassed     \* history: a register or shadow was written by itself

threadVars == <<pc, mutex, change, new, errmNew>>
maskVars == <<shadow, inten, want>>
errmVars == <<errmShadow, errm>>
errorVars == <<errs, intst, latch, raised>>
isrVars == <<isr, errorState, previousMask>>
pnpVars == <<started, connected>>
raceVars == <<overlap, bypassed>>
vars == <<threadVars, maskVars, errmVars, errorVars, isrVars, pnpVars, raceVars>>

Change == [set : SUBSET MaskBit, clear : SUBSET MaskBit]
NoChange == [set |-> {}, clear |-> {}]
On(b) == [set |-> {b}, clear |-> {}]
Off(b) == [set |-> {}, clear |-> {b}]
Applied(c, m) == (m \ c.clear) \cup c.set

MaskPc == {"read", "check", "exchange", "write"}
ErrmPc == {"errmExchange", "errmWrite"}
IsrErrmStep == {"widen", "write"}

TypeOK ==
    /\ pc \in [Thread -> MaskPc \cup ErrmPc \cup {"idle", "launched"}]
    /\ mutex \in Locked \cup {Null}
    /\ change \in [Thread -> Change]
    /\ new \in [Thread -> SUBSET MaskBit]
    /\ errmNew \in [Thread -> SUBSET ErrBit]
    /\ shadow \subseteq MaskBit /\ inten \subseteq MaskBit /\ want \subseteq MaskBit
    /\ errmShadow \subseteq ErrBit /\ errm \subseteq ErrBit
    /\ errs \subseteq ErrBit /\ raised \subseteq ErrBit
    /\ intst \in BOOLEAN
    /\ latch \subseteq ErrBit \cup {Persistent}
    /\ isr \in {"idle", "read", "ackErrs", "ackIntst", "recheck", "widen", "write"}
    /\ errorState \subseteq ErrBit /\ previousMask \subseteq ErrBit
    /\ started \in BOOLEAN /\ connected \in BOOLEAN
    /\ overlap \in BOOLEAN /\ bypassed \in BOOLEAN
    /\ \A t \in Locked : pc[t] # "idle" <=> mutex = t

Init ==
    /\ pc = [t \in Thread |-> "idle"]
    /\ mutex = Null
    /\ change = [t \in Thread |-> NoChange]
    /\ new = [t \in Thread |-> {}]
    /\ errmNew = [t \in Thread |-> {}]
    /\ shadow = {} /\ inten = {} /\ want = {}
    /\ errmShadow = ErrBit /\ errm = ErrBit
    /\ errs = {} /\ intst = FALSE /\ latch = {} /\ raised = {}
    /\ isr = "idle" /\ errorState = {} /\ previousMask = {}
    /\ started = TRUE /\ connected = TRUE
    /\ overlap = FALSE /\ bypassed = FALSE

\* Some other thread is between its read of the shadow and its write of INTEN.
MaskBusy(t) == \E u \in Thread \ {t} : pc[u] \in MaskPc

\* Somebody is between an update of the ERRM shadow and the write of ERRM.
ErrmBusy(t) ==
    isr \in IsrErrmStep \/ \E u \in Thread \ {t} : pc[u] \in ErrmPc

-----------------------------------------------------------------------------
(* Changes of INTEN.                                                        *)

\* CFDC2138 and MTT enable bit 0, opcode 0x85 sets or clears the command bits,
\* the first response fetch enables bit 3.
LockedBegin(t, c) ==
    /\ t \in Locked /\ mutex = Null
    /\ c \in {On("dma"), On("cmd"), Off("cmd"), On("rx")}
    /\ c \in Change
    /\ mutex' = t
    /\ pc' = [pc EXCEPT ![t] = "read"]
    /\ change' = [change EXCEPT ![t] = c]
    /\ overlap' = (overlap \/ MaskBusy(t))
    /\ UNCHANGED <<new, errmNew, maskVars, errmVars, errorVars, isrVars, pnpVars,
                   bypassed>>

\* CFDC2190: ERRM first, and bit 1 after it.
ErrorMaskBegin(t, request) ==
    /\ t \in Unlocked /\ pc[t] = "idle" /\ started
    /\ "err" \in MaskBit
    /\ pc' = [pc EXCEPT ![t] = "errmExchange"]
    /\ errmNew' = [errmNew EXCEPT ![t] = ErrBit \ request]
    /\ change' = [change EXCEPT ![t] = IF request # {} THEN On("err") ELSE Off("err")]
    /\ overlap' = (overlap \/ ErrmBusy(t))
    /\ UNCHANGED <<mutex, new, maskVars, errmVars, errorVars, isrVars, pnpVars,
                   bypassed>>

\* SetOneRegister on INTEN replaces the whole mask.
SetMaskBegin(t, m) ==
    /\ t \in Unlocked /\ pc[t] = "idle"
    /\ pc' = [pc EXCEPT ![t] = "read"]
    /\ change' = [change EXCEPT ![t] = [set |-> m, clear |-> MaskBit \ m]]
    /\ overlap' = (overlap \/ MaskBusy(t))
    /\ UNCHANGED <<mutex, new, errmNew, maskVars, errmVars, errorVars, isrVars,
                   pnpVars, bypassed>>

\* The request ends: a thread that has enabled bit 0 waits for its transfer.
Done(t, launched) ==
    /\ pc' = [pc EXCEPT ![t] = IF launched THEN "launched" ELSE "idle"]
    /\ mutex' = IF mutex = t /\ ~launched THEN Null ELSE mutex
    /\ change' = [change EXCEPT ![t] = NoChange]

\* The response fetch commits only while bit 3 is clear.
ReadShadow(t) ==
    LET m == Applied(change[t], shadow)
        skip == change[t] = On("rx") /\ "rx" \in shadow
    IN
    /\ pc[t] = "read"
    /\ new' = [new EXCEPT ![t] = IF skip THEN {} ELSE m]
    /\ IF skip THEN Done(t, FALSE)
       ELSE pc' = [pc EXCEPT ![t] = "check"] /\ UNCHANGED <<mutex, change>>
    /\ UNCHANGED <<errmNew, maskVars, errmVars, errorVars, isrVars, pnpVars,
                   raceVars>>

\* LecResolveRegister fails once the device is stopped.
CheckStarted(t) ==
    /\ pc[t] = "check"
    /\ IF started THEN pc' = [pc EXCEPT ![t] = "exchange"] /\ UNCHANGED <<mutex, change>>
       ELSE Done(t, FALSE)
    /\ UNCHANGED <<new, errmNew, maskVars, errmVars, errorVars, isrVars, pnpVars,
                   raceVars>>

\* Mutant: only the bits of this request reach the shadow.
ExchangeOwnBits(t) ==
    /\ pc[t] = "exchange"
    /\ shadow' = new[t] \cap (change[t].set \cup change[t].clear)
    /\ want' = Applied(change[t], want)
    /\ pc' = [pc EXCEPT ![t] = "write"]
    /\ UNCHANGED <<mutex, change, new, errmNew, inten, errmVars, errorVars, isrVars,
                   pnpVars, raceVars>>

ExchangeShadow(t) ==
    /\ pc[t] = "exchange"
    /\ shadow' = new[t]
    /\ want' = Applied(change[t], want)
    /\ pc' = [pc EXCEPT ![t] = "write"]
    /\ UNCHANGED <<mutex, change, new, errmNew, inten, errmVars, errorVars, isrVars,
                   pnpVars, raceVars>>

\* Mutant: INTEN receives the bits of this request only.
WriteOwnBits(t) ==
    /\ pc[t] = "write"
    /\ inten' = change[t].set
    /\ new' = [new EXCEPT ![t] = {}]
    /\ Done(t, change[t] = On("dma") /\ t \in Locked)
    /\ UNCHANGED <<errmNew, shadow, want, errmVars, errorVars, isrVars, pnpVars,
                   raceVars>>

WriteInten(t) ==
    /\ pc[t] = "write"
    /\ inten' = new[t]
    /\ new' = [new EXCEPT ![t] = {}]
    /\ Done(t, change[t] = On("dma") /\ t \in Locked)
    /\ UNCHANGED <<errmNew, shadow, want, errmVars, errorVars, isrVars, pnpVars,
                   raceVars>>

\* The transfer has completed or timed out: bit 0 is disabled again.
TransferEnds(t) ==
    /\ pc[t] = "launched"
    /\ pc' = [pc EXCEPT ![t] = "read"]
    /\ change' = [change EXCEPT ![t] = Off("dma")]
    /\ overlap' = (overlap \/ MaskBusy(t))
    /\ UNCHANGED <<mutex, new, errmNew, maskVars, errmVars, errorVars, isrVars,
                   pnpVars, bypassed>>

\* CFDC21C4 writes a register and no shadow (of ERRS it would be a reset).
WriteRaw ==
    /\ started /\ Unlocked # {}
    /\ \/ inten' \in SUBSET MaskBit /\ UNCHANGED errm
       \/ errm' \in SUBSET ErrBit /\ UNCHANGED inten
    /\ bypassed' = TRUE
    /\ UNCHANGED <<threadVars, shadow, want, errmShadow, errorVars, isrVars,
                   pnpVars, overlap>>

-----------------------------------------------------------------------------
(* Changes of ERRM.                                                         *)

\* SetOneRegister on ERRM.
SetErrmBegin(t, v) ==
    /\ t \in Unlocked /\ pc[t] = "idle" /\ started
    /\ pc' = [pc EXCEPT ![t] = "errmExchange"]
    /\ errmNew' = [errmNew EXCEPT ![t] = v]
    /\ overlap' = (overlap \/ ErrmBusy(t))
    /\ UNCHANGED <<mutex, change, new, maskVars, errmVars, errorVars, isrVars,
                   pnpVars, bypassed>>

ErrmExchange(t) ==
    /\ pc[t] = "errmExchange"
    /\ errmShadow' = errmNew[t]
    /\ pc' = [pc EXCEPT ![t] = "errmWrite"]
    /\ UNCHANGED <<mutex, change, new, errmNew, maskVars, errm, errorVars, isrVars,
                   pnpVars, raceVars>>

\* CFDC2190 goes on to INTEN.
ErrmWrite(t) ==
    /\ pc[t] = "errmWrite"
    /\ errm' = errmNew[t]
    /\ errmNew' = [errmNew EXCEPT ![t] = {}]
    /\ pc' = [pc EXCEPT ![t] = IF change[t] = NoChange THEN "idle" ELSE "read"]
    /\ overlap' = (overlap \/ (change[t] # NoChange /\ MaskBusy(t)))
    /\ UNCHANGED <<mutex, change, new, maskVars, errmShadow, errorVars, isrVars,
                   pnpVars, bypassed>>

-----------------------------------------------------------------------------
(* Errors: the hardware, the ISR and CFDC2194.                              *)

\* What the ISR has read from ERRS and not yet acknowledged.
Unacknowledged == IF isr = "ackErrs" THEN errorState ELSE {}

\* Interrupts are raised for the bits ERRM does not mask.  An error that is in
\* ERRS already, or that a reset took out of it under the ISR's hands, has no
\* second occurrence before the ISR has acknowledged it.
RaiseError(b) ==
    /\ errs' = errs \cup {b}
    /\ raised' = raised \cup ({b} \ (errs \cup Unacknowledged))
    /\ intst' = (intst \/ b \notin errm)
    /\ UNCHANGED <<threadVars, maskVars, errmVars, latch, isrVars, pnpVars, raceVars>>

IsrAccept ==
    /\ isr = "idle" /\ connected /\ started
    /\ intst /\ "err" \in shadow
    /\ isr' = "read"
    /\ UNCHANGED <<threadVars, maskVars, errmVars, errorVars, errorState,
                   previousMask, pnpVars, raceVars>>

IsrReadErrs ==
    /\ isr = "read"
    /\ errorState' = errs
    /\ latch' = latch \cup errs
    /\ isr' = "ackErrs"
    /\ UNCHANGED <<threadVars, maskVars, errmVars, errs, intst, raised,
                   previousMask, pnpVars, raceVars>>

\* Mutant: ERRS is acknowledged with all ones.
IsrAckAllErrs ==
    /\ isr = "ackErrs"
    /\ errs' = {}
    /\ isr' = "ackIntst"
    /\ UNCHANGED <<threadVars, maskVars, errmVars, intst, latch, raised,
                   errorState, previousMask, pnpVars, raceVars>>

\* CLRERR and ERRS acknowledge what was read, by writing ones.
IsrAckErrs ==
    /\ isr = "ackErrs"
    /\ errs' = errs \ errorState
    /\ isr' = "ackIntst"
    /\ UNCHANGED <<threadVars, maskVars, errmVars, intst, latch, raised,
                   errorState, previousMask, pnpVars, raceVars>>

IsrAckIntst ==
    /\ isr = "ackIntst"
    /\ intst' = (errs \ errm # {})
    /\ isr' = "recheck"
    /\ UNCHANGED <<threadVars, maskVars, errmVars, errs, latch, raised, errorState,
                   previousMask, pnpVars, raceVars>>

\* One microsecond later: has the same error come back?
IsrRecheck ==
    LET again == intst /\ errs = errorState IN
    /\ isr = "recheck"
    /\ isr' = IF again THEN "widen" ELSE "idle"
    /\ errorState' = IF again THEN errorState ELSE {}
    /\ overlap' = (overlap \/ (again /\ \E t \in Thread : pc[t] \in ErrmPc))
    /\ UNCHANGED <<threadVars, maskVars, errmVars, errorVars, previousMask, pnpVars,
                   bypassed>>

IsrWiden ==
    /\ isr = "widen"
    /\ previousMask' = errmShadow
    /\ errmShadow' = errmShadow \cup errorState
    /\ isr' = "write"
    /\ UNCHANGED <<threadVars, maskVars, errm, errorVars, errorState, pnpVars,
                   raceVars>>

\* Mutant: the bits masked before are forgotten.
IsrWriteErrmNew ==
    /\ isr = "write"
    /\ errm' = errorState
    /\ latch' = latch \cup {Persistent}
    /\ isr' = "idle"
    /\ errorState' = {} /\ previousMask' = {}
    /\ UNCHANGED <<threadVars, maskVars, errmShadow, errs, intst, raised, pnpVars,
                   raceVars>>

IsrWriteErrm ==
    /\ isr = "write"
    /\ errm' = previousMask \cup errorState
    /\ latch' = latch \cup {Persistent}
    /\ isr' = "idle"
    /\ errorState' = {} /\ previousMask' = {}
    /\ UNCHANGED <<threadVars, maskVars, errmShadow, errs, intst, raised, pnpVars,
                   raceVars>>

\* CFDC2194 takes the latch and clears it in one exchange.  What the ISR has
\* read and not yet acknowledged is reported with it.
ReadErrorStatus ==
    /\ Unlocked # {}
    /\ latch' = {}
    /\ raised' = raised \cap (errs \ Unacknowledged)
    /\ UNCHANGED <<threadVars, maskVars, errmVars, errs, intst, isrVars, pnpVars,
                   raceVars>>

\* Family 2 opcode 0x40, under the mutex: INTST is acknowledged, ERRS only if
\* INTST bit 1 is set, and nothing is latched.
ResetInterruptState ==
    /\ Locked # {} /\ mutex = Null /\ started
    /\ errs' = IF intst THEN {} ELSE errs
    /\ raised' = IF intst THEN raised \cap latch ELSE raised
    /\ intst' = (errs' \ errm # {})
    /\ UNCHANGED <<threadVars, maskVars, errmVars, latch, isrVars, pnpVars, raceVars>>

-----------------------------------------------------------------------------
(* PnP.                                                                     *)

StopDevice ==
    /\ started
    /\ started' = FALSE
    /\ UNCHANGED <<threadVars, maskVars, errmVars, errorVars, isrVars, connected,
                   raceVars>>

\* The shadows are reset and the registers keep what they had.
DisconnectInterrupt ==
    /\ ~started /\ connected /\ isr = "idle"
    /\ connected' = FALSE
    /\ shadow' = {} /\ want' = {}
    /\ errmShadow' = ErrBit
    /\ latch' = {}
    /\ raised' = raised \cap errs
    /\ bypassed' = TRUE
    /\ overlap' = (overlap \/ \E t \in Thread : pc[t] \in MaskPc \cup ErrmPc)
    /\ UNCHANGED <<threadVars, inten, errm, errs, intst, isrVars, started>>

StartDevice ==
    /\ ~started /\ ~connected
    /\ started' = TRUE
    /\ connected' = TRUE
    /\ UNCHANGED <<threadVars, maskVars, errmVars, errorVars, isrVars, raceVars>>

-----------------------------------------------------------------------------
MaskUpdate(t) ==
    ReadShadow(t) \/ CheckStarted(t) \/ ExchangeShadow(t) \/ WriteInten(t)
LockedRequest(t) ==
    (\E c \in Change : LockedBegin(t, c)) \/ TransferEnds(t)
UnlockedRequest(t) ==
    \/ \E e \in SUBSET ErrBit : ErrorMaskBegin(t, e) \/ SetErrmBegin(t, e)
    \/ \E m \in SUBSET MaskBit : SetMaskBegin(t, m)
    \/ ErrmExchange(t) \/ ErrmWrite(t)
Isr == \/ IsrAccept \/ IsrReadErrs \/ IsrAckErrs \/ IsrAckIntst \/ IsrRecheck
       \/ IsrWiden \/ IsrWriteErrm

Next ==
    \/ \E t \in Thread : LockedRequest(t) \/ UnlockedRequest(t) \/ MaskUpdate(t)
    \/ WriteRaw
    \/ \E b \in ErrBit : RaiseError(b)
    \/ Isr
    \/ ReadErrorStatus
    \/ ResetInterruptState
    \/ StopDevice \/ DisconnectInterrupt \/ StartDevice

Spec == Init /\ [][Next]_vars

-----------------------------------------------------------------------------
(* Properties.                                                              *)

\* The four-step updates take effect as if each were atomic: no bit another
\* request asked for is lost, as long as none overlapped an unlocked one.
MaskSerialised == ~overlap => shadow = want

\* Registers agree with their shadows whenever no update is under way, until
\* two overlap or something writes only one of the pair.
MaskCoherent ==
    ~overlap /\ ~bypassed =>
        /\ (\A t \in Thread : pc[t] # "write") => inten = shadow
        /\ (isr # "write" /\ \A t \in Thread : pc[t] # "errmWrite") => errm = errmShadow

\* An error the board raised is still in ERRS or in the latch until CFDC2194
\* reports it or a reset or a stop discards it, even if it comes up between the
\* ISR's read of ERRS and its acknowledgement.
ErrorsKept == raised \subseteq errs \cup latch
=============================================================================
