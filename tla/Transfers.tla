----------------------------- MODULE Transfers -----------------------------
(***************************************************************************)
(* The DMA transfer registry of the WR6K driver and the buffered           *)
(* acquisition CFDC2138 that runs on it (driver/Acquisition.c, the handler *)
(* LecIoctlAcquireBufferedOneChannel of driver/Ioctl.c), together with the *)
(* actors that race with it: the interrupt service routine and its DPC for *)
(* INTST bit 0, the DMA engine, IRP_MJ_CLOSE and PnP start/stop.           *)
(*                                                                         *)
(* A request is a sequence of steps of one thread.  A region that holds    *)
(* TransferMutex and touches nothing another actor reads without the mutex *)
(* is one step; the acquisition, which holds it throughout, is not.        *)
(***************************************************************************)
EXTENDS Naturals, FiniteSets

CONSTANTS
    TransferThread, \* threads that register, unregister, acquire and close
    DirectThread,   \* threads that issue CFDC2400 and write registers
    Process,     \* client processes
    ProcessOf,   \* the process of each thread
    Record,      \* LECS65_TRANSFER allocations the pool can hold
    Cpu,         \* processors that can run the DPC
    TokenMax,    \* last transfer token before the counter wraps (2^32 - 1)
    HandleMax,   \* bound: open handles per process
    DirectMax,   \* bound: requests that go to registers or the DPC directly
    Null

\* A thread keeps nothing between requests: one that issues both kinds does no
\* more than two that issue one each, and the two sets may overlap.
Thread == TransferThread \cup DirectThread

ASSUME ProcessOfAssumption == ProcessOf \in [Thread -> Process]
ASSUME NullAssumption == Null \notin Record /\ Null \notin Thread
ASSUME TokenMaxAssumption == TokenMax \in Nat \ {0}
ASSUME HandleMaxAssumption == HandleMax \in Nat \ {0}
ASSUME DirectMaxAssumption == DirectMax \in Nat
ASSUME RunnerAssumption == Cpu \cap Thread = {}

VARIABLES
    pc,          \* [Thread]: the step a thread is about to take
    req,         \* [Thread]: local variable `transfer` of its request
    result,      \* [Thread]: status of its acquisition in progress
    state,       \* [Record]: free, building, listed (in TransferList), unlinked
    owner,       \* [Record]: OwnerProcessId
    token,       \* [Record]: Token
    signaled,    \* records whose CompletionEvent is set
    nextToken,   \* NextTransferToken
    mutex,       \* holder of TransferMutex
    current,     \* CurrentTransfer
    handles,     \* [Process]: open file handles
    started,     \* Started
    mapped,      \* BARs are mapped
    pnp,         \* step of the PnP dispatch thread
    victim,      \* its local variable `transfer` in LecReleaseAllTransfers
    connected,   \* InterruptConnected
    shadow,      \* bit 0 of InterruptEnableShadow
    inten,       \* bit 0 of INTEN
    intst,       \* bit 0 of INTST
    pending,     \* bit 0 of InterruptPendingShadow
    queued,      \* the DPC object is queued
    isr,         \* step of the interrupt service routine
    dpc,         \* [Runner]: step of the DPC routine running there
    arg,         \* [Runner]: its local variable `transfer`
    engine,      \* record whose descriptors the DMA engine is executing
    done,        \* history: the DMA launched last has finished
    direct,      \* requests that went to registers or the DPC directly
    timedOut,    \* history: some acquisition has given up waiting
    forged,      \* history: a client injected bit 0 or started the engine
    crossed      \* history: a client crossed the present acquisition's path

\* Where the DPC routine runs: as a DPC, or on the thread of a CFDC2400.
Runner == Cpu \cup Thread

reqVars == <<pc, req, result>>
regVars == <<state, owner, token, nextToken>>
pnpVars == <<started, mapped, pnp, victim, connected>>
irqVars == <<intst, queued, isr>>
dpcVars == <<dpc, arg>>
dmaVars == <<engine, done>>
maskVars == <<shadow, inten>>
history == <<direct, timedOut, forged, crossed>>
vars == <<reqVars, regVars, pnpVars, irqVars, dpcVars, dmaVars, signaled,
          mutex, current, handles, maskVars, pending, history>>

AcquirePc == {"reset", "clear", "select", "check", "commit", "unmask", "launch",
              "wait", "disable", "mask", "deselect", "iim"}
DirectPc == {"inject", "resolved", "writeset", "writeclear"}
RequestPc == AcquirePc \cup DirectPc \cup {"building", "freeing"}
ClosePc == {"closing", "closefree"}
StatePc == {"free", "building", "listed", "unlinked"}

FlagsOK ==
    /\ started \in BOOLEAN /\ mapped \in BOOLEAN /\ connected \in BOOLEAN
    /\ shadow \in BOOLEAN /\ inten \in BOOLEAN
    /\ intst \in BOOLEAN /\ pending \in BOOLEAN
    /\ queued \in BOOLEAN /\ done \in BOOLEAN
    /\ timedOut \in BOOLEAN /\ forged \in BOOLEAN /\ crossed \in BOOLEAN

TypeOK ==
    /\ pc \in [Thread -> RequestPc \cup ClosePc \cup {"idle"}]
    /\ req \in [Thread -> Record \cup {Null}]
    /\ result \in [Thread -> {"none", "ok", "timeout", "error"}]
    /\ state \in [Record -> StatePc]
    /\ owner \in [Record -> Process \cup {Null}]
    /\ token \in [Record -> 0..TokenMax]
    /\ \A r \in Record : token[r] = 0 <=> state[r] = "free"
    /\ signaled \subseteq Record
    /\ nextToken \in 0..TokenMax
    /\ mutex \in Thread \cup {Null}
    /\ current \in Record \cup {Null}
    /\ handles \in [Process -> 0..HandleMax]
    /\ pnp \in {"stopped", "connect", "running", "disconnect", "release",
                "free", "unmap"}
    /\ victim \in Record \cup {Null}
    /\ isr \in {"idle", "accepted", "pended"}
    /\ dpc \in [Runner -> {"idle", "exchange", "load", "signal"}]
    /\ arg \in [Runner -> Record \cup {Null}]
    /\ engine \in Record \cup {Null}
    /\ direct \in 0..DirectMax
    /\ FlagsOK

Init ==
    /\ pc = [t \in Thread |-> "idle"]
    /\ req = [t \in Thread |-> Null]
    /\ result = [t \in Thread |-> "none"]
    /\ state = [r \in Record |-> "free"]
    /\ owner = [r \in Record |-> Null]
    /\ token = [r \in Record |-> 0]
    /\ signaled = {}
    /\ nextToken = 0
    /\ mutex = Null
    /\ current = Null
    /\ handles = [p \in Process |-> 0]
    /\ started = FALSE /\ mapped = FALSE
    /\ pnp = "stopped" /\ victim = Null
    /\ connected = FALSE /\ shadow = FALSE /\ inten = FALSE
    /\ intst = FALSE /\ pending = FALSE /\ queued = FALSE
    /\ isr = "idle"
    /\ dpc = [c \in Runner |-> "idle"]
    /\ arg = [c \in Runner |-> Null]
    /\ engine = Null /\ done = FALSE
    /\ direct = 0
    /\ timedOut = FALSE /\ forged = FALSE /\ crossed = FALSE

-----------------------------------------------------------------------------
(* Registration, CFDC2124 and CFDC2128.                                    *)

\* LecFindTransferOwned: the records of the list with this owner and token.
FindTransferOwned(k, p) ==
    {r \in Record : state[r] = "listed" /\ token[r] = k /\ owner[r] = p}

\* Mutant: zero is not skipped when the counter wraps.
TokenAfterZero(n) == (nextToken + n) % (TokenMax + 1)

\* The n-th value the token counter takes from here; zero is skipped.
TokenAfter(n) == ((nextToken + n - 1) % TokenMax) + 1

\* Mutant: the drawn token is not looked up in the list.
PickedTokenUnchecked(k, p) == k = TokenAfter(1)

\* The token the loop of LecRegisterTransfer stops at for process p.
PickedToken(k, p) ==
    \E n \in 1..TokenMax :
        /\ k = TokenAfter(n)
        /\ FindTransferOwned(k, p) = {}
        /\ \A m \in 1..(n - 1) : FindTransferOwned(TokenAfter(m), p) # {}

\* Bound: fewer than TokenMax registrations complete while one is building,
\* so the counter does not come round to a token that is not yet listed.
NoWrapWhileBuilding(k, p) ==
    \A r \in Record : ~(state[r] = "building" /\ owner[r] = p /\ token[r] = k)

\* LecFreeTransfer returns the record to the pool.
PutBack(r) ==
    /\ state' = [state EXCEPT ![r] = "free"]
    /\ owner' = [owner EXCEPT ![r] = Null]
    /\ token' = [token EXCEPT ![r] = 0]
    /\ UNCHANGED nextToken

MayRequest(t) == pc[t] = "idle" /\ handles[ProcessOf[t]] > 0

RegisterPickToken(t, r, k) ==
    /\ MayRequest(t)
    /\ state[r] = "free"
    /\ mutex = Null
    /\ PickedToken(k, ProcessOf[t])
    /\ NoWrapWhileBuilding(k, ProcessOf[t])
    /\ state' = [state EXCEPT ![r] = "building"]
    /\ owner' = [owner EXCEPT ![r] = ProcessOf[t]]
    /\ token' = [token EXCEPT ![r] = k]
    /\ nextToken' = k
    /\ signaled' = signaled \ {r}
    /\ pc' = [pc EXCEPT ![t] = "building"]
    /\ req' = [req EXCEPT ![t] = r]
    /\ UNCHANGED <<result, pnpVars, irqVars, dpcVars, dmaVars, mutex, current,
                   handles, maskVars, pending, history>>

\* The source MDL chain or the descriptor table cannot be built.
RegisterBuildFails(t) ==
    /\ pc[t] = "building"
    /\ PutBack(req[t])
    /\ pc' = [pc EXCEPT ![t] = "idle"]
    /\ req' = [req EXCEPT ![t] = Null]
    /\ UNCHANGED <<result, pnpVars, irqVars, dpcVars,
                   dmaVars, signaled, mutex, current, handles, maskVars, pending,
                   history>>

RegisterInsert(t) ==
    /\ pc[t] = "building"
    /\ mutex = Null
    /\ state' = [state EXCEPT ![req[t]] = "listed"]
    /\ pc' = [pc EXCEPT ![t] = "idle"]
    /\ req' = [req EXCEPT ![t] = Null]
    /\ UNCHANGED <<result, owner, token, nextToken, pnpVars, irqVars, dpcVars,
                   dmaVars, signaled, mutex, current, handles, maskVars, pending,
                   history>>

\* Mutant: unregister takes neither the mutex nor the in-use test.
UnregisterUnlocked(t, k) ==
    /\ MayRequest(t)
    /\ \E r \in FindTransferOwned(k, ProcessOf[t]) :
        /\ state' = [state EXCEPT ![r] = "unlinked"]
        /\ req' = [req EXCEPT ![t] = r]
    /\ pc' = [pc EXCEPT ![t] = "freeing"]
    /\ UNCHANGED <<result, owner, token, nextToken, pnpVars, irqVars, dpcVars,
                   dmaVars, signaled, mutex, current, handles, maskVars, pending,
                   history>>

\* The client names its transfer by token; the lookup is by token and owner.
UnregisterTransfer(t, k) ==
    /\ MayRequest(t)
    /\ mutex = Null
    /\ \E r \in FindTransferOwned(k, ProcessOf[t]) :
        /\ current # r
        /\ state' = [state EXCEPT ![r] = "unlinked"]
        /\ req' = [req EXCEPT ![t] = r]
    /\ pc' = [pc EXCEPT ![t] = "freeing"]
    /\ UNCHANGED <<result, owner, token, nextToken, pnpVars, irqVars, dpcVars,
                   dmaVars, signaled, mutex, current, handles, maskVars, pending,
                   history>>

\* LecFreeTransfer, after the mutex has been released.
FreeTransfer(t) ==
    /\ pc[t] \in {"freeing", "closefree"}
    /\ PutBack(req[t])
    /\ pc' = [pc EXCEPT ![t] = IF pc[t] = "freeing" THEN "idle" ELSE "closing"]
    /\ req' = [req EXCEPT ![t] = Null]
    /\ UNCHANGED <<result, pnpVars, irqVars, dpcVars,
                   dmaVars, signaled, mutex, current, handles, maskVars, pending,
                   history>>

-----------------------------------------------------------------------------
(* IRP_MJ_CREATE and IRP_MJ_CLOSE.                                         *)

Create(p) ==
    /\ handles[p] < HandleMax
    /\ handles' = [handles EXCEPT ![p] = @ + 1]
    /\ UNCHANGED <<reqVars, regVars, pnpVars, irqVars, dpcVars, dmaVars,
                   signaled, mutex, current, maskVars, pending, history>>

\* The I/O manager sends CLOSE when no request is outstanding on the handle:
\* requests still running in the process use another of its handles.
Close(t) ==
    LET p == ProcessOf[t] IN
    /\ MayRequest(t)
    /\ \/ handles[p] > 1
       \/ \A u \in Thread : ProcessOf[u] = p => pc[u] \notin RequestPc
    /\ handles' = [handles EXCEPT ![p] = @ - 1]
    /\ pc' = [pc EXCEPT ![t] = "closing"]
    /\ UNCHANGED <<req, result, regVars, pnpVars, irqVars, dpcVars, dmaVars,
                   signaled, mutex, current, maskVars, pending, history>>

Releasable(r, p) == state[r] = "listed" /\ owner[r] = p /\ current # r

\* One round of LecReleaseTransfersForProcess.
CloseRelease(t, r) ==
    /\ pc[t] = "closing"
    /\ mutex = Null
    /\ Releasable(r, ProcessOf[t])
    /\ state' = [state EXCEPT ![r] = "unlinked"]
    /\ pc' = [pc EXCEPT ![t] = "closefree"]
    /\ req' = [req EXCEPT ![t] = r]
    /\ UNCHANGED <<result, owner, token, nextToken, pnpVars, irqVars, dpcVars,
                   dmaVars, signaled, mutex, current, handles, maskVars, pending,
                   history>>

\* Mutant: the release loop runs once.
CloseDoneEarly(t) ==
    /\ pc[t] = "closing"
    /\ mutex = Null
    /\ pc' = [pc EXCEPT ![t] = "idle"]
    /\ UNCHANGED <<req, result, regVars, pnpVars, irqVars, dpcVars, dmaVars,
                   signaled, mutex, current, handles, maskVars, pending, history>>

CloseDone(t) ==
    /\ pc[t] = "closing"
    /\ mutex = Null
    /\ \A r \in Record : ~Releasable(r, ProcessOf[t])
    /\ pc' = [pc EXCEPT ![t] = "idle"]
    /\ UNCHANGED <<req, result, regVars, pnpVars, irqVars, dpcVars, dmaVars,
                   signaled, mutex, current, handles, maskVars, pending, history>>

-----------------------------------------------------------------------------
(* Acquisition, CFDC2138.  The mutex is held from AcquireBegin to           *)
(* AcquireEnd.                                                              *)

Go(t, step) == pc' = [pc EXCEPT ![t] = step]

InterruptPathQuiet ==
    isr = "idle" /\ ~queued /\ \A c \in Runner : dpc[c] = "idle"

\* Token lookup, validation, register resolution, MAM set-up.  What a client
\* crossed before is over when nothing of it is left on the interrupt path.
AcquireBegin(t, k) ==
    /\ MayRequest(t)
    /\ mutex = Null
    /\ current = Null
    /\ started
    /\ \E r \in FindTransferOwned(k, ProcessOf[t]) :
          req' = [req EXCEPT ![t] = r]
    /\ mutex' = t
    /\ crossed' = (crossed /\ ~InterruptPathQuiet)
    /\ Go(t, "reset")
    /\ UNCHANGED <<result, regVars, pnpVars, irqVars, dpcVars, dmaVars, signaled,
                   current, handles, maskVars, pending, direct, timedOut, forged>>

\* KeResetEvent
ResetEvent(t) ==
    /\ pc[t] = "reset"
    /\ signaled' = signaled \ {req[t]}
    /\ Go(t, "clear")
    /\ UNCHANGED <<req, result, regVars, pnpVars, irqVars, dpcVars, dmaVars,
                   mutex, current, handles, maskVars, pending, history>>

\* InterlockedAnd(&InterruptPendingShadow, ~1)
ClearPending(t) ==
    /\ pc[t] = "clear"
    /\ pending' = FALSE
    /\ Go(t, "select")
    /\ UNCHANGED <<req, result, regVars, pnpVars, irqVars, dpcVars, dmaVars,
                   signaled, mutex, current, handles, maskVars, history>>

SelectTransfer(t) ==
    /\ pc[t] = "select"
    /\ current' = req[t]
    /\ Go(t, "check")
    /\ UNCHANGED <<req, result, regVars, pnpVars, irqVars, dpcVars, dmaVars,
                   signaled, mutex, handles, maskVars, pending, history>>

\* LecCommitLegacyInterruptMask resolves INTEN, which fails once Started is
\* FALSE, then exchanges the shadow and then writes INTEN.
EnableCheck(t) ==
    /\ pc[t] = "check"
    /\ Go(t, IF started THEN "commit" ELSE "deselect")
    /\ result' = [result EXCEPT ![t] = IF started THEN @ ELSE "error"]
    /\ UNCHANGED <<req, regVars, pnpVars, irqVars, dpcVars, dmaVars, signaled,
                   mutex, current, handles, maskVars, pending, history>>

EnableCommit(t) ==
    /\ pc[t] = "commit"
    /\ shadow' = TRUE
    /\ Go(t, "unmask")
    /\ UNCHANGED <<req, result, regVars, pnpVars, irqVars, dpcVars, dmaVars,
                   signaled, mutex, current, handles, inten, pending, history>>

EnableWrite(t) ==
    /\ pc[t] = "unmask"
    /\ inten' = TRUE
    /\ Go(t, "launch")
    /\ UNCHANGED <<req, result, regVars, pnpVars, irqVars, dpcVars, dmaVars,
                   signaled, mutex, current, handles, shadow, pending, history>>

\* IIMCL <- 1, MAMRGO <- launchCount
Launch(t) ==
    /\ pc[t] = "launch"
    /\ engine' = req[t]
    /\ done' = FALSE
    /\ Go(t, "wait")
    /\ UNCHANGED <<req, result, regVars, pnpVars, irqVars, dpcVars, signaled,
                   mutex, current, handles, maskVars, pending, history>>

\* CompletionEvent is a synchronization event: the wait resets it.
WaitCompleted(t) ==
    /\ pc[t] = "wait"
    /\ req[t] \in signaled
    /\ signaled' = signaled \ {req[t]}
    /\ result' = [result EXCEPT ![t] = "ok"]
    /\ Go(t, "disable")
    /\ UNCHANGED <<req, regVars, pnpVars, irqVars, dpcVars, dmaVars, mutex,
                   current, handles, maskVars, pending, history>>

\* The five second wait expires.
WaitTimedOut(t) ==
    /\ pc[t] = "wait"
    /\ req[t] \notin signaled
    /\ timedOut' = TRUE
    /\ result' = [result EXCEPT ![t] = "timeout"]
    /\ Go(t, "disable")
    /\ UNCHANGED <<req, regVars, pnpVars, irqVars, dpcVars, dmaVars, signaled,
                   mutex, current, handles, maskVars, pending, direct, forged,
                   crossed>>

Disable(t) ==
    /\ pc[t] = "disable"
    /\ shadow' = (shadow /\ ~started)
    /\ result' = [result EXCEPT ![t] =
                    IF ~started /\ @ = "ok" THEN "error" ELSE @]
    /\ Go(t, IF started THEN "mask" ELSE "deselect")
    /\ UNCHANGED <<req, regVars, pnpVars, irqVars, dpcVars, dmaVars, signaled,
                   mutex, current, handles, inten, pending, history>>

DisableWrite(t) ==
    /\ pc[t] = "mask"
    /\ inten' = FALSE
    /\ Go(t, "deselect")
    /\ UNCHANGED <<req, result, regVars, pnpVars, irqVars, dpcVars, dmaVars,
                   signaled, mutex, current, handles, shadow, pending, history>>

\* Mutant: CurrentTransfer survives the acquisition.
DeselectForgotten(t) ==
    /\ pc[t] = "deselect"
    /\ Go(t, "iim")
    /\ UNCHANGED <<req, result, regVars, pnpVars, irqVars, dpcVars, dmaVars,
                   signaled, mutex, current, handles, maskVars, pending, history>>

Deselect(t) ==
    /\ pc[t] = "deselect"
    /\ current' = Null
    /\ Go(t, "iim")
    /\ UNCHANGED <<req, result, regVars, pnpVars, irqVars, dpcVars, dmaVars,
                   signaled, mutex, handles, maskVars, pending, history>>

\* IIMCL <- 0 if IIMST bit 0 is set.  Whether that halts a running engine is
\* not known of the hardware: both outcomes are possible.
AcquireEnd(t) ==
    /\ pc[t] = "iim"
    /\ engine' \in {engine, Null}
    /\ done' = FALSE
    /\ mutex' = Null
    /\ req' = [req EXCEPT ![t] = Null]
    /\ result' = [result EXCEPT ![t] = "none"]
    /\ Go(t, "idle")
    /\ UNCHANGED <<regVars, pnpVars, irqVars, dpcVars, signaled, current,
                   handles, maskVars, pending, history>>

-----------------------------------------------------------------------------
(* Hardware, ISR and DPC, for INTST bit 0.                                  *)

DmaCompletes ==
    /\ engine # Null
    /\ done' = TRUE
    /\ engine' = Null
    /\ intst' = TRUE
    /\ UNCHANGED <<reqVars, regVars, pnpVars, queued, isr, dpcVars, signaled,
                   mutex, current, handles, maskVars, pending, history>>

\* The ownership gate of LecInterruptService, and IIMCL <- 0.  The vector is
\* shared and the board has other sources, so the routine may run, and finds
\* bit 0, although INTEN masks it.
IsrAccept ==
    /\ isr = "idle"
    /\ connected /\ started /\ shadow /\ intst
    /\ isr' = "accepted"
    /\ engine' \in {engine, Null}
    /\ UNCHANGED <<reqVars, regVars, pnpVars, intst, queued, dpcVars, done,
                   signaled, mutex, current, handles, maskVars, pending, history>>

IsrPend ==
    /\ isr = "accepted"
    /\ pending' = TRUE
    /\ isr' = "pended"
    /\ UNCHANGED <<reqVars, regVars, pnpVars, intst, queued, dpcVars, dmaVars,
                   signaled, mutex, current, handles, maskVars, history>>

\* Mutant: the ISR leaves the DPC out for bit 0.
IsrNoRequeue ==
    /\ isr = "pended"
    /\ intst' = FALSE
    /\ isr' = "idle"
    /\ UNCHANGED <<reqVars, regVars, pnpVars, queued, dpcVars, dmaVars, signaled,
                   mutex, current, handles, maskVars, pending, history>>

IsrAcknowledge ==
    /\ isr = "pended"
    /\ intst' = FALSE
    /\ queued' = TRUE
    /\ isr' = "idle"
    /\ UNCHANGED <<reqVars, regVars, pnpVars, dpcVars, dmaVars, signaled, mutex,
                   current, handles, maskVars, pending, history>>

DpcStart(c) ==
    /\ queued /\ dpc[c] = "idle"
    /\ queued' = FALSE
    /\ dpc' = [dpc EXCEPT ![c] = "exchange"]
    /\ UNCHANGED <<reqVars, regVars, pnpVars, intst, isr, arg, dmaVars, signaled,
                   mutex, current, handles, maskVars, pending, history>>

\* Mutant: the event is signalled whichever bits were pending.
DpcExchangeAnyBit(c) ==
    /\ dpc[c] = "exchange"
    /\ dpc' = [dpc EXCEPT ![c] = "load"]
    /\ pending' = FALSE
    /\ crossed' = (crossed \/ (c \in Thread /\ pending))
    /\ UNCHANGED <<reqVars, regVars, pnpVars, irqVars, arg, dmaVars, signaled,
                   mutex, current, handles, maskVars, direct, timedOut, forged>>

DpcExchange(c) ==
    /\ dpc[c] = "exchange"
    /\ dpc' = [dpc EXCEPT ![c] = IF pending THEN "load" ELSE "idle"]
    /\ pending' = FALSE
    /\ crossed' = (crossed \/ (c \in Thread /\ pending))
    /\ UNCHANGED <<reqVars, regVars, pnpVars, irqVars, arg, dmaVars, signaled,
                   mutex, current, handles, maskVars, direct, timedOut, forged>>

DpcLoad(c) ==
    /\ dpc[c] = "load"
    /\ arg' = [arg EXCEPT ![c] = current]
    /\ dpc' = [dpc EXCEPT ![c] = IF current = Null THEN "idle" ELSE "signal"]
    /\ UNCHANGED <<reqVars, regVars, pnpVars, irqVars, dmaVars, signaled, mutex,
                   current, handles, maskVars, pending, history>>

DpcSignal(c) ==
    /\ dpc[c] = "signal"
    /\ signaled' = signaled \cup {arg[c]}
    /\ dpc' = [dpc EXCEPT ![c] = "idle"]
    /\ arg' = [arg EXCEPT ![c] = Null]
    /\ UNCHANGED <<reqVars, regVars, pnpVars, irqVars, dmaVars, mutex, current,
                   handles, maskVars, pending, history>>

-----------------------------------------------------------------------------
(* Requests that take no TransferMutex and reach the path of a completion    *)
(* directly: CFDC2400, and the register writes of CFDC2190, SetOneRegister   *)
(* and CFDC21C4.                                                             *)

BeginDirect(t, step) ==
    /\ MayRequest(t)
    /\ direct < DirectMax
    /\ direct' = direct + 1
    /\ Go(t, step)

\* CFDC2400 with bit 0 of its mask set or clear: the mask is ORed into
\* InterruptPendingShadow, then the DPC routine runs on the caller's thread.
InjectPending(t, bit) ==
    /\ BeginDirect(t, "inject")
    /\ pending' = (pending \/ bit)
    /\ forged' = (forged \/ bit)
    /\ dpc' = [dpc EXCEPT ![t] = "exchange"]
    /\ UNCHANGED <<req, result, regVars, pnpVars, irqVars, arg, dmaVars, signaled,
                   mutex, current, handles, maskVars, timedOut, crossed>>

InjectDone(t) ==
    /\ pc[t] = "inject"
    /\ dpc[t] = "idle"
    /\ Go(t, "idle")
    /\ UNCHANGED <<req, result, regVars, pnpVars, irqVars, dpcVars, dmaVars,
                   signaled, mutex, current, handles, maskVars, pending, history>>

\* LecResolveRegister of a request that will write a register.
ResolveRegister(t) ==
    /\ BeginDirect(t, "resolved")
    /\ started
    /\ UNCHANGED <<req, result, regVars, pnpVars, irqVars, dpcVars, dmaVars,
                   signaled, mutex, current, handles, maskVars, pending, timedOut,
                   forged, crossed>>

\* A commit of the mask: bit 0 is what SetOneRegister was given, or what
\* CFDC2190 read in the shadow some time before.
CommitExchange(t, bit) ==
    /\ pc[t] = "resolved"
    /\ shadow' = bit
    /\ crossed' = (crossed \/ ~bit)
    /\ Go(t, IF bit THEN "writeset" ELSE "writeclear")
    /\ UNCHANGED <<req, result, regVars, pnpVars, irqVars, dpcVars, dmaVars,
                   signaled, mutex, current, handles, inten, pending, direct,
                   timedOut, forged>>

CommitWrite(t) ==
    /\ pc[t] \in {"writeset", "writeclear"}
    /\ inten' = (pc[t] = "writeset")
    /\ crossed' = (crossed \/ pc[t] = "writeclear")
    /\ Go(t, "idle")
    /\ UNCHANGED <<req, result, regVars, pnpVars, irqVars, dpcVars, dmaVars,
                   signaled, mutex, current, handles, shadow, pending, direct,
                   timedOut, forged>>

\* INTEN, INTST (written back to acknowledge), or IIMCL and MAMRGO, which halt
\* the engine or start it on the descriptors SGTA names.
WriteRegister(t) ==
    /\ pc[t] = "resolved"
    /\ \/ /\ inten' \in BOOLEAN
          /\ UNCHANGED <<intst, engine, forged>>
       \/ /\ intst' = FALSE
          /\ UNCHANGED <<inten, engine, forged>>
       \/ /\ engine' = Null
          /\ UNCHANGED <<inten, intst, forged>>
       \/ /\ engine' \in Record
          /\ forged' = TRUE
          /\ UNCHANGED <<inten, intst>>
    /\ crossed' = TRUE
    /\ Go(t, "idle")
    /\ UNCHANGED <<req, result, regVars, pnpVars, queued, isr, dpcVars, done,
                   signaled, mutex, current, handles, shadow, pending, direct,
                   timedOut>>

-----------------------------------------------------------------------------
(* PnP start and stop (also surprise removal and remove).                   *)

StartDevice ==
    /\ pnp = "stopped"
    /\ mapped' = TRUE
    /\ started' = TRUE
    /\ pnp' = "connect"
    /\ UNCHANGED <<reqVars, regVars, victim, connected, irqVars, dpcVars,
                   dmaVars, signaled, mutex, current, handles, maskVars, pending,
                   history>>

\* Start succeeds with or without a connected interrupt.
ConnectInterrupt ==
    /\ pnp = "connect"
    /\ connected' \in BOOLEAN
    /\ pnp' = "running"
    /\ UNCHANGED <<reqVars, regVars, started, mapped, victim, irqVars, dpcVars,
                   dmaVars, signaled, mutex, current, handles, maskVars, pending,
                   history>>

StopDevice ==
    /\ pnp = "running"
    /\ started' = FALSE
    /\ pnp' = "disconnect"
    /\ UNCHANGED <<reqVars, regVars, mapped, victim, connected, irqVars, dpcVars,
                   dmaVars, signaled, mutex, current, handles, maskVars, pending,
                   history>>

\* Mutant: the BARs are unmapped before the transfers are released.
DisconnectThenUnmap ==
    /\ pnp = "disconnect"
    /\ isr = "idle"
    /\ connected' = FALSE
    /\ shadow' = (shadow /\ ~connected)
    /\ pending' = (pending /\ ~connected)
    /\ pnp' = "unmap"
    /\ UNCHANGED <<reqVars, regVars, started, mapped, victim, irqVars, dpcVars,
                   dmaVars, signaled, mutex, current, handles, inten, history>>

\* IoDisconnectInterrupt waits for a running ISR; the shadows are reset only
\* when the interrupt was connected.
DisconnectInterrupt ==
    /\ pnp = "disconnect"
    /\ isr = "idle"
    /\ connected' = FALSE
    /\ shadow' = (shadow /\ ~connected)
    /\ pending' = (pending /\ ~connected)
    /\ pnp' = "release"
    /\ UNCHANGED <<reqVars, regVars, started, mapped, victim, irqVars, dpcVars,
                   dmaVars, signaled, mutex, current, handles, inten, history>>

\* One round of LecReleaseAllTransfers.
ReleaseTransfer(r) ==
    /\ pnp = "release"
    /\ mutex = Null
    /\ state[r] = "listed"
    /\ state' = [state EXCEPT ![r] = "unlinked"]
    /\ victim' = r
    /\ current' = Null
    /\ pnp' = "free"
    /\ UNCHANGED <<reqVars, owner, token, nextToken, started, mapped, connected,
                   irqVars, dpcVars, dmaVars, signaled, mutex, handles, maskVars,
                   pending, history>>

FreeReleased ==
    /\ pnp = "free"
    /\ PutBack(victim)
    /\ victim' = Null
    /\ pnp' = "release"
    /\ UNCHANGED <<reqVars, started, mapped, connected,
                   irqVars, dpcVars, dmaVars, signaled, mutex, current, handles,
                   maskVars, pending, history>>

ReleaseDone ==
    /\ pnp = "release"
    /\ mutex = Null
    /\ \A r \in Record : state[r] # "listed"
    /\ current' = Null
    /\ pnp' = "unmap"
    /\ UNCHANGED <<reqVars, regVars, started, mapped, victim, connected, irqVars,
                   dpcVars, dmaVars, signaled, mutex, handles, maskVars, pending,
                   history>>

UnmapBars ==
    /\ pnp = "unmap"
    /\ mapped' = FALSE
    /\ pnp' = "stopped"
    /\ UNCHANGED <<reqVars, regVars, started, victim, connected, irqVars,
                   dpcVars, dmaVars, signaled, mutex, current, handles, maskVars,
                   pending, history>>

-----------------------------------------------------------------------------
Register(t) ==
    \/ \E r \in Record, k \in 0..TokenMax : RegisterPickToken(t, r, k)
    \/ RegisterBuildFails(t)
    \/ RegisterInsert(t)

Unregister(t) ==
    \/ \E k \in 1..TokenMax : UnregisterTransfer(t, k)
    \/ FreeTransfer(t)

CloseHandle(t) ==
    \/ Close(t)
    \/ \E r \in Record : CloseRelease(t, r)
    \/ CloseDone(t)

\* The steps an acquisition takes by itself once it has begun.  An MTT transfer, opcode
\* 0x50 or 0x51 of CFDC2110, takes the same ones under the same mutex
\* (LecExecuteLegacyMttTransferLocked); an acquisition stands for both.
AcquireProgress(t) ==
    \/ ResetEvent(t) \/ ClearPending(t) \/ SelectTransfer(t)
    \/ EnableCheck(t) \/ EnableCommit(t) \/ EnableWrite(t) \/ Launch(t)
    \/ WaitCompleted(t) \/ Disable(t) \/ DisableWrite(t) \/ Deselect(t)
    \/ AcquireEnd(t)

Acquire(t) ==
    \/ \E k \in 1..TokenMax : AcquireBegin(t, k)
    \/ AcquireProgress(t)
    \/ WaitTimedOut(t)

Direct(t) ==
    \/ \E bit \in BOOLEAN : InjectPending(t, bit) \/ CommitExchange(t, bit)
    \/ InjectDone(t) \/ ResolveRegister(t) \/ CommitWrite(t) \/ WriteRegister(t)

Isr == IsrAccept \/ IsrPend \/ IsrAcknowledge
DpcRoutine(c) == DpcExchange(c) \/ DpcLoad(c) \/ DpcSignal(c)
Start == StartDevice \/ ConnectInterrupt
Stop == \/ StopDevice \/ DisconnectInterrupt \/ FreeReleased \/ ReleaseDone
        \/ UnmapBars
        \/ \E r \in Record : ReleaseTransfer(r)

Next ==
    \/ \E t \in TransferThread : \/ Register(t) \/ Unregister(t)
                                \/ CloseHandle(t) \/ Acquire(t)
    \/ \E t \in DirectThread : Direct(t)
    \/ \E p \in Process : Create(p)
    \/ DmaCompletes
    \/ Isr
    \/ \E c \in Cpu : DpcStart(c)
    \/ \E c \in Runner : DpcRoutine(c)
    \/ Start
    \/ Stop

Spec == Init /\ [][Next]_vars

\* A running acquisition thread is scheduled, the engine finishes what it was
\* told to do, an interrupt that INTEN lets through is delivered, a queued DPC
\* and a DPC routine under way run.  Nothing is assumed of clients, of PnP, nor
\* of the timer: no timeout is owed.
Fairness ==
    /\ \A t \in Thread : WF_vars(AcquireProgress(t))
    /\ WF_vars(DmaCompletes)
    /\ WF_vars((isr = "idle" => inten) /\ Isr)
    /\ \A c \in Cpu : WF_vars(DpcStart(c))
    /\ \A c \in Runner : WF_vars(DpcRoutine(c))

FairSpec == Spec /\ Fairness

-----------------------------------------------------------------------------
(* Properties.                                                              *)

\* CurrentTransfer is a registered transfer of the thread that holds
\* TransferMutex: nobody else can unregister, release or replace it, so the
\* DEVICE_BUSY answers of Unregister and CFDC2138 are never needed.
CurrentPinned ==
    current # Null =>
        /\ mutex \in Thread
        /\ pc[mutex] \in AcquirePc
        /\ req[mutex] = current
        /\ state[current] = "listed"

\* A token names one transfer of a process and is not the zero that means none,
\* although the counter wraps and the token is drawn before the transfer is
\* published, with the mutex released in between.
TokensUnique ==
    \A r, s \in Record :
        /\ state[r] = "listed" => token[r] # 0
        /\ /\ state[r] = "listed" /\ state[s] = "listed"
           /\ owner[r] = owner[s] /\ token[r] = token[s]
           => r = s

\* After the last close has run, nothing of the process remains registered,
\* although a close skips a transfer that is in use.
ClosedHoldsNothing ==
    \A r \in Record :
        state[r] = "listed" =>
            \/ handles[owner[r]] > 0
            \/ \E t \in Thread : ProcessOf[t] = owner[r] /\ pc[t] \in ClosePc

\* Whoever is about to use a register pointer it resolved earlier (the
\* acquisition under the mutex, the ISR while it is connected) finds the BARs
\* mapped: stop unmaps only after disconnecting and after taking the mutex.
MmioMapped ==
    /\ \A t \in Thread : pc[t] \in AcquirePc => mapped
    /\ isr # "idle" => mapped

\* Whoever runs the DPC routine signals a registered transfer, and the DMA engine
\* runs only on a registered transfer's descriptors, until a first acquisition
\* times out or a client injects a completion or starts the engine itself.
NoDanglingUse ==
    ~timedOut /\ ~forged =>
        /\ \A c \in Runner : arg[c] # Null => state[arg[c]] = "listed"
        /\ engine # Null => state[engine] = "listed"

\* A successful acquisition's DMA has finished, until a first one times out or a
\* client injects a completion or starts the engine itself; masks without bit 0,
\* commits and other register writes of clients do not break it.
CompletionGenuine ==
    \A t \in Thread :
        pc[t] \in {"disable", "mask", "deselect", "iim"} /\ result[t] = "ok"
            => done \/ timedOut \/ forged

\* The interrupt path loses no completion: until a first acquisition times out or
\* a client forges a completion or a launch, an acquisition that is waiting
\* finishes without help of its timeout, unless the interrupt goes away or a
\* client has meanwhile cleared bit 0 of INTEN or of its shadow, written INTST
\* or the engine's registers, or run the DPC routine over a pending bit 0.
CompletionDelivered ==
    \A t \in Thread :
        pc[t] = "wait" ~>
            \/ pc[t] # "wait" \/ timedOut \/ forged
            \/ ~connected \/ ~started \/ crossed

-----------------------------------------------------------------------------
(* A claim of the repository that the code does not keep.                   *)

\* docs/runtime-trace.md:2649: CFDC2138 waits for INTST bit 0 of the transfer
\* it launched, so success means that this DMA has finished.
SuccessMeansDone ==
    \A t \in Thread :
        pc[t] \in {"disable", "mask", "deselect", "iim"} /\ result[t] = "ok" => done
=============================================================================
