----------------------------- MODULE Lifecycle -----------------------------
(***************************************************************************)
(* The device object between AddDevice and IRP_MN_REMOVE_DEVICE: what      *)
(* START acquires step by step, what a START that fails gives back, and    *)
(* the order in which STOP, SURPRISE_REMOVAL and REMOVE take it down while *)
(* handles are open.  The PnP manager sends one of them at a time.         *)
(***************************************************************************)
EXTENDS Integers, Sequences, FiniteSets

CONSTANTS
    Interfaces,    \* device interfaces, five in the code
    ResourceLists  \* translated resources: sequences of kind and length

Bars == 0..2

\* Where the registers that START needs end: START, ITMODE and ONEWIRE.
NeededLength == [b \in Bars |-> CASE b = 0 -> 16 [] b = 1 -> 4 [] b = 2 -> 68]

\* Windows assigns no empty range of memory; the length of an interrupt is its vector.
Resource == {r \in [kind : {"memory", "interrupt", "other"}, length : Nat] :
                r.kind = "memory" => r.length > 0}

ASSUME ResourcesAssumption == ResourceLists \subseteq Seq(Resource)

VARIABLES
    pnp,           \* the PnP manager's view of the device
    lcPc,          \* the step of the IRP that is handled
    resources,     \* resources that START has not looked at yet
    bar,           \* Bar and BarLength: 0 is no mapping
    memoryIndex,
    mappings,      \* kernel: mappings of MmMapIoSpace that exist
    probeWrites,   \* register writes of the probe that are to be made
    probeOk,       \* bit 0 of START was set
    boardRegs,     \* board: START, ITMODE and BUZZER
    vector, connected,     \* InterruptVector, InterruptConnected
    started, removed,      \* Started, Removed
    registered, enabled,   \* InterfaceRegistered, InterfaceEnabled
    handles,       \* open handles
    held           \* references to events and registered transfers

lcIrp    == <<resources, memoryIndex, probeWrites, probeOk, boardRegs>>
lcMap    == <<bar, mappings>>
lcIrq    == <<vector, connected>>
lcFlags  == <<started, removed>>
lcLinks  == <<registered, enabled>>
lcUser   == <<handles, held>>
lcVars   == <<pnp, lcPc, lcIrp, lcMap, lcIrq, lcFlags, lcLinks, lcUser>>

LcInit ==
    /\ pnp = "absent" /\ lcPc = "idle"
    /\ resources = <<>> /\ memoryIndex = 0 /\ probeWrites = <<>> /\ probeOk = FALSE
    /\ boardRegs = [start |-> 0, itmode |-> 0, buzzer |-> 0]
    /\ bar = [b \in Bars |-> 0] /\ mappings = 0
    /\ vector = 0 /\ connected = FALSE
    /\ started = FALSE /\ removed = FALSE
    /\ registered = {} /\ enabled = {}
    /\ handles = 0 /\ held = {}

-----------------------------------------------------------------------------
\* LecS65AddDevice; an interface whose registration fails is left out.
AddDevice ==
    /\ pnp = "absent" /\ lcPc = "idle"
    /\ \/ pnp' = "added" /\ registered' \in SUBSET Interfaces
       \/ pnp' = "refused" /\ UNCHANGED registered
    /\ UNCHANGED <<lcPc, lcIrp, lcMap, lcIrq, lcFlags, enabled, lcUser>>

Mapped == {b \in Bars : bar[b] # 0}

\* LecUnmapBars
Unmap ==
    /\ bar' = [b \in Bars |-> 0]
    /\ mappings' = mappings - Cardinality(Mapped)

-----------------------------------------------------------------------------
(* START_DEVICE.                                                            *)

\* The bus driver starts the device first, and completes the IRP at once or later.
StartLower ==
    /\ lcPc = "idle" /\ pnp \in {"added", "stopped"}
    /\ lcPc' = "lower"
    /\ UNCHANGED <<pnp, lcIrp, lcMap, lcIrq, lcFlags, lcLinks, lcUser>>

StartEnds(state) == lcPc' = "idle" /\ pnp' = state

LowerStarted ==
    /\ lcPc = "lower"
    /\ \/ /\ StartEnds("failed")
          /\ UNCHANGED <<lcIrp, lcMap>>
       \/ /\ Unmap
          /\ \E list \in ResourceLists : resources' = list
          /\ memoryIndex' = 0 /\ lcPc' = "map"
          /\ UNCHANGED <<pnp, probeWrites, probeOk, boardRegs>>
    /\ UNCHANGED <<lcIrq, lcFlags, lcLinks, lcUser>>

\* Mutant: what was mapped before stays.
GiveBackKeeps == UNCHANGED lcMap

\* What a failure of START gives back.
GiveBack == Unmap

\* The memory resources are the BARs in their order; one too many is mapped and unmapped.
MapMemory ==
    /\ lcPc = "map" /\ resources # <<>> /\ resources[1].kind = "memory"
    /\ \/ /\ GiveBack /\ StartEnds("failed") /\ resources' = <<>>
          /\ UNCHANGED memoryIndex
       \/ /\ IF memoryIndex < 3
             THEN /\ bar' = [bar EXCEPT ![memoryIndex] = resources[1].length]
                  /\ mappings' = mappings + 1
                  /\ memoryIndex' = memoryIndex + 1
             ELSE UNCHANGED <<lcMap, memoryIndex>>
          /\ resources' = Tail(resources)
          /\ UNCHANGED <<pnp, lcPc>>
    /\ UNCHANGED <<probeWrites, probeOk, boardRegs, lcIrq, lcFlags, lcLinks, lcUser>>

TakeOther ==
    /\ lcPc = "map" /\ resources # <<>> /\ resources[1].kind # "memory"
    /\ vector' = IF resources[1].kind = "interrupt" THEN resources[1].length ELSE vector
    /\ resources' = Tail(resources)
    /\ UNCHANGED <<pnp, lcPc, memoryIndex, probeWrites, probeOk, boardRegs, lcMap,
                   connected, lcFlags, lcLinks, lcUser>>

LongEnough == \A b \in Bars : bar[b] >= NeededLength[b]

\* Three BARs that are long enough, or START fails.  The probe writes START.
CheckBars ==
    /\ lcPc = "map" /\ resources = <<>>
    /\ \/ /\ memoryIndex < 3 \/ ~LongEnough
          /\ GiveBack /\ StartEnds("failed")
          /\ UNCHANGED boardRegs
       \/ /\ memoryIndex = 3 /\ LongEnough
          /\ boardRegs' = [boardRegs EXCEPT !.start = 1]
          /\ lcPc' = "readStart"
          /\ UNCHANGED <<pnp, lcMap>>
    /\ UNCHANGED <<resources, memoryIndex, probeWrites, probeOk, lcIrq, lcFlags, lcLinks,
                   lcUser>>

Buzz == <<<<"buzzer", 1>>, <<"buzzer", 0>>>>

\* The board answers with bit 0 of START.
ReadStart ==
    /\ lcPc = "readStart"
    /\ probeOk' \in BOOLEAN
    /\ probeWrites' = IF probeOk'
                      THEN Buzz \o <<<<"itmode", 7>>>> \o Buzz \o <<<<"itmode", 3>>>>
                      ELSE Buzz
    /\ lcPc' = "probe"
    /\ UNCHANGED <<pnp, resources, memoryIndex, boardRegs, lcMap, lcIrq, lcFlags, lcLinks,
                   lcUser>>

ProbeWrite ==
    /\ lcPc = "probe" /\ probeWrites # <<>>
    /\ boardRegs' = [boardRegs EXCEPT ![probeWrites[1][1]] = probeWrites[1][2]]
    /\ probeWrites' = Tail(probeWrites)
    /\ UNCHANGED <<pnp, lcPc, resources, memoryIndex, probeOk, lcMap, lcIrq, lcFlags,
                   lcLinks, lcUser>>

ProbeEnds ==
    /\ lcPc = "probe" /\ probeWrites = <<>>
    /\ \/ /\ ~probeOk
          /\ GiveBack /\ StartEnds("failed")
          /\ UNCHANGED started
       \/ /\ probeOk
          /\ started' = TRUE /\ lcPc' = "connect"
          /\ UNCHANGED <<pnp, lcMap>>
    /\ UNCHANGED <<lcIrp, lcIrq, removed, lcLinks, lcUser>>

\* LecConnectInterrupt: START goes on without an interrupt.
Connect ==
    /\ lcPc = "connect"
    /\ connected' \in IF connected THEN {TRUE} ELSE {FALSE, vector # 0}
    /\ lcPc' = "enable"
    /\ UNCHANGED <<pnp, lcIrp, lcMap, vector, lcFlags, lcLinks, lcUser>>

\* LecEnableInterfaces: one that cannot be enabled is left out.
EnableInterfaces ==
    /\ lcPc = "enable"
    /\ \E more \in SUBSET registered : enabled' = enabled \cup more
    /\ StartEnds("started")
    /\ UNCHANGED <<lcIrp, lcMap, lcIrq, lcFlags, registered, lcUser>>

-----------------------------------------------------------------------------
(* STOP_DEVICE, SURPRISE_REMOVAL and REMOVE_DEVICE.                         *)

\* REMOVE waits for the handles.
TakeDown(irp) ==
    /\ lcPc = "idle"
    /\ CASE irp = "stopped"   -> pnp = "started"
         [] irp = "surprised" -> pnp \in {"started", "stopped", "failed"}
         [] irp = "gone"      -> pnp \notin {"absent", "refused", "deleted"} /\ handles = 0
    /\ pnp' = irp
    /\ started' = FALSE /\ removed' = (removed \/ irp = "gone")
    /\ lcPc' = "disable"
    /\ UNCHANGED <<lcIrp, lcMap, lcIrq, lcLinks, lcUser>>

DisableInterfaces ==
    /\ lcPc = "disable"
    /\ enabled' = {}
    /\ lcPc' = "disconnect"
    /\ UNCHANGED <<pnp, lcIrp, lcMap, lcIrq, lcFlags, registered, lcUser>>

Disconnect ==
    /\ lcPc = "disconnect"
    /\ connected' = FALSE
    /\ lcPc' = "events"
    /\ UNCHANGED <<pnp, lcIrp, lcMap, vector, lcFlags, lcLinks, lcUser>>

\* LecReleaseLegacyEvents, LecReleaseAllTransfers
Release(what, from, to) ==
    /\ lcPc = from
    /\ held' = held \ {what}
    /\ lcPc' = to
    /\ UNCHANGED <<pnp, lcIrp, lcMap, lcIrq, lcFlags, lcLinks, handles>>

\* The bars go; then the bus driver, and for REMOVE the links and the device object.
UnmapAll ==
    /\ lcPc = "unmap"
    /\ Unmap
    /\ lcPc' = IF pnp = "gone" THEN "delete" ELSE "idle"
    /\ UNCHANGED <<pnp, lcIrp, lcIrq, lcFlags, lcLinks, lcUser>>

DeleteDevice ==
    /\ lcPc = "delete"
    /\ registered' = {}
    /\ pnp' = "deleted" /\ lcPc' = "idle"
    /\ UNCHANGED <<lcIrp, lcMap, lcIrq, lcFlags, enabled, lcUser>>

-----------------------------------------------------------------------------
(* Users.  CFDC2180 and CFDC2124 do not ask whether the device is started.  *)

Exists == pnp \notin {"absent", "refused", "deleted"}

\* LecS65Create refuses what comes once REMOVE has begun.
Create ==
    /\ Exists /\ ~removed /\ handles = 0
    /\ handles' = 1
    /\ UNCHANGED <<pnp, lcPc, lcIrp, lcMap, lcIrq, lcFlags, lcLinks, held>>

\* An event or a transfer is registered.
Hold(what) ==
    /\ handles = 1 /\ what \notin held
    /\ held' = held \cup {what}
    /\ UNCHANGED <<pnp, lcPc, lcIrp, lcMap, lcIrq, lcFlags, lcLinks, handles>>

\* LecS65Close releases the transfers of the process, and leaves the events.
Close ==
    /\ handles = 1
    /\ handles' = 0 /\ held' = held \ {"transfers"}
    /\ UNCHANGED <<pnp, lcPc, lcIrp, lcMap, lcIrq, lcFlags, lcLinks>>

LcStart ==
    \/ StartLower \/ LowerStarted \/ MapMemory \/ TakeOther \/ CheckBars
    \/ ReadStart \/ ProbeWrite \/ ProbeEnds \/ Connect \/ EnableInterfaces
LcTakeDown ==
    \/ \E irp \in {"stopped", "surprised", "gone"} : TakeDown(irp)
    \/ DisableInterfaces \/ Disconnect
    \/ Release("events", "events", "transfers")
    \/ Release("transfers", "transfers", "unmap")
    \/ UnmapAll \/ DeleteDevice
LcUsers == Create \/ Close \/ \E what \in {"events", "transfers"} : Hold(what)

LcNext == AddDevice \/ LcStart \/ LcTakeDown \/ LcUsers

-----------------------------------------------------------------------------
(* Properties.                                                              *)

\* In every order of START, STOP, SURPRISE_REMOVAL, REMOVE and calls of users, and
\* wherever START fails: the kernel's mappings are those the extension knows, so none is
\* lost or unmapped twice; the interrupt service routine and whoever comes through an
\* interface find every BAR mapped and long enough; the buzzer is left silent; a device
\* that is not started holds nothing of the hardware, and one that is deleted nothing.
ResourcesOwned ==
    /\ mappings = Cardinality(Mapped)
    /\ connected \/ started => LongEnough
    /\ lcPc = "idle" /\ enabled # {} => started /\ LongEnough
    /\ lcPc = "idle" => boardRegs.buzzer = 0
    /\ lcPc = "idle" /\ pnp = "started" => boardRegs.itmode = 3
    /\ lcPc = "idle" /\ pnp # "started" =>
          Mapped = {} /\ ~connected /\ ~started /\ enabled = {}
    /\ pnp = "deleted" => held = {} /\ registered = {} /\ handles = 0
=============================================================================
