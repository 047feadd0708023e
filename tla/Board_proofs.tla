---------------------------- MODULE Board_proofs ----------------------------
(* Proofs about parts of the driver that share no state with one another:   *)
(* the start and removal of the device, the embedded timer, the commands of *)
(* the SPI controller, the cache of the MAM, the descriptor table and the   *)
(* one-wire bus.  They share lemmas about sequences and numbers.            *)
EXTENDS LegacyTimer, Lifecycle, SpiCommand, MamCache, DescriptorTable, OneWire, Induction,
        FiniteSetTheorems, TLAPS

-----------------------------------------------------------------------------
(* Lifecycle.  Where the handler of an IRP is says what it has done.        *)

LcSpec == LcInit /\ [][LcNext]_lcVars

Starting == {"lower", "map", "readStart", "probe", "connect", "enable"}
TakingDown == {"disable", "disconnect", "events", "transfers", "unmap", "delete"}
PnpStates == {"absent", "refused", "added", "started", "stopped", "failed", "surprised",
              "gone", "deleted"}
ProbeWrites == ({"buzzer"} \X {0, 1}) \cup ({"itmode"} \X {3, 7})

LcTypeOK ==
    /\ pnp \in PnpStates
    /\ lcPc \in Starting \cup TakingDown \cup {"idle"}
    /\ resources \in Seq(Resource)
    /\ bar \in [Bars -> Nat]
    /\ memoryIndex \in 0..3
    /\ mappings = Cardinality(Mapped)
    /\ probeWrites \in Seq(ProbeWrites) /\ probeOk \in BOOLEAN
    /\ boardRegs \in [start : {0, 1}, itmode : {0, 3, 7}, buzzer : {0, 1}]
    /\ handles \in 0..1
    /\ held \subseteq {"events", "transfers"}

\* Which IRP is handled, and that REMOVE has waited for the handles.
LcPlace ==
    /\ lcPc \in Starting => pnp \in {"added", "stopped"}
    /\ lcPc \in TakingDown => pnp \in {"stopped", "surprised", "gone"}
    /\ pnp = "gone" => lcPc \in TakingDown
    /\ lcPc = "delete" => pnp = "gone"
    /\ pnp \in {"gone", "deleted"} => removed /\ handles = 0
    /\ pnp = "gone" /\ lcPc \in {"transfers", "unmap", "delete"} => "events" \notin held
    /\ pnp = "gone" /\ lcPc \in {"unmap", "delete"} => "transfers" \notin held
    /\ pnp = "deleted" => held = {} /\ registered = {}

NothingMapped == \A b \in Bars : bar[b] = 0

\* The BARs are mapped in their order, and unmapped where START fails or the device stops.
LcBars ==
    /\ lcPc \in {"lower", "delete"} => NothingMapped
    /\ lcPc = "idle" /\ pnp # "started" => NothingMapped
    /\ lcPc = "map" => \A b \in Bars : b >= memoryIndex => bar[b] = 0
    /\ started \/ connected \/ lcPc \in {"readStart", "probe", "connect", "enable"} => LongEnough

\* What is connected, started and enabled at each step.
LcLinked ==
    /\ started <=> lcPc \in {"connect", "enable"} \/ (lcPc = "idle" /\ pnp = "started")
    /\ connected => lcPc \in {"enable", "disable", "disconnect"}
                    \/ (lcPc = "idle" /\ pnp = "started")
    /\ enabled # {} => lcPc = "disable" \/ (lcPc = "idle" /\ pnp = "started")

\* What is left of the probe ends with a silent buzzer and, if the board has answered, with
\* the interrupt mode.
LcProbe ==
    /\ lcPc # "probe" => boardRegs.buzzer = 0
    /\ lcPc \in {"connect", "enable"} \/ (lcPc = "idle" /\ pnp = "started") =>
          boardRegs.itmode = 3
    /\ lcPc = "probe" /\ probeWrites = <<>> =>
          boardRegs.buzzer = 0 /\ (probeOk => boardRegs.itmode = 3)
    /\ lcPc = "probe" /\ probeWrites # <<>> /\ probeOk =>
          /\ probeWrites[Len(probeWrites)] = <<"itmode", 3>>
          /\ Len(probeWrites) > 1 => probeWrites[Len(probeWrites) - 1] = <<"buzzer", 0>>
          /\ Len(probeWrites) = 1 => boardRegs.buzzer = 0
    /\ lcPc = "probe" /\ probeWrites # <<>> /\ ~probeOk =>
          probeWrites[Len(probeWrites)] = <<"buzzer", 0>>

LcInv == LcTypeOK /\ LcPlace /\ LcBars /\ LcLinked /\ LcProbe

-----------------------------------------------------------------------------
LEMMA LcInitially == LcInit => LcInv
<1>. SUFFICES ASSUME LcInit PROVE LcInv
  OBVIOUS
<1>1. Mapped = {} /\ Cardinality(Mapped) = 0
  BY FS_EmptySet DEF LcInit, Mapped
<1>2. LcTypeOK
  <2>1. resources \in Seq(Resource) /\ probeWrites \in Seq(ProbeWrites)
    BY DEF LcInit
  <2>2. mappings = Cardinality(Mapped)
    BY <1>1 DEF LcInit
  <2>3. boardRegs \in [start : {0, 1}, itmode : {0, 3, 7}, buzzer : {0, 1}]
    BY DEF LcInit
  <2>4. pnp \in PnpStates /\ lcPc \in Starting \cup TakingDown \cup {"idle"}
    BY DEF LcInit, PnpStates
  <2>5. bar \in [Bars -> Nat]
    BY DEF LcInit
  <2>6. probeOk \in BOOLEAN
    BY DEF LcInit
  <2>7. memoryIndex \in 0..3 /\ handles \in 0..1 /\ held \subseteq {"events", "transfers"}
    BY DEF LcInit
  <2>. QED
    BY <2>1, <2>2, <2>3, <2>4, <2>5, <2>6, <2>7 DEF LcTypeOK
<1>3. LcPlace /\ LcBars /\ LcLinked /\ LcProbe
  BY DEF LcInit, LcPlace, LcBars, LcLinked, LcProbe, NothingMapped, Starting, TakingDown
<1>. QED
  BY <1>2, <1>3 DEF LcInv

\* A step that does not touch the mappings keeps their count, and unmapping all ends them.
LEMMA UnmapEnds ==
    ASSUME LcTypeOK, Unmap
    PROVE  mappings' = Cardinality(Mapped') /\ bar' \in [Bars -> Nat] /\ NothingMapped'
<1>1. Mapped' = {}
  BY DEF Unmap, Mapped
<1>2. Cardinality(Mapped') = 0
  BY <1>1, FS_EmptySet
<1>3. mappings' = 0
  <2>1. IsFiniteSet(Bars)
    BY FS_Interval, 0 \in Int, 2 \in Int DEF Bars
  <2>2. Cardinality(Mapped) \in Nat
    BY <2>1, FS_Subset, FS_CardinalityType DEF Mapped
  <2>. QED
    BY <2>2 DEF Unmap, LcTypeOK
<1>4. bar' \in [Bars -> Nat] /\ NothingMapped'
  BY DEF Unmap, NothingMapped
<1>. QED
  BY <1>2, <1>3, <1>4

LEMMA MappingAdds ==
    ASSUME LcTypeOK, NEW b \in Bars, NEW n \in Nat \ {0}, bar[b] = 0,
           bar' = [bar EXCEPT ![b] = n], mappings' = mappings + 1
    PROVE  mappings' = Cardinality(Mapped') /\ bar' \in [Bars -> Nat]
<1>1. IsFiniteSet(Mapped)
  <2>1. IsFiniteSet(Bars)
    BY FS_Interval, 0 \in Int, 2 \in Int DEF Bars
  <2>. QED
    BY <2>1, FS_Subset DEF Mapped
<1>2. b \notin Mapped /\ Mapped' = Mapped \cup {b}
  BY DEF LcTypeOK, Mapped
<1>3. Cardinality(Mapped') = Cardinality(Mapped) + 1
  BY <1>1, <1>2, FS_AddElement
<1>4. bar' \in [Bars -> Nat]
  BY DEF LcTypeOK
<1>. QED
  BY <1>3, <1>4 DEF LcTypeOK

LEMMA MappingsStay ==
    ASSUME LcTypeOK, UNCHANGED lcMap
    PROVE  mappings' = Cardinality(Mapped') /\ bar' \in [Bars -> Nat]
<1>1. Mapped' = Mapped /\ mappings' = mappings /\ bar' = bar
  BY DEF lcMap, Mapped
<1>. QED
  BY <1>1 DEF LcTypeOK

LEMMA LcAddDeviceKeeps ==
    ASSUME LcInv, AddDevice
    PROVE  LcInv'
<1>. USE DEF LcInv, AddDevice, lcIrp, lcMap, lcIrq, lcFlags, lcLinks, lcUser
<1>1. LcTypeOK'
  <2>1. mappings' = Cardinality(Mapped') /\ bar' \in [Bars -> Nat]
    BY MappingsStay
  <2>. QED
    BY <2>1 DEF LcTypeOK, PnpStates, Starting, TakingDown
<1>2. LcPlace' /\ LcLinked'
  BY DEF LcPlace, LcLinked, LcTypeOK, PnpStates, Starting, TakingDown
<1>3. LcBars' /\ LcProbe'
  BY DEF LcBars, LcProbe, LcTypeOK, LcPlace, LcLinked, NothingMapped, LongEnough, Starting,
         TakingDown
<1>. QED
  BY <1>1, <1>2, <1>3

LEMMA LcStartLowerKeeps ==
    ASSUME LcInv, StartLower
    PROVE  LcInv'
<1>. USE DEF LcInv, StartLower, lcIrp, lcMap, lcIrq, lcFlags, lcLinks, lcUser
<1>1. LcTypeOK'
  <2>1. mappings' = Cardinality(Mapped') /\ bar' \in [Bars -> Nat]
    BY MappingsStay
  <2>. QED
    BY <2>1 DEF LcTypeOK, PnpStates, Starting, TakingDown
<1>2. LcPlace' /\ LcLinked'
  BY DEF LcPlace, LcLinked, LcTypeOK, PnpStates, Starting, TakingDown
<1>3. LcBars' /\ LcProbe'
  BY DEF LcBars, LcProbe, LcTypeOK, LcPlace, LcLinked, NothingMapped, LongEnough, Starting,
         TakingDown
<1>. QED
  BY <1>1, <1>2, <1>3

LEMMA LcTakeOtherKeeps ==
    ASSUME LcInv, TakeOther
    PROVE  LcInv'
<1>. USE DEF LcInv, TakeOther, lcIrp, lcMap, lcIrq, lcFlags, lcLinks, lcUser
<1>1. LcTypeOK'
  <2>1. mappings' = Cardinality(Mapped') /\ bar' \in [Bars -> Nat]
    BY MappingsStay
  <2>. QED
    BY <2>1 DEF LcTypeOK, PnpStates, Starting, TakingDown
<1>2. LcPlace' /\ LcLinked'
  BY DEF LcPlace, LcLinked, LcTypeOK, PnpStates, Starting, TakingDown
<1>3. LcBars' /\ LcProbe'
  BY DEF LcBars, LcProbe, LcTypeOK, LcPlace, LcLinked, NothingMapped, LongEnough, Starting,
         TakingDown
<1>. QED
  BY <1>1, <1>2, <1>3

LEMMA LcConnectKeeps ==
    ASSUME LcInv, Connect
    PROVE  LcInv'
<1>. USE DEF LcInv, Connect, lcIrp, lcMap, lcIrq, lcFlags, lcLinks, lcUser
<1>1. LcTypeOK'
  <2>1. mappings' = Cardinality(Mapped') /\ bar' \in [Bars -> Nat]
    BY MappingsStay
  <2>. QED
    BY <2>1 DEF LcTypeOK, PnpStates, Starting, TakingDown
<1>2. LcPlace' /\ LcLinked'
  BY DEF LcPlace, LcLinked, LcTypeOK, PnpStates, Starting, TakingDown
<1>3. LcBars' /\ LcProbe'
  BY DEF LcBars, LcProbe, LcTypeOK, LcPlace, LcLinked, NothingMapped, LongEnough, Starting,
         TakingDown
<1>. QED
  BY <1>1, <1>2, <1>3

LEMMA LcEnableInterfacesKeeps ==
    ASSUME LcInv, EnableInterfaces
    PROVE  LcInv'
<1>. USE DEF LcInv, EnableInterfaces, StartEnds, lcIrp, lcMap, lcIrq, lcFlags, lcLinks, lcUser
<1>1. LcTypeOK'
  <2>1. mappings' = Cardinality(Mapped') /\ bar' \in [Bars -> Nat]
    BY MappingsStay
  <2>. QED
    BY <2>1 DEF LcTypeOK, PnpStates, Starting, TakingDown
<1>2. LcPlace' /\ LcLinked'
  BY DEF LcPlace, LcLinked, LcTypeOK, PnpStates, Starting, TakingDown
<1>3. LcBars' /\ LcProbe'
  BY DEF LcBars, LcProbe, LcTypeOK, LcPlace, LcLinked, NothingMapped, LongEnough, Starting,
         TakingDown
<1>. QED
  BY <1>1, <1>2, <1>3

LEMMA LcDisableInterfacesKeeps ==
    ASSUME LcInv, DisableInterfaces
    PROVE  LcInv'
<1>. USE DEF LcInv, DisableInterfaces, lcIrp, lcMap, lcIrq, lcFlags, lcLinks, lcUser
<1>1. LcTypeOK'
  <2>1. mappings' = Cardinality(Mapped') /\ bar' \in [Bars -> Nat]
    BY MappingsStay
  <2>. QED
    BY <2>1 DEF LcTypeOK, PnpStates, Starting, TakingDown
<1>2. LcPlace' /\ LcLinked'
  BY DEF LcPlace, LcLinked, LcTypeOK, PnpStates, Starting, TakingDown
<1>3. LcBars' /\ LcProbe'
  BY DEF LcBars, LcProbe, LcTypeOK, LcPlace, LcLinked, NothingMapped, LongEnough, Starting,
         TakingDown
<1>. QED
  BY <1>1, <1>2, <1>3

LEMMA LcDisconnectKeeps ==
    ASSUME LcInv, Disconnect
    PROVE  LcInv'
<1>. USE DEF LcInv, Disconnect, lcIrp, lcMap, lcIrq, lcFlags, lcLinks, lcUser
<1>1. LcTypeOK'
  <2>1. mappings' = Cardinality(Mapped') /\ bar' \in [Bars -> Nat]
    BY MappingsStay
  <2>. QED
    BY <2>1 DEF LcTypeOK, PnpStates, Starting, TakingDown
<1>2. LcPlace' /\ LcLinked'
  BY DEF LcPlace, LcLinked, LcTypeOK, PnpStates, Starting, TakingDown
<1>3. LcBars' /\ LcProbe'
  BY DEF LcBars, LcProbe, LcTypeOK, LcPlace, LcLinked, NothingMapped, LongEnough, Starting,
         TakingDown
<1>. QED
  BY <1>1, <1>2, <1>3

LEMMA LcDeleteDeviceKeeps ==
    ASSUME LcInv, DeleteDevice
    PROVE  LcInv'
<1>. USE DEF LcInv, DeleteDevice, lcIrp, lcMap, lcIrq, lcFlags, lcLinks, lcUser
<1>1. LcTypeOK'
  <2>1. mappings' = Cardinality(Mapped') /\ bar' \in [Bars -> Nat]
    BY MappingsStay
  <2>. QED
    BY <2>1 DEF LcTypeOK, PnpStates, Starting, TakingDown
<1>2. LcPlace' /\ LcLinked'
  BY DEF LcPlace, LcLinked, LcTypeOK, PnpStates, Starting, TakingDown
<1>3. LcBars' /\ LcProbe'
  BY DEF LcBars, LcProbe, LcTypeOK, LcPlace, LcLinked, NothingMapped, LongEnough, Starting,
         TakingDown
<1>. QED
  BY <1>1, <1>2, <1>3

LEMMA LcCreateKeeps ==
    ASSUME LcInv, Create
    PROVE  LcInv'
<1>. USE DEF LcInv, Create, Exists, lcIrp, lcMap, lcIrq, lcFlags, lcLinks, lcUser
<1>1. LcTypeOK'
  <2>1. mappings' = Cardinality(Mapped') /\ bar' \in [Bars -> Nat]
    BY MappingsStay
  <2>. QED
    BY <2>1 DEF LcTypeOK, PnpStates, Starting, TakingDown
<1>2. LcPlace' /\ LcLinked'
  BY DEF LcPlace, LcLinked, LcTypeOK, PnpStates, Starting, TakingDown
<1>3. LcBars' /\ LcProbe'
  BY DEF LcBars, LcProbe, LcTypeOK, LcPlace, LcLinked, NothingMapped, LongEnough, Starting,
         TakingDown
<1>. QED
  BY <1>1, <1>2, <1>3

LEMMA LcCloseKeeps ==
    ASSUME LcInv, Close
    PROVE  LcInv'
<1>. USE DEF LcInv, Close, lcIrp, lcMap, lcIrq, lcFlags, lcLinks, lcUser
<1>1. LcTypeOK'
  <2>1. mappings' = Cardinality(Mapped') /\ bar' \in [Bars -> Nat]
    BY MappingsStay
  <2>. QED
    BY <2>1 DEF LcTypeOK, PnpStates, Starting, TakingDown
<1>2. LcPlace' /\ LcLinked'
  BY DEF LcPlace, LcLinked, LcTypeOK, PnpStates, Starting, TakingDown
<1>3. LcBars' /\ LcProbe'
  BY DEF LcBars, LcProbe, LcTypeOK, LcPlace, LcLinked, NothingMapped, LongEnough, Starting,
         TakingDown
<1>. QED
  BY <1>1, <1>2, <1>3

LEMMA LcTakeDownKeeps ==
    ASSUME LcInv, NEW irp \in {"stopped", "surprised", "gone"}, TakeDown(irp)
    PROVE  LcInv'
<1>. USE DEF LcInv, TakeDown, lcIrp, lcMap, lcIrq, lcFlags, lcLinks, lcUser
<1>1. LcTypeOK'
  <2>1. mappings' = Cardinality(Mapped') /\ bar' \in [Bars -> Nat]
    BY MappingsStay
  <2>. QED
    BY <2>1 DEF LcTypeOK, PnpStates, Starting, TakingDown
<1>2. LcPlace' /\ LcLinked'
  BY DEF LcPlace, LcLinked, LcTypeOK, PnpStates, Starting, TakingDown
<1>3. LcBars' /\ LcProbe'
  BY DEF LcBars, LcProbe, LcTypeOK, LcPlace, LcLinked, NothingMapped, LongEnough, Starting,
         TakingDown
<1>. QED
  BY <1>1, <1>2, <1>3

LEMMA LcHoldKeeps ==
    ASSUME LcInv, NEW what \in {"events", "transfers"}, Hold(what)
    PROVE  LcInv'
<1>. USE DEF LcInv, Hold, lcIrp, lcMap, lcIrq, lcFlags, lcLinks, lcUser
<1>1. LcTypeOK'
  <2>1. mappings' = Cardinality(Mapped') /\ bar' \in [Bars -> Nat]
    BY MappingsStay
  <2>. QED
    BY <2>1 DEF LcTypeOK, PnpStates, Starting, TakingDown
<1>2. LcPlace' /\ LcLinked'
  BY DEF LcPlace, LcLinked, LcTypeOK, PnpStates, Starting, TakingDown
<1>3. LcBars' /\ LcProbe'
  BY DEF LcBars, LcProbe, LcTypeOK, LcPlace, LcLinked, NothingMapped, LongEnough, Starting,
         TakingDown
<1>. QED
  BY <1>1, <1>2, <1>3

LEMMA LcReleaseEventsKeeps ==
    ASSUME LcInv, Release("events", "events", "transfers")
    PROVE  LcInv'
<1>. USE DEF LcInv, Release, lcIrp, lcMap, lcIrq, lcFlags, lcLinks, lcUser
<1>1. LcTypeOK'
  <2>1. mappings' = Cardinality(Mapped') /\ bar' \in [Bars -> Nat]
    BY MappingsStay
  <2>. QED
    BY <2>1 DEF LcTypeOK, PnpStates, Starting, TakingDown
<1>2. LcPlace' /\ LcLinked'
  BY DEF LcPlace, LcLinked, LcTypeOK, PnpStates, Starting, TakingDown
<1>3. LcBars' /\ LcProbe'
  BY DEF LcBars, LcProbe, LcTypeOK, LcPlace, LcLinked, NothingMapped, LongEnough, Starting,
         TakingDown
<1>. QED
  BY <1>1, <1>2, <1>3

LEMMA LcReleaseTransfersKeeps ==
    ASSUME LcInv, Release("transfers", "transfers", "unmap")
    PROVE  LcInv'
<1>. USE DEF LcInv, Release, lcIrp, lcMap, lcIrq, lcFlags, lcLinks, lcUser
<1>1. LcTypeOK'
  <2>1. mappings' = Cardinality(Mapped') /\ bar' \in [Bars -> Nat]
    BY MappingsStay
  <2>. QED
    BY <2>1 DEF LcTypeOK, PnpStates, Starting, TakingDown
<1>2. LcPlace' /\ LcLinked'
  BY DEF LcPlace, LcLinked, LcTypeOK, PnpStates, Starting, TakingDown
<1>3. LcBars' /\ LcProbe'
  BY DEF LcBars, LcProbe, LcTypeOK, LcPlace, LcLinked, NothingMapped, LongEnough, Starting,
         TakingDown
<1>. QED
  BY <1>1, <1>2, <1>3

LEMMA LcLowerStartedKeeps ==
    ASSUME LcInv, LowerStarted
    PROVE  LcInv'
<1>. USE DEF LcInv, LowerStarted, StartEnds, lcIrp, lcMap, lcIrq, lcFlags, lcLinks, lcUser
<1>1. /\ mappings' = Cardinality(Mapped') /\ bar' \in [Bars -> Nat]
      /\ NothingMapped'
  <2>1. CASE Unmap
    BY <2>1, UnmapEnds
  <2>2. CASE UNCHANGED lcMap
    BY <2>2, MappingsStay DEF LcBars, NothingMapped
  <2>. QED
    BY <2>1, <2>2
<1>2. resources' \in Seq(Resource)
  BY ResourcesAssumption DEF LcTypeOK
<1>3. LcTypeOK'
  BY <1>1, <1>2 DEF LcTypeOK, PnpStates, Starting, TakingDown
<1>4. LcPlace'
  BY DEF LcPlace, LcTypeOK, PnpStates, Starting, TakingDown
<1>5. LcLinked'
  BY DEF LcLinked, LcPlace, Starting, TakingDown
<1>6. LcBars'
  <2>1. ~started /\ ~connected
    BY DEF LcLinked, LcPlace, Starting
  <2>. QED
    BY <1>1, <2>1 DEF LcBars, NothingMapped
<1>7. LcProbe'
  BY DEF LcProbe, LcPlace, LcTypeOK, Starting, TakingDown
<1>. QED
  BY <1>3, <1>4, <1>5, <1>6, <1>7

LEMMA LcMapMemoryKeeps ==
    ASSUME LcInv, MapMemory
    PROVE  LcInv'
<1>. USE DEF LcInv, MapMemory, StartEnds, lcIrp, lcMap, lcIrq, lcFlags, lcLinks, lcUser
<1>1. resources[1] \in Resource /\ resources[1].length \in Nat \ {0}
  <2>1. resources[1] \in Resource
    BY DEF LcTypeOK
  <2>. QED
    BY <2>1 DEF Resource
<1>2. resources' \in Seq(Resource)
  <2>1. Tail(resources) \in Seq(Resource) /\ <<>> \in Seq(Resource)
    BY DEF LcTypeOK
  <2>. QED
    BY <2>1
<1>3. ~started /\ ~connected
  BY DEF LcLinked, LcPlace, Starting
<1>4. CASE GiveBack /\ lcPc' = "idle"
  <2>1. mappings' = Cardinality(Mapped') /\ bar' \in [Bars -> Nat] /\ NothingMapped'
    BY <1>4, UnmapEnds DEF GiveBack
  <2>2. pnp' = "failed" /\ memoryIndex' = memoryIndex
    BY <1>4 DEF LcTypeOK
  <2>3. LcTypeOK'
    BY <1>2, <1>4, <2>1, <2>2 DEF LcTypeOK, PnpStates
  <2>4. LcPlace' /\ LcLinked' /\ LcProbe'
    BY <1>4, <2>2 DEF LcPlace, LcLinked, LcProbe, LcTypeOK, Starting, TakingDown
  <2>5. LcBars'
    BY <1>3, <1>4, <2>1 DEF LcBars
  <2>. QED
    BY <2>3, <2>4, <2>5
<1>5. CASE memoryIndex < 3 /\ lcPc' = "map"
  <2>1. /\ bar' = [bar EXCEPT ![memoryIndex] = resources[1].length]
        /\ mappings' = mappings + 1 /\ memoryIndex' = memoryIndex + 1 /\ pnp' = pnp
    BY <1>5
  <2>2. memoryIndex \in Bars /\ bar[memoryIndex] = 0
    BY <1>5 DEF LcTypeOK, LcBars, Bars
  <2>3. mappings' = Cardinality(Mapped') /\ bar' \in [Bars -> Nat]
    BY <1>1, <2>1, <2>2, MappingAdds
  <2>4. memoryIndex' \in 0..3
    BY <1>5, <2>1 DEF LcTypeOK
  <2>5. LcTypeOK'
    BY <1>2, <1>5, <2>1, <2>3, <2>4 DEF LcTypeOK, PnpStates, Starting
  <2>6. LcPlace' /\ LcLinked' /\ LcProbe'
    BY <1>5, <2>1 DEF LcPlace, LcLinked, LcProbe, Starting, TakingDown
  <2>7. \A b \in Bars : b >= memoryIndex' => bar'[b] = 0
    BY <2>1, <2>2 DEF LcBars, LcTypeOK, Bars
  <2>8. LcBars'
    BY <1>3, <1>5, <2>7 DEF LcBars
  <2>. QED
    BY <2>5, <2>6, <2>8
<1>6. CASE ~(memoryIndex < 3) /\ lcPc' = "map"
  <2>1. UNCHANGED <<lcMap, memoryIndex, pnp>>
    BY <1>6
  <2>2. mappings' = Cardinality(Mapped') /\ bar' \in [Bars -> Nat]
    BY <2>1, MappingsStay
  <2>3. LcTypeOK'
    BY <1>2, <1>6, <2>1, <2>2 DEF LcTypeOK, PnpStates, Starting
  <2>4. LcPlace' /\ LcLinked' /\ LcProbe'
    BY <1>6, <2>1 DEF LcPlace, LcLinked, LcProbe, Starting, TakingDown
  <2>5. LcBars'
    BY <1>3, <1>6, <2>1 DEF LcBars
  <2>. QED
    BY <2>3, <2>4, <2>5
<1>. QED
  BY <1>4, <1>5, <1>6

LEMMA LcCheckBarsKeeps ==
    ASSUME LcInv, CheckBars
    PROVE  LcInv'
<1>. USE DEF LcInv, CheckBars, StartEnds, lcIrp, lcMap, lcIrq, lcFlags, lcLinks, lcUser
<1>1. ~started /\ ~connected
  BY DEF LcLinked, LcPlace, Starting
<1>2. CASE GiveBack /\ lcPc' = "idle" /\ pnp' = "failed" /\ UNCHANGED boardRegs
  <2>1. mappings' = Cardinality(Mapped') /\ bar' \in [Bars -> Nat] /\ NothingMapped'
    BY <1>2, UnmapEnds DEF GiveBack
  <2>2. LcTypeOK'
    BY <1>2, <2>1 DEF LcTypeOK, PnpStates
  <2>3. LcPlace' /\ LcLinked' /\ LcProbe'
    BY <1>2 DEF LcPlace, LcLinked, LcProbe, Starting, TakingDown
  <2>4. LcBars'
    BY <1>1, <1>2, <2>1 DEF LcBars
  <2>. QED
    BY <2>2, <2>3, <2>4
<1>3. CASE /\ LongEnough /\ lcPc' = "readStart" /\ UNCHANGED <<pnp, lcMap>>
           /\ boardRegs' = [boardRegs EXCEPT !.start = 1]
  <2>1. mappings' = Cardinality(Mapped') /\ bar' \in [Bars -> Nat]
    BY <1>3, MappingsStay
  <2>2. boardRegs' \in [start : {0, 1}, itmode : {0, 3, 7}, buzzer : {0, 1}]
    BY <1>3 DEF LcTypeOK
  <2>3. LcTypeOK'
    BY <1>3, <2>1, <2>2 DEF LcTypeOK, PnpStates, Starting
  <2>4. LcPlace' /\ LcLinked'
    BY <1>3 DEF LcPlace, LcLinked, Starting, TakingDown
  <2>5. LcProbe'
    BY <1>3 DEF LcProbe, LcTypeOK
  <2>6. LcBars'
    BY <1>3 DEF LcBars, LongEnough
  <2>. QED
    BY <2>3, <2>4, <2>5, <2>6
<1>. QED
  BY <1>2, <1>3

\* Sequences at their ends.
LEMMA Empty ==
    ASSUME NEW S, NEW s \in Seq(S)
    PROVE  s = <<>> <=> Len(s) = 0
OBVIOUS

LEMMA TailLast ==
    ASSUME NEW S, NEW s \in Seq(S), Len(s) > 1 
    PROVE  /\ Tail(s) \in Seq(S) /\ Len(Tail(s)) = Len(s) - 1 /\ Tail(s) # <<>>
           /\ Tail(s)[Len(Tail(s))] = s[Len(s)]
           /\ Len(s) > 2 => Tail(s)[Len(Tail(s)) - 1] = s[Len(s) - 1]
<1>1. s # <<>>
  OBVIOUS
<1>2. Tail(s) \in Seq(S) /\ Len(Tail(s)) = Len(s) - 1
  BY <1>1
<1>3. Tail(s) # <<>>
  <2>1. Len(Tail(s)) # 0
    BY <1>2
  <2>. QED
    BY <2>1, <1>2, Empty
<1>4. Tail(s)[Len(Tail(s))] = s[Len(s)]
  OBVIOUS
<1>5. Len(s) > 2 => Tail(s)[Len(Tail(s)) - 1] = s[Len(s) - 1]
  OBVIOUS
<1>. QED
  BY <1>2, <1>3, <1>4, <1>5

LEMMA Joined ==
    ASSUME NEW S, NEW s \in Seq(S), NEW t \in Seq(S), t # <<>>
    PROVE  /\ s \o t \in Seq(S) /\ Len(s \o t) = Len(s) + Len(t)
           /\ s \o t # <<>> /\ (s \o t)[Len(s \o t)] = t[Len(t)]
OBVIOUS

LEMMA JoinedOne ==
    ASSUME NEW S, NEW s \in Seq(S), NEW t \in Seq(S), s # <<>>, t # <<>>, Len(t) = 1
    PROVE  (s \o t)[Len(s \o t) - 1] = s[Len(s)]
<1>1. Len(s) \in 1..Len(s) /\ Len(s) \in Nat
  OBVIOUS
<1>2. (s \o t)[Len(s)] = s[Len(s)]
  BY <1>1
<1>3. Len(s \o t) = Len(s) + Len(t)
  BY Joined
<1>. QED
  BY <1>1, <1>2, <1>3

LEMMA LcReadStartKeeps ==
    ASSUME LcInv, ReadStart
    PROVE  LcInv'
<1>. USE DEF LcInv, ReadStart, lcMap, lcIrq, lcFlags, lcLinks, lcUser
<1>1. Buzz = <<<<"buzzer", 1>>, <<"buzzer", 0>>>> /\ Buzz \in Seq(ProbeWrites)
  BY DEF Buzz, ProbeWrites
<1>2. /\ probeWrites' \in Seq(ProbeWrites) /\ probeWrites' # <<>>
      /\ probeOk' => /\ probeWrites'[Len(probeWrites')] = <<"itmode", 3>>
                     /\ Len(probeWrites') # 1
                     /\ probeWrites'[Len(probeWrites') - 1] = <<"buzzer", 0>>
      /\ ~probeOk' => probeWrites'[Len(probeWrites')] = <<"buzzer", 0>>
  <2>1. CASE probeOk'
    <3>. DEFINE Mode(n) == <<<<"itmode", n>>>>
                First == Buzz \o Mode(7)
                Second == First \o Buzz
                All == Second \o Mode(3)
    <3>1. /\ Mode(7) \in Seq(ProbeWrites) /\ Mode(3) \in Seq(ProbeWrites)
          /\ Mode(7) # <<>> /\ Mode(3) # <<>>
          /\ Len(Mode(7)) = 1 /\ Len(Mode(3)) = 1 /\ Mode(3)[1] = <<"itmode", 3>>
      BY DEF ProbeWrites
    <3>2. Len(Buzz) = 2 /\ Buzz # <<>> /\ Buzz[Len(Buzz)] = <<"buzzer", 0>>
      BY <1>1
    <3>3. probeWrites' = All
      BY <2>1
    <3>. HIDE DEF Mode
    <3>4. First \in Seq(ProbeWrites)
      BY <1>1, <3>1, Joined
    <3>. HIDE DEF First
    <3>5. /\ Second \in Seq(ProbeWrites) /\ Second # <<>>
          /\ Len(Second) \in Nat \ {0} /\ Second[Len(Second)] = <<"buzzer", 0>>
      BY <1>1, <3>2, <3>4, Joined
    <3>. HIDE DEF Second
    <3>6. /\ All \in Seq(ProbeWrites) /\ All # <<>> /\ Len(All) # 1
          /\ All[Len(All)] = <<"itmode", 3>>
      BY <3>1, <3>5, Joined
    <3>7. All[Len(All) - 1] = <<"buzzer", 0>>
      BY <3>1, <3>5, JoinedOne
    <3>. HIDE DEF All
    <3>. QED
      BY <2>1, <3>3, <3>6, <3>7
  <2>2. CASE ~probeOk'
    BY <1>1, <2>2
  <2>. QED
    BY <2>1, <2>2
<1>3. mappings' = Cardinality(Mapped') /\ bar' \in [Bars -> Nat]
  BY MappingsStay
<1>4. LcTypeOK'
  BY <1>2, <1>3 DEF LcTypeOK, PnpStates, Starting
<1>5. LcPlace' /\ LcBars' /\ LcLinked'
  BY DEF LcPlace, LcBars, LcLinked, LongEnough, Starting, TakingDown
<1>6. LcProbe'
  <2>1. boardRegs'.buzzer = boardRegs.buzzer /\ boardRegs.buzzer = 0 /\ lcPc' = "probe"
    BY DEF LcProbe
  <2>. QED
    BY <1>2, <2>1 DEF LcProbe
<1>. QED
  BY <1>4, <1>5, <1>6

LEMMA LcProbeWriteKeeps ==
    ASSUME LcInv, ProbeWrite
    PROVE  LcInv'
<1>. USE DEF LcInv, ProbeWrite, lcMap, lcIrq, lcFlags, lcLinks, lcUser
<1>1. /\ probeWrites \in Seq(ProbeWrites) /\ Len(probeWrites) \in Nat \ {0}
      /\ probeWrites' = Tail(probeWrites) /\ probeWrites' \in Seq(ProbeWrites)
      /\ probeWrites[1] \in ProbeWrites
  BY DEF LcTypeOK
<1>2. \/ probeWrites[1][1] = "buzzer" /\ probeWrites[1][2] \in {0, 1}
      \/ probeWrites[1][1] = "itmode" /\ probeWrites[1][2] \in {3, 7}
  BY <1>1 DEF ProbeWrites
<1>3. boardRegs' \in [start : {0, 1}, itmode : {0, 3, 7}, buzzer : {0, 1}]
  BY <1>2 DEF LcTypeOK
<1>4. mappings' = Cardinality(Mapped') /\ bar' \in [Bars -> Nat]
  BY MappingsStay
<1>5. LcTypeOK'
  BY <1>1, <1>3, <1>4 DEF LcTypeOK
<1>6. LcPlace' /\ LcBars' /\ LcLinked'
  BY DEF LcPlace, LcBars, LcLinked, LongEnough, Starting, TakingDown
<1>7. LcProbe /\ LcTypeOK /\ lcPc = "probe" /\ UNCHANGED <<lcPc, probeOk>>
      /\ boardRegs' = [boardRegs EXCEPT ![probeWrites[1][1]] = probeWrites[1][2]]
      /\ probeWrites # <<>>
  OBVIOUS
<1>. HIDE DEF LcInv, ProbeWrite, lcMap, lcIrq, lcFlags, lcLinks, lcUser
<1>8. LcProbe'
  <2>1. CASE Len(probeWrites) = 1
    <3>1. probeWrites' = <<>>
      BY <1>1, <2>1
    <3>2. boardRegs'.buzzer = 0 /\ (probeOk => boardRegs'.itmode = 3)
      BY <1>7, <2>1 DEF LcProbe, LcTypeOK
    <3>. QED
      BY <1>7, <3>1, <3>2 DEF LcProbe
  <2>2. CASE Len(probeWrites) > 1
    <3>1. /\ probeWrites' # <<>> /\ Len(probeWrites') = Len(probeWrites) - 1
          /\ probeWrites'[Len(probeWrites')] = probeWrites[Len(probeWrites)]
          /\ Len(probeWrites) > 2 =>
                probeWrites'[Len(probeWrites') - 1] = probeWrites[Len(probeWrites) - 1]
      BY <1>1, <2>2, TailLast
    <3>2. CASE ~probeOk
      BY <1>7, <3>1, <3>2 DEF LcProbe
    <3>3. CASE probeOk
      <4>1. /\ probeWrites[Len(probeWrites)] = <<"itmode", 3>>
            /\ probeWrites[Len(probeWrites) - 1] = <<"buzzer", 0>>
        BY <1>7, <2>2, <3>3 DEF LcProbe
      <4>2. Len(probeWrites') > 1 => probeWrites'[Len(probeWrites') - 1] = <<"buzzer", 0>>
        BY <1>1, <3>1, <4>1
      <4>3. Len(probeWrites') = 1 => boardRegs'.buzzer = 0
        <5>1. SUFFICES ASSUME Len(probeWrites') = 1 PROVE boardRegs'.buzzer = 0
          OBVIOUS
        <5>2. Len(probeWrites) - 1 = 1
          BY <3>1, <5>1
        <5>3. probeWrites[1] = <<"buzzer", 0>>
          BY <4>1, <5>2
        <5>. QED
          BY <1>7, <5>3 DEF LcTypeOK
      <4>. QED
        BY <1>7, <3>1, <3>3, <4>1, <4>2, <4>3 DEF LcProbe
    <3>. QED
      BY <3>2, <3>3
  <2>3. Len(probeWrites) = 1 \/ Len(probeWrites) > 1
    BY <1>1
  <2>. QED
    BY <2>1, <2>2, <2>3
<1>. QED
  BY <1>5, <1>6, <1>8 DEF LcInv

LEMMA LcProbeEndsKeeps ==
    ASSUME LcInv, ProbeEnds
    PROVE  LcInv'
<1>. USE DEF LcInv, ProbeEnds, StartEnds, lcIrp, lcMap, lcIrq, lcFlags, lcLinks, lcUser
<1>1. ~started /\ ~connected /\ LongEnough
  BY DEF LcLinked, LcPlace, LcBars, Starting
<1>2. CASE GiveBack /\ lcPc' = "idle" /\ pnp' = "failed" /\ UNCHANGED started
  <2>1. mappings' = Cardinality(Mapped') /\ bar' \in [Bars -> Nat] /\ NothingMapped'
    BY <1>2, UnmapEnds DEF GiveBack
  <2>2. LcTypeOK'
    BY <1>2, <2>1 DEF LcTypeOK, PnpStates
  <2>3. LcPlace' /\ LcLinked' /\ LcProbe'
    BY <1>2 DEF LcPlace, LcLinked, LcProbe, Starting, TakingDown
  <2>4. LcBars'
    BY <1>1, <1>2, <2>1 DEF LcBars
  <2>. QED
    BY <2>2, <2>3, <2>4
<1>3. CASE probeOk /\ started' = TRUE /\ lcPc' = "connect" /\ UNCHANGED <<pnp, lcMap>>
  <2>1. mappings' = Cardinality(Mapped') /\ bar' \in [Bars -> Nat]
    BY <1>3, MappingsStay
  <2>2. LcTypeOK'
    BY <1>3, <2>1 DEF LcTypeOK, PnpStates, Starting
  <2>3. LcPlace' /\ LcLinked' /\ LcProbe'
    BY <1>3 DEF LcPlace, LcLinked, LcProbe, Starting, TakingDown
  <2>4. LcBars'
    BY <1>1, <1>3 DEF LcBars, LongEnough
  <2>. QED
    BY <2>2, <2>3, <2>4
<1>. QED
  BY <1>2, <1>3

LEMMA LcUnmapAllKeeps ==
    ASSUME LcInv, UnmapAll
    PROVE  LcInv'
<1>. USE DEF LcInv, UnmapAll, lcIrp, lcIrq, lcFlags, lcLinks, lcUser
<1>1. mappings' = Cardinality(Mapped') /\ bar' \in [Bars -> Nat] /\ NothingMapped'
  BY UnmapEnds
<1>2. ~started /\ ~connected
  BY DEF LcLinked, LcPlace
<1>3. LcTypeOK'
  BY <1>1 DEF LcTypeOK, PnpStates, Starting, TakingDown
<1>4. LcPlace' /\ LcLinked' /\ LcProbe'
  BY DEF LcPlace, LcLinked, LcProbe, Starting, TakingDown
<1>5. LcBars'
  BY <1>1, <1>2 DEF LcBars
<1>. QED
  BY <1>3, <1>4, <1>5

-----------------------------------------------------------------------------
LEMMA LcKeeps == LcInv /\ [LcNext]_lcVars => LcInv'
<1>. SUFFICES ASSUME LcInv, [LcNext]_lcVars PROVE LcInv'
  OBVIOUS
<1>1. CASE AddDevice
  BY <1>1, LcAddDeviceKeeps
<1>2. CASE LcStart
  BY <1>2, LcStartLowerKeeps, LcLowerStartedKeeps, LcMapMemoryKeeps, LcTakeOtherKeeps,
     LcCheckBarsKeeps, LcReadStartKeeps, LcProbeWriteKeeps, LcProbeEndsKeeps,
     LcConnectKeeps, LcEnableInterfacesKeeps DEF LcStart
<1>3. CASE LcTakeDown
  BY <1>3, LcTakeDownKeeps, LcDisableInterfacesKeeps, LcDisconnectKeeps,
     LcReleaseEventsKeeps, LcReleaseTransfersKeeps, LcUnmapAllKeeps, LcDeleteDeviceKeeps
     DEF LcTakeDown
<1>4. CASE LcUsers
  BY <1>4, LcCreateKeeps, LcCloseKeeps, LcHoldKeeps DEF LcUsers
<1>5. CASE UNCHANGED lcVars
  <2>1. UNCHANGED <<pnp, lcPc, lcIrp, lcMap, lcIrq, lcFlags, lcLinks, lcUser>>
    BY <1>5 DEF lcVars
  <2>. USE DEF LcInv, lcIrp, lcMap, lcIrq, lcFlags, lcLinks, lcUser
  <2>2. LcTypeOK'
    BY <2>1 DEF LcTypeOK, Mapped
  <2>3. LcPlace' /\ LcBars' /\ LcLinked' /\ LcProbe'
    BY <2>1 DEF LcPlace, LcBars, NothingMapped, LongEnough, LcLinked, LcProbe
  <2>. QED
    BY <2>2, <2>3
<1>. QED
  BY <1>1, <1>2, <1>3, <1>4, <1>5 DEF LcNext

\* In any order of START, STOP, SURPRISE_REMOVAL, REMOVE and calls of users, for any
\* resource lists and interfaces: nothing of the hardware is lost, used unmapped or left
\* enabled.
THEOREM ResourcesAreOwned == LcSpec => []ResourcesOwned
<1>1. LcInv => ResourcesOwned
  <2>. SUFFICES ASSUME LcInv PROVE ResourcesOwned
    OBVIOUS
  <2>. USE DEF LcInv
  <2>1. lcPc = "idle" /\ pnp # "started" => Mapped = {}
    BY DEF LcBars, NothingMapped, Mapped
  <2>2. lcPc = "idle" /\ enabled # {} => started /\ LongEnough
    BY DEF LcLinked, LcBars
  <2>3. pnp = "deleted" => held = {} /\ registered = {} /\ handles = 0
    BY DEF LcPlace
  <2>4. lcPc = "idle" /\ pnp # "started" => ~connected /\ ~started /\ enabled = {}
    BY DEF LcLinked
  <2>. QED
    BY <2>1, <2>2, <2>3, <2>4 DEF LcTypeOK, LcBars, LcProbe, ResourcesOwned
<1>. QED
  BY <1>1, LcInitially, LcKeeps, PTL DEF LcSpec

-----------------------------------------------------------------------------
(* LegacyTimer.                                                             *)

\* Delays, and the time of the first one, that a LONG of milliseconds can hold: 24.9 days.
ShortDelays ==
    /\ Half >= 2
    /\ \A requested \in Durations : requested < Half
    /\ FirstArmMax <= InTicks(Half) /\ Latency < InTicks(Half)

TmTypeOK ==
    /\ now \in Nat /\ startTime \in Nat /\ durationMs \in Nat /\ due \in Nat /\ asked \in Nat
    /\ timer \in {"unset", "set", "signalled"}

\* What the driver noted of the timer is what the kernel has, and a timer that is over
\* lacks less than a millisecond of what was asked for.
TimerNoted ==
    /\ initialized <=> timer # "unset"
    /\ timer = "unset" =>
          now >= TicksPerMs /\ startTime = 0 /\ durationMs = 0 /\ asked = 0
    /\ timer = "set" =>
          /\ due = startTime + InTicks(durationMs)
          /\ asked < due + TicksPerMs /\ due <= asked + TicksPerMs
          /\ durationMs < Half /\ startTime <= now /\ now <= due + Latency
    /\ timer = "signalled" => asked < now + TicksPerMs

TmInv == TmTypeOK /\ TimerNoted

LEMMA HalfType == Half \in Nat /\ Half > 0 /\ Wrap = 2 * Half
<1>1. Half \in Int
  BY WrapAssumption DEF Half
<1>. QED
  BY <1>1, WrapAssumption

\* Below its modulus on either side a ULONG read as a LONG is the number itself.
LEMMA SignedIsExact ==
    ASSUME NEW x \in Int, -Half <= x, x < Half
    PROVE  Signed(x % Wrap) = x
<1>. DEFINE q == x \div Wrap
            r == x % Wrap
            h == Half
<1>1. h \in Nat /\ h > 0 /\ Wrap = 2 * h
  BY HalfType
<1>2. Wrap \in Nat \ {0}
  BY WrapAssumption
<1>3. q \in Int /\ r \in 0..Wrap - 1 /\ x = Wrap * q + r
  BY <1>2
<1>4. Signed(r) = IF r < h THEN r ELSE r - Wrap
  BY DEF Signed
<1>. HIDE DEF q, r, h
<1>5. q = 0 \/ q = -1
  <2>1. -Wrap <= x /\ x < Wrap
    BY <1>1 DEF h
  <2>2. ~(q >= 1)
    BY <1>2, <1>3, <2>1
  <2>3. ~(q <= -2)
    BY <1>2, <1>3, <2>1
  <2>. QED
    BY <1>3, <2>2, <2>3
<1>6. x = r \/ x = r - Wrap
  BY <1>2, <1>3, <1>5
<1>7. (x = r => r < h) /\ (x = r - Wrap => r >= h)
  BY <1>1, <1>2, <1>3 DEF h
<1>8. Signed(r) = x
  BY <1>1, <1>2, <1>3, <1>4, <1>6, <1>7
<1>. QED
  BY <1>8 DEF r

LEMMA TicksType == TicksPerMs \in Int /\ TicksPerMs >= 1
BY TicksAssumption

\* More milliseconds are more ticks, and the ticks of a sum are the sum of the ticks.
LEMMA MoreTicks ==
    ASSUME NEW a \in Int, NEW b \in Int, a <= b
    PROVE  InTicks(a) <= InTicks(b)
<1>. DEFINE t == TicksPerMs
<1>1. t \in Int /\ t >= 1
  BY TicksType
<1>. HIDE DEF t
<1>2. a * t <= b * t
  BY <1>1
<1>. QED
  BY <1>2 DEF t, InTicks

LEMMA TicksAdd ==
    ASSUME NEW a \in Int, NEW b \in Int
    PROVE  /\ InTicks(a + b) = InTicks(a) + InTicks(b)
           /\ InTicks(a - b) = InTicks(a) - InTicks(b)
           /\ InTicks(a + 1) = InTicks(a) + TicksPerMs
           /\ InTicks(a) \in Int /\ InTicks(b) \in Int
           /\ InTicks(0) = 0 /\ InTicks(1) = TicksPerMs
BY TicksType DEF InTicks

\* The elapsed milliseconds fall short of the elapsed ticks, by less than one.
LEMMA ElapsedIsFloor ==
    ASSUME TmTypeOK, startTime <= now
    PROVE  /\ ElapsedMs \in Nat
           /\ InTicks(ElapsedMs) \in Int
           /\ InTicks(ElapsedMs) <= now - startTime
           /\ now - startTime < InTicks(ElapsedMs) + TicksPerMs
<1>. DEFINE t == TicksPerMs
            e == now - startTime
            q == e \div t
            r == e % t
            p == t * q
<1>1. t \in Int /\ t >= 1 /\ t \in Nat \ {0} /\ e \in Int /\ e >= 0
  BY TicksAssumption DEF TmTypeOK
<1>. HIDE DEF t, e
<1>2. q \in Int /\ r \in 0..t - 1 /\ e = p + r
  BY <1>1
<1>3. p \in Int
  BY <1>1, <1>2
<1>4. q >= 0
  <2>. HIDE DEF q, r
  <2>1. SUFFICES ASSUME q <= -1 PROVE FALSE
    BY <1>2
  <2>2. p <= -t
    BY <1>1, <1>2, <2>1
  <2>. HIDE DEF p
  <2>. QED
    BY <1>1, <1>2, <1>3, <2>2
<1>5. ElapsedMs = q
  BY DEF ElapsedMs, t, e
<1>6. InTicks(q) = p
  BY <1>1, <1>2 DEF InTicks, t
<1>. HIDE DEF p, q, r
<1>7. q \in Nat /\ p <= e /\ e < p + t
  BY <1>1, <1>2, <1>3, <1>4
<1>. QED
  BY <1>3, <1>5, <1>6, <1>7 DEF t, e

LEMMA TmInitially == Init => TmInv
BY TimesAssumption, TicksType DEF Init, TmInv, TmTypeOK, TimerNoted

\* The time that is left, as the driver reckons it: too much by less than a millisecond.
LEMMA RemainingIsCeiling ==
    ASSUME ShortDelays, TmInv, timer # "signalled", timer = "unset" => now <= FirstArmMax
    PROVE  /\ Remaining \in Int
           /\ timer = "set" => /\ due - now <= InTicks(Remaining)
                               /\ InTicks(Remaining) < due - now + TicksPerMs
           /\ timer = "unset" => Remaining < 0
<1>. DEFINE x == durationMs - ElapsedMs
            t == TicksPerMs
            bound == durationMs + Half
<1>1. t \in Int /\ t >= 1 /\ Half \in Nat /\ Half > 0
  BY TicksType, HalfType
<1>2. /\ now \in Nat /\ startTime \in Nat /\ durationMs \in Nat /\ due \in Nat
      /\ timer = "unset" \/ timer = "set"
      /\ startTime <= now
  BY DEF TmInv, TmTypeOK, TimerNoted
<1>3. /\ ElapsedMs \in Nat
      /\ InTicks(ElapsedMs) <= now - startTime
      /\ now - startTime < InTicks(ElapsedMs) + t
  BY <1>2, ElapsedIsFloor DEF TmInv
<1>4. x \in Int /\ x < Half /\ InTicks(x) = InTicks(durationMs) - InTicks(ElapsedMs)
  <2>1. durationMs < Half
    BY <1>1, <1>2 DEF TmInv, TimerNoted
  <2>2. InTicks(x) = InTicks(durationMs) - InTicks(ElapsedMs)
    BY <1>2, <1>3, TicksAdd
  <2>. QED
    BY <1>1, <1>2, <1>3, <2>1, <2>2
<1>5. ElapsedMs <= bound
  <2>1. now - startTime <= InTicks(bound)
    <3>1. InTicks(bound) = InTicks(durationMs) + InTicks(Half)
      BY <1>1, <1>2, TicksAdd
    <3>2. InTicks(Half) \in Int /\ InTicks(durationMs) \in Int /\ Latency \in Nat /\ FirstArmMax \in Nat
      BY <1>1, <1>2, TimesAssumption, TicksAdd
    <3>3. CASE timer = "set"
      <4>1. now - startTime <= InTicks(durationMs) + Latency /\ Latency < InTicks(Half)
        BY <1>2, <3>2, <3>3 DEF TmInv, TimerNoted, ShortDelays
      <4>. HIDE DEF t, bound
      <4>. QED
        BY <1>2, <3>1, <3>2, <4>1
    <3>4. CASE timer = "unset"
      <4>1. now <= InTicks(Half) /\ startTime = 0 /\ durationMs = 0
        BY <1>2, <3>2, <3>4 DEF TmInv, TimerNoted, ShortDelays
      <4>2. InTicks(durationMs) = 0
        BY <4>1, TicksAdd
      <4>. HIDE DEF t, bound
      <4>. QED
        BY <1>2, <3>1, <3>2, <4>1, <4>2
    <3>. QED
      BY <1>2, <3>3, <3>4
  <2>2. SUFFICES ASSUME ElapsedMs >= bound + 1 PROVE FALSE
    BY <1>1, <1>2, <1>3
  <2>3. InTicks(bound) + t <= InTicks(ElapsedMs)
    <3>1. InTicks(bound + 1) <= InTicks(ElapsedMs)
      BY <1>1, <1>2, <1>3, <2>2, MoreTicks
    <3>. QED
      BY <1>1, <1>2, <3>1, TicksAdd
  <2>4. InTicks(ElapsedMs) \in Int /\ InTicks(bound) \in Int
    BY <1>1, <1>2, <1>3, TicksAdd
  <2>. HIDE DEF t, bound
  <2>. QED
    BY <1>1, <1>2, <1>3, <2>1, <2>3, <2>4
<1>6. Remaining = x
  <2>1. -Half <= x
    BY <1>1, <1>2, <1>3, <1>5
  <2>. QED
    BY <1>4, <2>1, SignedIsExact DEF Remaining
<1>7. timer = "set" => due - now <= InTicks(x) /\ InTicks(x) < due - now + t
  <2>1. InTicks(durationMs) \in Int /\ InTicks(ElapsedMs) \in Int
    BY <1>2, <1>3, TicksAdd
  <2>2. timer = "set" => due = startTime + InTicks(durationMs)
    BY DEF TmInv, TimerNoted
  <2>. HIDE DEF t, x
  <2>. QED
    BY <1>1, <1>2, <1>3, <1>4, <2>1, <2>2
<1>8. timer = "unset" => x < 0
  <2>1. SUFFICES ASSUME timer = "unset" PROVE ElapsedMs # 0
    BY <1>2, <1>3 DEF TmInv, TimerNoted
  <2>2. now >= t /\ startTime = 0
    BY <2>1 DEF TmInv, TimerNoted
  <2>3. InTicks(0) = 0
    BY TicksAdd
  <2>. HIDE DEF t
  <2>. QED
    BY <1>1, <1>2, <1>3, <2>2, <2>3
<1>. QED
  BY <1>4, <1>6, <1>7, <1>8

LEMMA ArmKeeps ==
    ASSUME ShortDelays, TmInv, NEW requested \in Durations, ArmOrExtend(requested)
    PROVE  TmInv'
<1>. DEFINE t == TicksPerMs
            r == InTicks(requested)
            one == AtLeastOne(requested)
<1>1. t \in Int /\ t >= 1
  BY TicksType
<1>2. /\ requested \in Nat /\ requested < Half /\ one < Half /\ one \in Nat
      /\ requested # 0 => one = requested
      /\ requested = 0 => one = 1
      /\ Signed(requested) = requested
  BY DurationsAssumption, HalfType DEF ShortDelays, AtLeastOne, Signed
<1>3. /\ r \in Int /\ InTicks(one) \in Int /\ r >= 0 /\ InTicks(one) >= 0
      /\ requested # 0 => InTicks(one) = r /\ r >= t
      /\ requested = 0 => InTicks(one) = t /\ r = 0
  <2>1. r \in Int /\ InTicks(one) \in Int /\ InTicks(0) = 0 /\ InTicks(1) = t
    BY <1>2, TicksAdd
  <2>2. requested # 0 => r >= t
    BY <1>2, <2>1, MoreTicks
  <2>. QED
    BY <1>1, <1>2, <2>1, <2>2
<1>4. now \in Nat /\ now' = now /\ asked \in Nat /\ due \in Nat /\ Latency \in Nat
  BY TimesAssumption DEF ArmOrExtend, Noted, TmInv, TmTypeOK
<1>5. /\ initialized'
      /\ asked' = IF now + r > asked THEN now + r ELSE asked
      /\ ~initialized => now <= FirstArmMax
  BY DEF ArmOrExtend, Noted
<1>6. timer = "unset" => now <= FirstArmMax
  BY <1>5 DEF TmInv, TimerNoted
<1>7. timer = "set" => asked < due + t /\ due <= asked + t
  BY DEF TmInv, TimerNoted
<1>8. CASE /\ Set(requested)
           /\ timer = "signalled" \/ Remaining < Signed(requested)
  <2>1. due' = now + InTicks(one) /\ startTime' = now /\ durationMs' = one /\ timer' = "set"
    BY <1>8 DEF Set
  <2>2. (requested = 0 => asked < now + t) /\ (requested # 0 => asked <= now + r)
    <3>1. CASE timer = "signalled"
      <4>1. asked < now + t
        BY <3>1 DEF TmInv, TimerNoted
      <4>. HIDE DEF t, r, one
      <4>. QED
        BY <1>1, <1>3, <1>4, <4>1
    <3>2. CASE timer = "unset"
      <4>1. asked = 0
        BY <3>2 DEF TmInv, TimerNoted
      <4>. HIDE DEF t, r, one
      <4>. QED
        BY <1>1, <1>3, <1>4, <4>1
    <3>3. CASE timer = "set"
      <4>1. Remaining \in Int /\ due - now <= InTicks(Remaining)
        BY <1>6, <3>3, RemainingIsCeiling
      <4>2. Remaining + 1 <= requested
        BY <1>2, <1>8, <3>3, <4>1
      <4>3. InTicks(Remaining) + t <= r
        <5>1. InTicks(Remaining + 1) <= r
          BY <1>2, <4>1, <4>2, MoreTicks
        <5>. QED
          BY <4>1, <5>1, TicksAdd
      <4>4. InTicks(Remaining) \in Int
        BY <4>1, TicksAdd
      <4>. HIDE DEF t, r, one
      <4>. QED
        BY <1>1, <1>3, <1>4, <1>7, <3>3, <4>1, <4>3, <4>4
    <3>. QED
      BY <3>1, <3>2, <3>3 DEF TmInv, TmTypeOK
  <2>3. asked' \in Nat /\ asked' < due' + t /\ due' <= asked' + t
    <3>. HIDE DEF t, r, one
    <3>1. CASE requested = 0
      <4>1. due' = now + t /\ r = 0
        BY <1>3, <2>1, <3>1
      <4>. QED
        BY <1>1, <1>4, <1>5, <2>2, <3>1, <4>1
    <3>2. CASE requested # 0
      <4>1. due' = now + r
        BY <1>3, <2>1, <3>2
      <4>2. asked' = now + r
        BY <1>1, <1>3, <1>4, <1>5, <2>2, <3>2
      <4>. QED
        BY <1>1, <1>3, <1>4, <4>1, <4>2
    <3>. QED
      BY <3>1, <3>2
  <2>4. now' <= due' + Latency
    BY <1>3, <1>4, <2>1
  <2>. QED
    BY <1>2, <1>3, <1>4, <1>5, <2>1, <2>3, <2>4 DEF TmInv, TmTypeOK, TimerNoted
<1>9. CASE /\ timer # "signalled" /\ Remaining >= Signed(requested)
           /\ UNCHANGED <<timer, due, startTime, durationMs>>
  <2>1. Remaining \in Int /\ Remaining >= requested
    BY <1>2, <1>6, <1>9, RemainingIsCeiling
  <2>2. timer = "set" /\ InTicks(Remaining) < due - now + t
    BY <1>2, <1>6, <1>9, <2>1, RemainingIsCeiling DEF TmInv, TmTypeOK
  <2>3. r <= InTicks(Remaining) /\ InTicks(Remaining) \in Int
    <3>1. requested \in Int
      BY <1>2
    <3>2. r <= InTicks(Remaining)
      BY <2>1, <3>1, MoreTicks
    <3>3. InTicks(Remaining) \in Int
      BY <2>1, TicksAdd
    <3>. QED
      BY <3>2, <3>3
  <2>4. asked' \in Nat /\ asked' < due + t /\ due <= asked' + t
    <3>1. now + r < due + t
      <4>. HIDE DEF t, r
      <4>. QED
        BY <1>1, <1>3, <1>4, <2>2, <2>3
    <3>2. asked < due + t /\ due <= asked + t
      BY <1>7, <2>2
    <3>. HIDE DEF t, r, one
    <3>. QED
      BY <1>1, <1>3, <1>4, <1>5, <3>1, <3>2
  <2>. QED
    BY <1>4, <1>5, <1>9, <2>2, <2>4 DEF TmInv, TmTypeOK, TimerNoted
<1>. QED
  BY <1>8, <1>9 DEF ArmOrExtend

LEMMA TimerKeeps ==
    ASSUME ShortDelays, TmInv, [Next]_vars
    PROVE  TmInv'
<1>1. CASE Arm
  BY <1>1, ArmKeeps DEF Arm
<1>2. CASE BeginWait \/ WriteMttCtl \/ UNCHANGED vars
  BY <1>2 DEF BeginWait, WriteMttCtl, vars, TmInv, TmTypeOK, TimerNoted
<1>3. CASE Expire
  BY <1>3, TicksType DEF Expire, TmInv, TmTypeOK, TimerNoted
<1>4. CASE Tick
  BY <1>4, TimesAssumption, TicksType DEF Tick, TmInv, TmTypeOK, TimerNoted
<1>. QED
  BY <1>1, <1>2, <1>3, <1>4 DEF Next

\* For any width of a ULONG, any frequency of the counter and any delays and first delay a
\* LONG can hold, the timer that runs ends within a millisecond of the end of the longest
\* delay, however requests and time interleave.
THEOREM DueStaysLongest ==
    ASSUME ShortDelays
    PROVE  Spec => []DueIsLongest
<1>1. TmInv => DueIsLongest
  BY TicksType DEF TmInv, TmTypeOK, TimerNoted, DueIsLongest
<1>2. TmInv /\ [Next]_vars => TmInv'
  BY TimerKeeps
<1>. QED
  BY <1>1, <1>2, TmInitially, PTL DEF Spec

\* Then MTTCTL is written after every delay that was asked for is over or has less than a
\* millisecond to go, and a request arms the timer: the wait of opcode 0x02 has an end to
\* wait for.
THEOREM SettledAlways ==
    ASSUME ShortDelays
    PROVE  Spec => Settled /\ []RequestArms
<1>1. TmInv => RequestArms
  BY DEF TmInv, TimerNoted, RequestArms
<1>2. TmInv /\ [Next]_vars => TmInv'
  BY TimerKeeps
<1>3. TmInv /\ [Next]_vars => [waiting /\ ~waiting' => now + TicksPerMs > asked]_vars
  BY DEF Next, Arm, ArmOrExtend, Noted, BeginWait, WriteMttCtl, Expire, Tick, TmInv,
         TmTypeOK, TimerNoted
<1>. QED
  BY <1>1, <1>2, <1>3, TmInitially, PTL DEF Spec, Settled

-----------------------------------------------------------------------------
(* SpiCommand.                                                              *)

SpiSpec == SpiInit /\ [][SpiNext]_spiVars

SpiAlone == ~crossed /\ ~spiBehind

SpiTypeOK ==
    /\ spiPc \in {"idle", "low", "high", "select", "words", "last", "sent", "spiWrite"}
    /\ spiThen \in {"idle", "high", "select", "words", "last", "sent"}
    /\ spiPc # "idle" => spiJob \in [line : SpiLine, bits : Nat]
    /\ spiPc = "spiWrite" => spiThen # "idle"
    /\ spiLeft \in Nat
    /\ spiShadow \in Control /\ spictl \in Control /\ spiBefore \in Control
    /\ sent \in Seq(Control)
    /\ setter = <<>> \/ setter[1] \in Control

\* The place in the command, with or without the write of SPICTL that leads to it.
SpiAt(place) == spiPc = place \/ (spiPc = "spiWrite" /\ spiThen = place)

\* The copy while nobody else touches it: which lines are low, in which mode, and what
\* SPICTL is to count.
SpiShape ==
    LET without == spiBefore.high \ {spiJob.line}
        with == spiBefore.high \cup {spiJob.line}
    IN  /\ SpiAt("low") => spiShadow = spiBefore
        /\ SpiAt("high") => spiShadow.high = without
        /\ SpiAt("select") => spiShadow.high \in {spiBefore.high, with}
        /\ SpiAt("words") \/ SpiAt("last") =>
              /\ spiShadow.high = without
              /\ spiJob.line # "C" => spiShadow.mode = ModeSet[spiJob.line]
        /\ SpiAt("words") /\ spiLeft > 15 => spiShadow.count = 16
        /\ SpiAt("last") => spiShadow.count = spiLeft
        /\ SpiAt("sent") => spiShadow.high = with /\ spiShadow.count = 0 /\ spiLeft = 0
        /\ SpiAt("low") \/ SpiAt("high") \/ SpiAt("select") =>
              sent = <<>> /\ spiLeft = spiJob.bits
        /\ \A n \in DOMAIN sent :
              /\ sent[n].high = without
              /\ spiJob.line # "C" => sent[n].mode = ModeSet[spiJob.line]

\* The copy and the register, and the setter between them.
SpiCopied ==
    /\ spiPc # "spiWrite" /\ setter = <<>> /\ spiKnown => spictl = spiShadow
    /\ spiPc # "idle" => spiKnown /\ setter = <<>>
    /\ setter # <<>> => spiShadow = setter[1]
    /\ spiPc = "idle" => sent = <<>>

\* A function that sums up the bits of the words s, as Shifted does.
IsShifted(f, s) == f = [n \in 0..Len(s) |-> IF n = 0 THEN 0 ELSE f[n - 1] + s[n].count]

\* There is one such function, and its last value is total.
ShiftedTo(s, total) ==
    \E f : /\ IsShifted(f, s) /\ \A g : IsShifted(g, s) => g = f
           /\ f[Len(s)] = total

SpiCounted == spiPc # "idle" => ShiftedTo(sent, spiJob.bits - spiLeft)

SpiInv == SpiTypeOK /\ (SpiAlone => SpiShape /\ SpiCopied /\ SpiCounted)

-----------------------------------------------------------------------------
(* Sums of bits.                                                            *)

LEMMA ShiftedIs ==
    ASSUME NEW total, ShiftedTo(sent, total)
    PROVE  Shifted[Len(sent)] = total
<1>1. PICK f : /\ IsShifted(f, sent) /\ \A g : IsShifted(g, sent) => g = f
               /\ f[Len(sent)] = total
  BY DEF ShiftedTo
<1>2. Shifted = CHOOSE g : IsShifted(g, sent)
  BY Zenon DEF Shifted, IsShifted
<1>3. IsShifted(Shifted, sent)
  BY <1>1, <1>2, Zenon
<1>. QED
  BY <1>1, <1>3

LEMMA NothingShifted == ShiftedTo(<<>>, 0)
<1>. DEFINE f == [n \in 0..0 |-> 0]
<1>1. Len(<<>>) = 0 /\ 0..0 = {0}
  OBVIOUS
<1>2. IsShifted(f, <<>>) /\ f[0] = 0
  BY <1>1 DEF IsShifted
<1>3. ASSUME NEW g, IsShifted(g, <<>>) PROVE g = f
  BY <1>1, <1>3 DEF IsShifted
<1>. QED
  BY <1>1, <1>2, <1>3 DEF ShiftedTo

LEMMA ShiftedMore ==
    ASSUME NEW s \in Seq(Control), NEW word \in Control, NEW total, ShiftedTo(s, total)
    PROVE  ShiftedTo(Append(s, word), total + word.count)
<1>. DEFINE len == Len(s)
            t == Append(s, word)
<1>1. PICK f : /\ IsShifted(f, s) /\ \A g : IsShifted(g, s) => g = f
               /\ f[len] = total
  BY DEF ShiftedTo
<1>2. /\ len \in Nat /\ Len(t) = len + 1 /\ t[len + 1] = word
      /\ \A n \in 1..len : t[n] = s[n]
  OBVIOUS
<1>. HIDE DEF len, t
<1>. DEFINE h == [n \in 0..len + 1 |-> IF n <= len THEN f[n] ELSE total + word.count]
<1>3. /\ f = [n \in 0..len |-> IF n = 0 THEN 0 ELSE f[n - 1] + s[n].count]
  BY <1>1 DEF IsShifted, len
<1>4. \A n \in 0..len : f[n] = IF n = 0 THEN 0 ELSE f[n - 1] + s[n].count
  BY <1>3
<1>5. IsShifted(h, t)
  <2>1. ASSUME NEW n \in 0..len + 1
        PROVE  h[n] = IF n = 0 THEN 0 ELSE h[n - 1] + t[n].count
    <3>1. CASE n = 0
      BY <1>2, <1>4, <3>1
    <3>2. CASE n \in 1..len
      <4>1. h[n] = f[n] /\ h[n - 1] = f[n - 1]
        BY <1>2, <3>2
      <4>. QED
        BY <1>2, <1>4, <3>2, <4>1
    <3>3. CASE n = len + 1
      <4>1. h[n] = total + word.count /\ h[n - 1] = f[len] /\ t[n] = word
        BY <1>2, <3>3
      <4>. QED
        BY <1>1, <1>2, <3>3, <4>1
    <3>. QED
      BY <1>2, <3>1, <3>2, <3>3
  <2>. QED
    BY <1>2, <2>1 DEF IsShifted
<1>6. ASSUME NEW g, IsShifted(g, t) PROVE g = h
  <2>1. g = [n \in 0..len + 1 |-> IF n = 0 THEN 0 ELSE g[n - 1] + t[n].count]
    BY <1>2, <1>6 DEF IsShifted
  <2>. DEFINE r == [n \in 0..len |-> g[n]]
  <2>2. \A n \in 0..len + 1 : g[n] = IF n = 0 THEN 0 ELSE g[n - 1] + t[n].count
    BY <2>1
  <2>3. IsShifted(r, s)
    <3>1. ASSUME NEW n \in 0..len
          PROVE  r[n] = IF n = 0 THEN 0 ELSE r[n - 1] + s[n].count
      BY <1>2, <2>2
    <3>. QED
      BY <1>2, <3>1 DEF IsShifted, len
  <2>4. r = f
    BY <1>1, <2>3
  <2>5. \A n \in 0..len : g[n] = f[n]
    BY <2>4
  <2>6. g[len + 1] = total + word.count
    <3>1. g[len + 1] = g[len] + t[len + 1].count
      BY <1>2, <2>2
    <3>2. g[len] = total
      BY <1>1, <1>2, <2>5
    <3>. QED
      BY <1>2, <3>1, <3>2
  <2>7. \A n \in 0..len + 1 : g[n] = h[n]
    BY <1>2, <2>5, <2>6
  <2>. QED
    BY <2>1, <2>7
<1>7. h[Len(t)] = total + word.count
  BY <1>2
<1>. QED
  BY <1>5, <1>6, <1>7 DEF ShiftedTo, t

-----------------------------------------------------------------------------
LEMMA SpiInitially == SpiInit => SpiInv
<1>. SUFFICES ASSUME SpiInit PROVE SpiInv
  OBVIOUS
<1>1. NoControl \in Control
  BY DEF NoControl, Control
<1>2. SpiTypeOK
  BY <1>1 DEF SpiInit, SpiTypeOK
<1>3. SpiShape /\ SpiCopied /\ SpiCounted
  BY DEF SpiInit, SpiShape, SpiAt, SpiCopied, SpiCounted
<1>. QED
  BY <1>2, <1>3 DEF SpiInv

\* The bits a selector clears and those it sets are all the mode bits, but for 0x0C.
LEMMA ModesCovered ==
    ASSUME NEW line \in SpiLine
    PROVE  /\ ModeSet[line] \subseteq 5..9
           /\ line # "C" => 5..9 \subseteq ModeCleared[line] \cup ModeSet[line]
<1>1. CASE line = "0"
  <2>1. ModeSet["0"] = {} /\ ModeCleared["0"] = 5..9
    BY DEF ModeSet, ModeCleared, SpiLine
  <2>. QED
    BY <1>1, <2>1
<1>2. CASE line = "1"
  <2>1. ModeSet["1"] = {5} /\ ModeCleared["1"] = 6..9
    BY DEF ModeSet, ModeCleared, SpiLine
  <2>. QED
    BY <1>2, <2>1
<1>3. CASE line = "2"
  <2>1. ModeSet["2"] = {6, 8} /\ ModeCleared["2"] = {5, 7, 9}
    BY DEF ModeSet, ModeCleared, SpiLine
  <2>. QED
    BY <1>3, <2>1
<1>4. CASE line = "3"
  <2>1. ModeSet["3"] = {5, 6, 8} /\ ModeCleared["3"] = {7, 9}
    BY DEF ModeSet, ModeCleared, SpiLine
  <2>. QED
    BY <1>4, <2>1
<1>5. CASE line = "4"
  <2>1. ModeSet["4"] = {7, 8} /\ ModeCleared["4"] = {5, 6, 9}
    BY DEF ModeSet, ModeCleared, SpiLine
  <2>. QED
    BY <1>5, <2>1
<1>6. CASE line = "C"
  <2>1. ModeSet["C"] = {8, 9} /\ ModeCleared["C"] = {}
    BY DEF ModeSet, ModeCleared, SpiLine
  <2>. QED
    BY <1>6, <2>1
<1>7. CASE line = "E"
  <2>1. ModeSet["E"] = {5, 7, 9} /\ ModeCleared["E"] = {6, 8}
    BY DEF ModeSet, ModeCleared, SpiLine
  <2>. QED
    BY <1>7, <2>1
<1>. QED
  BY <1>1, <1>2, <1>3, <1>4, <1>5, <1>6, <1>7 DEF SpiLine

\* What selecting a line makes of a control word: the mode bits of the line are all that is
\* left, but for selector 0x0C.
LEMMA SelectedIs ==
    ASSUME NEW control \in Control, NEW line \in SpiLine, NEW asserted \in BOOLEAN
    PROVE  LET after == Selected(control, line, asserted)
           IN  /\ after \in Control /\ after.count = control.count
               /\ after.high = IF asserted THEN control.high \cup {line}
                                           ELSE control.high \ {line}
               /\ line # "C" => after.mode = ModeSet[line]
<1>. DEFINE after == Selected(control, line, asserted)
            high == IF asserted THEN control.high \cup {line} ELSE control.high \ {line}
            mode == (control.mode \ ModeCleared[line]) \cup ModeSet[line]
<1>1. after = [high |-> high, mode |-> mode, count |-> control.count]
  <2>1. after = [[control EXCEPT !.high = high] EXCEPT !.mode = mode]
    BY DEF Selected
  <2>2. [control EXCEPT !.high = high] =
           [high |-> high, mode |-> control.mode, count |-> control.count]
    BY DEF Control
  <2>. HIDE DEF after, high, mode
  <2>. QED
    BY <2>1, <2>2
<1>2. mode \subseteq 5..9 /\ (line # "C" => mode = ModeSet[line])
  BY ModesCovered DEF Control
<1>3. high \subseteq SpiLine
  BY DEF Control
<1>. HIDE DEF high, mode, after
<1>4. after \in Control /\ after.count = control.count
  BY <1>1, <1>2, <1>3 DEF Control
<1>5. after.high = high /\ after.mode = mode
  BY <1>1
<1>. QED
  BY <1>2, <1>4, <1>5 DEF after, high

LEMMA SpiBeginKeeps ==
    ASSUME SpiInv, NEW s \in SpiRequests, SpiBegin(s)
    PROVE  SpiInv'
<1>. USE DEF SpiInv, SpiBegin
<1>1. s \in [line : SpiLine, bits : 0..MaxBits, pulse : BOOLEAN]
  BY SpiAssumption
<1>2. FirstControl \in Control
  BY DEF FirstControl, Control
<1>3. SpiTypeOK'
  BY <1>1, <1>2 DEF SpiTypeOK
<1>4. ASSUME SpiAlone' PROVE SpiShape' /\ SpiCopied' /\ SpiCounted'
  <2>1. SpiAlone /\ setter = <<>> /\ setter' = <<>>
    BY <1>4 DEF SpiAlone
  <2>2. sent' = <<>> /\ spiLeft' = spiJob'.bits /\ spiBefore' = spiShadow'
    BY <2>1 DEF SpiCopied
  <2>3. spiPc' \in {"low", "select"} /\ spictl' = spiShadow' /\ spiKnown'
    BY <2>1 DEF SpiCopied
  <2>4. SpiShape'
    BY <2>2, <2>3 DEF SpiShape, SpiAt
  <2>5. SpiCopied'
    BY <2>1, <2>3 DEF SpiCopied
  <2>6. SpiCounted'
    <3>1. spiJob'.bits - spiLeft' = 0
      BY <1>1, <2>2
    <3>. QED
      BY <2>2, <3>1, NothingShifted DEF SpiCounted
  <2>. QED
    BY <2>4, <2>5, <2>6
<1>. QED
  BY <1>3, <1>4

\* The steps that change the copy: to what, and where to.
LEMMA SpiChangeKeeps ==
    ASSUME SpiInv, SpiPulseLow \/ SpiPulseHigh \/ SpiSelect \/ SpiCountLast \/ SpiDeselect
    PROVE  SpiInv'
<1>. USE DEF SpiInv, SpiChange
<1>1. spiShadow \in Control /\ spiPc # "idle" /\ spiJob.line \in SpiLine /\ spiJob.bits \in Nat
  BY DEF SpiTypeOK, SpiPulseLow, SpiPulseHigh, SpiSelect, SpiCountLast, SpiDeselect
<1>. DEFINE low == Selected(spiShadow, spiJob.line, FALSE)
            high == Selected(spiShadow, spiJob.line, TRUE)
            SameElse == UNCHANGED <<spiJob, spiLeft, spiKnown, setter, spictl, sent, spiHistory>>
<1>2. /\ low \in Control /\ low.high = spiShadow.high \ {spiJob.line}
      /\ spiJob.line # "C" => low.mode = ModeSet[spiJob.line]
      /\ high \in Control /\ high.high = spiShadow.high \cup {spiJob.line}
  <2>1. low \in Control /\ low.high = (IF FALSE THEN spiShadow.high \cup {spiJob.line}
                                               ELSE spiShadow.high \ {spiJob.line})
    BY <1>1, SelectedIs, Zenon
  <2>2. spiJob.line # "C" => low.mode = ModeSet[spiJob.line]
    BY <1>1, SelectedIs, Zenon
  <2>3. high \in Control /\ high.high = (IF TRUE THEN spiShadow.high \cup {spiJob.line}
                                                ELSE spiShadow.high \ {spiJob.line})
    BY <1>1, SelectedIs, Zenon
  <2>. QED
    BY <2>1, <2>2, <2>3
<1>3. /\ spiPc' = "spiWrite" /\ SameElse
  BY DEF SpiPulseLow, SpiPulseHigh, SpiSelect, SpiCountLast, SpiDeselect
<1>4. \/ /\ spiPc = "low" /\ spiShadow' = low /\ spiThen' = "high"
      \/ /\ spiPc = "high" /\ spiShadow' = high /\ spiThen' = "select"
      \/ /\ spiPc = "select" /\ spiThen' = "words"
         /\ spiShadow' = [low EXCEPT !.count = FirstCount(spiJob.bits)]
      \/ /\ spiPc = "words" /\ spiThen' = "last" /\ spiLeft \in 1..15
         /\ spiShadow' = [spiShadow EXCEPT !.count = spiLeft]
      \/ /\ spiPc = "words" /\ spiThen' = "sent" /\ spiLeft = 0
         /\ spiShadow' = [high EXCEPT !.count = 0]
  BY DEF SpiPulseLow, SpiPulseHigh, SpiSelect, SpiCountLast, SpiDeselect
<1>. HIDE DEF low, high, SpiChange
<1>5. SpiTypeOK'
  <2>1. spiShadow' \in Control
    BY <1>1, <1>2, <1>4 DEF Control, FirstCount
  <2>. QED
    BY <1>3, <1>4, <2>1 DEF SpiTypeOK, spiHistory
<1>6. ASSUME SpiAlone' PROVE SpiShape' /\ SpiCopied' /\ SpiCounted'
  <2>1. SpiAlone
    BY <1>3, <1>6 DEF SpiAlone, spiHistory
  <2>2. SpiShape /\ SpiCopied /\ SpiCounted
    BY <2>1
  <2>3. UNCHANGED <<spiJob, spiLeft, spiKnown, setter, spictl, sent, spiBefore>>
    BY <1>3 DEF spiHistory
  <2>4. SpiShape'
    <3>1. CASE spiPc = "low"
      BY <1>2, <1>3, <1>4, <2>2, <2>3, <3>1 DEF SpiShape, SpiAt
    <3>2. CASE spiPc = "high"
      BY <1>1, <1>2, <1>3, <1>4, <2>2, <2>3, <3>2 DEF SpiShape, SpiAt
    <3>3. CASE spiPc = "select"
      BY <1>1, <1>2, <1>3, <1>4, <2>2, <2>3, <3>3 DEF SpiShape, SpiAt, Control, FirstCount
    <3>4. CASE spiPc = "words" /\ spiThen' = "last"
      BY <1>1, <1>3, <1>4, <2>2, <2>3, <3>4 DEF SpiShape, SpiAt, Control
    <3>5. CASE spiPc = "words" /\ spiThen' = "sent"
      BY <1>1, <1>2, <1>3, <1>4, <2>2, <2>3, <3>5 DEF SpiShape, SpiAt, Control
    <3>. QED
      BY <1>4, <3>1, <3>2, <3>3, <3>4, <3>5
  <2>5. SpiCopied'
    BY <1>1, <1>3, <2>2, <2>3 DEF SpiCopied
  <2>6. SpiCounted'
    BY <1>1, <2>2, <2>3 DEF SpiCounted
  <2>. QED
    BY <2>4, <2>5, <2>6
<1>. QED
  BY <1>5, <1>6

LEMMA SpiShiftKeeps ==
    ASSUME SpiInv, SpiWord \/ SpiLastWord
    PROVE  SpiInv'
<1>. USE DEF SpiInv
<1>1. /\ sent' = Append(sent, spictl) /\ spiPc' = "words" /\ spiPc # "idle"
      /\ UNCHANGED <<spiJob, spiShadow, spiKnown, spiThen, setter, spictl, spiBefore, crossed,
                     spiBehind>>
  BY DEF SpiWord, SpiLastWord, SpiShift, spiCopy, spiHistory
<1>2. \/ spiPc = "words" /\ spiLeft > 15 /\ spiLeft' = spiLeft - 16
      \/ spiPc = "last" /\ spiLeft' = 0
  BY DEF SpiWord, SpiLastWord, SpiShift
<1>3. SpiTypeOK'
  <2>1. sent' \in Seq(Control)
    BY <1>1 DEF SpiTypeOK
  <2>2. spiLeft' \in Nat
    BY <1>2 DEF SpiTypeOK
  <2>. QED
    BY <1>1, <2>1, <2>2 DEF SpiTypeOK
<1>4. ASSUME SpiAlone' PROVE SpiShape' /\ SpiCopied' /\ SpiCounted'
  <2>1. SpiShape /\ SpiCopied /\ SpiCounted
    BY <1>1, <1>4 DEF SpiAlone
  <2>2. spictl = spiShadow
    BY <1>1, <1>2, <2>1 DEF SpiCopied
  <2>3. spictl.count = spiLeft - spiLeft'
    BY <1>2, <2>1, <2>2 DEF SpiShape, SpiAt, SpiTypeOK
  <2>4. SpiShape'
    <3>1. \A n \in DOMAIN sent' :
             /\ sent'[n].high = spiBefore.high \ {spiJob.line}
             /\ spiJob.line # "C" => sent'[n].mode = ModeSet[spiJob.line]
      <4>1. SUFFICES ASSUME NEW n \in DOMAIN sent'
                     PROVE  /\ sent'[n].high = spiBefore.high \ {spiJob.line}
                            /\ spiJob.line # "C" => sent'[n].mode = ModeSet[spiJob.line]
        OBVIOUS
      <4>2. sent'[n] = spictl \/ (n \in DOMAIN sent /\ sent'[n] = sent[n])
        BY <1>1 DEF SpiTypeOK
      <4>. QED
        BY <1>2, <2>1, <2>2, <4>2 DEF SpiShape, SpiAt
    <3>. QED
      BY <1>1, <1>2, <2>1, <3>1 DEF SpiShape, SpiAt, SpiTypeOK
  <2>5. SpiCopied'
    BY <1>1, <1>2, <2>1 DEF SpiCopied
  <2>6. SpiCounted'
    <3>1. ShiftedTo(sent', spiJob.bits - spiLeft + spictl.count)
      BY <1>1, <2>1, ShiftedMore DEF SpiCounted, SpiTypeOK
    <3>2. spiJob.bits - spiLeft + spictl.count = spiJob'.bits - spiLeft'
      BY <1>1, <1>2, <2>3 DEF SpiTypeOK
    <3>. QED
      BY <3>1, <3>2 DEF SpiCounted
  <2>. QED
    BY <2>4, <2>5, <2>6
<1>. QED
  BY <1>3, <1>4

LEMMA SpiWriteKeeps ==
    ASSUME SpiInv, SpiWrite
    PROVE  SpiInv'
<1>. USE DEF SpiInv, SpiWrite, spiCopy, spiHistory
<1>1. SpiTypeOK'
  BY DEF SpiTypeOK
<1>2. ASSUME SpiAlone' PROVE SpiShape' /\ SpiCopied' /\ SpiCounted'
  <2>1. SpiShape /\ SpiCopied /\ SpiCounted
    BY <1>2 DEF SpiAlone
  <2>2. SpiShape'
    BY <2>1 DEF SpiShape, SpiAt, SpiTypeOK
  <2>3. SpiCopied'
    BY <2>1 DEF SpiCopied, SpiTypeOK
  <2>4. SpiCounted'
    BY <2>1 DEF SpiCounted
  <2>. QED
    BY <2>2, <2>3, <2>4
<1>. QED
  BY <1>1, <1>2

LEMMA SpiEndKeeps ==
    ASSUME SpiInv, SpiEnd
    PROVE  SpiInv'
<1>. USE DEF SpiInv, SpiEnd
<1>1. NoControl \in Control
  BY DEF NoControl, Control
<1>2. SpiTypeOK'
  BY <1>1 DEF SpiTypeOK
<1>3. SpiAlone' => SpiShape' /\ SpiCopied' /\ SpiCounted'
  BY DEF SpiAlone, SpiShape, SpiAt, SpiCopied, SpiCounted
<1>. QED
  BY <1>2, <1>3

\* SetOneRegister and raw writes: beside a command they cross it or go behind the copy.
LEMMA SpiSetterKeeps ==
    ASSUME SpiInv, (\E v \in ControlWords : SpiSetStore(v)) \/ SpiSetWrite \/ SpiWrittenBehind
    PROVE  SpiInv'
<1>. USE DEF SpiInv
<1>1. CASE \E v \in ControlWords : SpiSetStore(v)
  <2>1. PICK v \in ControlWords : SpiSetStore(v)
    BY <1>1
  <2>. USE <2>1 DEF SpiSetStore
  <2>2. SpiTypeOK'
    BY SpiAssumption DEF SpiTypeOK
  <2>3. SpiAlone' => SpiShape' /\ SpiCopied' /\ SpiCounted'
    BY DEF SpiAlone, SpiShape, SpiAt, SpiCopied, SpiCounted
  <2>. QED
    BY <2>2, <2>3
<1>2. CASE SpiSetWrite
  <2>. USE <1>2 DEF SpiSetWrite, spiCopy, spiHistory
  <2>1. SpiTypeOK'
    BY DEF SpiTypeOK
  <2>2. SpiAlone' => SpiShape' /\ SpiCopied' /\ SpiCounted'
    BY DEF SpiAlone, SpiShape, SpiAt, SpiCopied, SpiCounted
  <2>. QED
    BY <2>1, <2>2
<1>3. CASE SpiWrittenBehind
  <2>1. NoControl \in Control
    BY DEF NoControl, Control
  <2>2. SpiTypeOK'
    BY <1>3, <2>1, SpiAssumption DEF SpiWrittenBehind, SpiTypeOK
  <2>. QED
    BY <1>3, <2>2 DEF SpiWrittenBehind, SpiAlone
<1>. QED
  BY <1>1, <1>2, <1>3

LEMMA SpiKeeps == SpiInv /\ [SpiNext]_spiVars => SpiInv'
<1>. SUFFICES ASSUME SpiInv, [SpiNext]_spiVars PROVE SpiInv'
  OBVIOUS
<1>1. CASE SpiStep
  BY <1>1, SpiBeginKeeps, SpiChangeKeeps, SpiShiftKeeps, SpiWriteKeeps, SpiEndKeeps
     DEF SpiStep
<1>2. CASE (\E v \in ControlWords : SpiSetStore(v)) \/ SpiSetWrite \/ SpiWrittenBehind
  BY <1>2, SpiSetterKeeps
<1>3. CASE UNCHANGED spiVars
  BY <1>3 DEF spiVars, spiCopy, spiHistory, SpiInv, SpiTypeOK, SpiAlone, SpiShape, SpiAt,
              SpiCopied, SpiCounted
<1>. QED
  BY <1>1, <1>2, <1>3 DEF SpiNext

\* For any commands of up to 65535 bits and any values of SetOneRegister: a command that
\* nobody crosses shifts exactly its bits while its line alone is low, in its mode, and
\* leaves the lines as they were.
THEOREM SpiIsFramed == SpiSpec => []SpiFramed
<1>1. SpiInv => SpiFramed
  <2>. SUFFICES ASSUME SpiInv, SpiAlone PROVE SpiFramed
    BY DEF SpiAlone, SpiFramed
  <2>. USE DEF SpiInv
  <2>1. spiPc \in {"words", "sent"} => Shifted[Len(sent)] = spiJob.bits - spiLeft
    BY ShiftedIs DEF SpiCounted
  <2>2. spiPc \in {"words", "sent"} =>
           \A n \in DOMAIN sent :
              /\ sent[n].high = spiBefore.high \ {spiJob.line}
              /\ spiJob.line # "C" => sent[n].mode = ModeSet[spiJob.line]
    BY DEF SpiShape
  <2>3. spiPc = "sent" =>
           spictl.high = spiBefore.high \cup {spiJob.line} /\ spictl.count = 0
    BY DEF SpiShape, SpiAt, SpiCopied
  <2>4. spiPc # "spiWrite" /\ setter = <<>> /\ spiKnown => spictl = spiShadow
    BY DEF SpiCopied
  <2>. QED
    BY <2>1, <2>2, <2>3, <2>4 DEF SpiFramed
<1>. QED
  BY <1>1, SpiInitially, SpiKeeps, PTL DEF SpiSpec

-----------------------------------------------------------------------------
(* MamCache, for any number of indices, values and programs.                *)

MamJobs == [kind : {"record", "acquire"}, program : Programs, seq : SeqValues \cup {Filled}]

MamTypeOK ==
    /\ mamPc \in {"idle", "mam", "seq", "launch"}
    /\ mamPc # "idle" => mamJob \in MamJobs
    /\ mamAt \in Nat
    /\ mamShadow \in [MamIndex -> MamValues \cup {0}]
    /\ mam \in [MamIndex -> MamValues]
    /\ mamKnown \in BOOLEAN /\ seqKnown \in BOOLEAN /\ behind \in BOOLEAN

\* The copies are filled before a request walks its values, and it walks no further than
\* they go.
MamPlace ==
    /\ mamPc # "idle" => mamKnown
    /\ mamPc = "mam" => mamAt <= Len(mamJob.program)

\* A copy is what the board has, and the board has what it began with while there is none.
CopiesTrue ==
    /\ \A i \in MamIndex : mam[i] = IF mamKnown THEN mamShadow[i] ELSE Filled
    /\ seq = SeqCopy

\* What a request has walked is on the board.
MamProgress ==
    /\ mamPc = "mam" => \A i \in 1..mamAt : mam[i - 1] = mamJob.program[i]
    /\ mamPc = "launch" => seq = mamJob.seq

MamInv == MamTypeOK /\ MamPlace /\ (~behind => CopiesTrue /\ MamProgress)

-----------------------------------------------------------------------------
\* The driver is loaded with empty copies and a board that has just been powered up.
LEMMA MamInitially == MamInit => MamInv
<1>. SUFFICES ASSUME MamInit PROVE MamInv
  OBVIOUS
<1>1. MamTypeOK
  BY FilledAssumption DEF MamInit, MamTypeOK
<1>2. MamPlace /\ CopiesTrue /\ MamProgress
  BY DEF MamInit, MamPlace, CopiesTrue, SeqCopy, MamProgress
<1>. QED
  BY <1>1, <1>2 DEF MamInv

\* A program is a sequence of values, and its indices are among those of MAMDAT.
LEMMA ProgramValues ==
    ASSUME NEW p \in Programs
    PROVE  /\ Len(p) \in Nat /\ Len(p) <= MamCount
           /\ \A i \in 1..Len(p) : p[i] \in MamValues
BY ProgramsAssumption

LEMMA MamBeginKeeps ==
    ASSUME MamInv, NEW kind \in {"record", "acquire"}, NEW p \in Programs,
           NEW s \in SeqValues \cup {Filled}, MamBegin(kind, p, s)
    PROVE  MamInv'
<1>. USE DEF MamInv, MamBegin
<1>1. MamTypeOK'
  BY FilledAssumption DEF MamTypeOK, MamJobs, MamFirst
<1>2. MamPlace'
  BY ProgramValues DEF MamPlace
<1>3. ASSUME ~behind' PROVE CopiesTrue' /\ MamProgress'
  <2>1. \A i \in MamIndex : mam[i] = mamShadow'[i]
    BY <1>3 DEF CopiesTrue, MamFirst
  <2>. QED
    BY <1>3, <2>1 DEF CopiesTrue, MamProgress, SeqCopy
<1>. QED
  BY <1>1, <1>2, <1>3

\* The heart: a write that is left out would have changed nothing.
LEMMA MamEntryKeeps == MamInv /\ MamEntry => MamInv'
<1>. SUFFICES ASSUME MamInv, MamEntry PROVE MamInv'
  OBVIOUS
<1>. DEFINE data == mamJob.program[mamAt + 1]
<1>1. /\ mamJob \in MamJobs /\ mamJob.program \in Programs
      /\ mamAt \in MamIndex /\ data \in MamValues
      /\ mamAt + 1 <= Len(mamJob.program)
  BY ProgramValues, IndexAssumption
     DEF MamInv, MamTypeOK, MamPlace, MamEntry, MamJobs, MamIndex
<1>2. MamTypeOK'
  BY <1>1 DEF MamInv, MamTypeOK, MamEntry
<1>3. MamPlace'
  BY <1>1 DEF MamInv, MamTypeOK, MamPlace, MamEntry
<1>4. ASSUME ~behind' PROVE CopiesTrue' /\ MamProgress'
  <2>1. CopiesTrue /\ MamProgress /\ mamKnown /\ mamPc = "mam"
    BY <1>4 DEF MamInv, MamEntry, MamPlace
  <2>2. mam'[mamAt] = data /\ \A i \in MamIndex \ {mamAt} : mam'[i] = mam[i]
    BY <1>1, <2>1 DEF MamInv, MamTypeOK, MamEntry, MamSame, CopiesTrue
  <2>3. CopiesTrue'
    <3>1. mamShadow'[mamAt] = data
          /\ \A i \in MamIndex \ {mamAt} : mamShadow'[i] = mamShadow[i]
      BY <1>1 DEF MamInv, MamTypeOK, MamEntry
    <3>. QED
      BY <2>1, <2>2, <3>1 DEF MamEntry, CopiesTrue, SeqCopy
  <2>4. ASSUME NEW i \in 1..mamAt + 1 PROVE mam'[i - 1] = mamJob.program[i]
    <3>1. CASE i = mamAt + 1
      BY <3>1, <1>1, <2>2 DEF MamInv, MamTypeOK
    <3>2. CASE i # mamAt + 1
      <4>1. i \in 1..mamAt /\ i - 1 \in MamIndex \ {mamAt}
        BY <3>2, <1>1, IndexAssumption DEF MamIndex
      <4>. QED
        BY <4>1, <2>1, <2>2 DEF MamProgress
    <3>. QED
      BY <3>1, <3>2
  <2>5. MamProgress'
    BY <2>1, <2>4 DEF MamEntry, MamProgress
  <2>. QED
    BY <2>3, <2>5
<1>. QED
  BY <1>2, <1>3, <1>4 DEF MamInv

LEMMA MamSequenceKeeps == MamInv /\ MamSequence => MamInv'
<1>. SUFFICES ASSUME MamInv, MamSequence PROVE MamInv'
  OBVIOUS
<1>1. MamTypeOK' /\ MamPlace'
  BY DEF MamInv, MamTypeOK, MamPlace, MamSequence
<1>2. ASSUME ~behind' PROVE CopiesTrue' /\ MamProgress'
  BY <1>2 DEF MamInv, MamSequence, CopiesTrue, SeqCopy, MamProgress
<1>. QED
  BY <1>1, <1>2 DEF MamInv

LEMMA MamReleaseKeeps == MamInv /\ (MamGo \/ MamLaunch) => MamInv'
<1>. SUFFICES ASSUME MamInv, MamGo \/ MamLaunch PROVE MamInv'
  OBVIOUS
<1>1. MamTypeOK' /\ MamPlace'
  BY DEF MamInv, MamTypeOK, MamPlace, MamGo, MamLaunch, MamRelease, copies
<1>2. ASSUME ~behind' PROVE CopiesTrue' /\ MamProgress'
  BY <1>2 DEF MamInv, MamGo, MamLaunch, MamRelease, copies, CopiesTrue, SeqCopy, MamProgress
<1>. QED
  BY <1>1, <1>2 DEF MamInv

LEMMA MamBehindKeeps ==
    MamInv /\ (MamWrittenBehind \/ UNCHANGED mamVars) => MamInv'
<1>1. ASSUME MamInv, MamWrittenBehind PROVE MamInv'
  <2>1. behind'
    BY <1>1 DEF MamWrittenBehind
  <2>2. mam' \in [MamIndex -> MamValues]
    BY <1>1, FilledAssumption DEF MamWrittenBehind, MamInv, MamTypeOK
  <2>3. UNCHANGED <<mamPc, mamJob, mamAt, copies>>
    BY <1>1 DEF MamWrittenBehind
  <2>. QED
    BY <1>1, <2>1, <2>2, <2>3 DEF MamInv, MamTypeOK, MamPlace, copies
<1>2. ASSUME MamInv, UNCHANGED mamVars PROVE MamInv'
  BY <1>2 DEF mamVars, copies, MamInv, MamTypeOK, MamPlace, CopiesTrue, SeqCopy, MamProgress
<1>. QED
  BY <1>1, <1>2

LEMMA MamKeeps == MamInv /\ [MamNext]_mamVars => MamInv'
<1>. SUFFICES ASSUME MamInv, [MamNext]_mamVars PROVE MamInv'
  OBVIOUS
<1>1. CASE \E p \in Programs : MamBegin("record", p, Filled)
  BY <1>1, MamBeginKeeps
<1>2. CASE \E p \in Programs, s \in SeqValues : MamBegin("acquire", p, s)
  BY <1>2, MamBeginKeeps
<1>3. CASE MamEntry
  BY <1>3, MamEntryKeeps
<1>4. CASE MamSequence
  BY <1>4, MamSequenceKeeps
<1>5. CASE MamGo \/ MamLaunch
  BY <1>5, MamReleaseKeeps
<1>6. CASE MamWrittenBehind \/ UNCHANGED mamVars
  BY <1>6, MamBehindKeeps
<1>. QED
  BY <1>1, <1>2, <1>3, <1>4, <1>5, <1>6 DEF MamNext

\* The board runs the values of the request, also those whose write was left out, for
\* any number of indices and any programs, until it is changed behind the copies.
THEOREM MamRunsAlways == MamSpec => []MamRuns
<1>1. MamInv => MamRuns
  BY DEF MamInv, MamProgress, MamRuns
<1>. QED
  BY <1>1, MamInitially, MamKeeps, PTL DEF MamSpec

-----------------------------------------------------------------------------
(* DescriptorTable.  Pages and slots.                                       *)

DtSpec == DtInit(Sources, TableFrames) /\ [][DtNext]_dtVars

LEMMA Divided ==
    ASSUME NEW a \in Nat, NEW P \in Nat \ {0}
    PROVE  a \div P \in Nat /\ a % P \in 0..P - 1 /\ a = P * (a \div P) + (a % P)
<1>. DEFINE q == a \div P
            r == a % P
<1>1. q \in Int /\ r \in 0..P - 1 /\ a = P * q + r
  OBVIOUS
<1>. HIDE DEF q, r
<1>2. ~(q <= -1)
  <2>1. ASSUME q <= -1 PROVE FALSE
    <3>1. P * q <= -P
      BY <1>1, <2>1
    <3>. QED
      BY <1>1, <3>1
  <2>. QED
    BY <2>1
<1>3. q \in Nat
  BY <1>1, <1>2
<1>. QED
  BY <1>1, <1>3 DEF q, r

LEMMA Below ==
    ASSUME NEW P \in Nat \ {0}, NEW q \in Int, NEW n \in Int, NEW r \in Int, r < P, 0 <= r
    PROVE  q < n <=> P * q + r < P * n
<1>1. ASSUME q < n PROVE P * q + r < P * n
  <2>1. P * (q + 1) <= P * n
    BY <1>1
  <2>2. P * (q + 1) = P * q + P
    OBVIOUS
  <2>3. P * q \in Int /\ P * n \in Int
    OBVIOUS
  <2>. QED
    BY <2>1, <2>2, <2>3
<1>2. ASSUME ~(q < n) PROVE ~(P * q + r < P * n)
  <2>1. P * n <= P * q
    BY <1>2
  <2>2. P * q \in Int /\ P * n \in Int
    OBVIOUS
  <2>. QED
    BY <2>1, <2>2
<1>. QED
  BY <1>1, <1>2

LEMMA Quotient ==
    ASSUME NEW a \in Nat, NEW P \in Nat \ {0}, NEW q \in Nat, NEW r \in 0..P - 1,
           a = P * q + r
    PROVE  a \div P = q /\ a % P = r
<1>. DEFINE Q == a \div P
            R == a % P
<1>1. Q \in Nat /\ R \in 0..P - 1 /\ a = P * Q + R
  BY Divided
<1>. HIDE DEF Q, R
<1>2. P * Q \in Int /\ P * q \in Int
  BY <1>1
<1>3. ~(q < Q)
  BY <1>1, <1>2, Below
<1>4. ~(Q < q)
  BY <1>1, <1>2, Below
<1>5. Q = q
  BY <1>1, <1>3, <1>4
<1>6. R = r
  BY <1>1, <1>2, <1>5
<1>. QED
  BY <1>5, <1>6 DEF Q, R

\* The page of a byte of the buffer has a frame.
LEMMA PageHasFrame ==
    ASSUME source \in Sources, NEW page \in Nat, NEW at \in Nat, at < source.length,
           PageBytes * page <= source.offset + at
    PROVE  source.frames[page] \in Nat
<1>1. /\ PageBytes \in Nat \ {0} /\ MaxBytes \in Nat
      /\ source.offset \in 0..PageBytes - 1 /\ source.length \in 1..MaxBytes
      /\ source.frames \in SourceFrames
  BY GeometryAssumption DEF Sources
<1>2. PageBytes * page < PageBytes + MaxBytes
  BY <1>1
<1>3. page \in 0..MaxBytes
  <2>1. ASSUME page > MaxBytes PROVE FALSE
    <3>1. PageBytes * page >= PageBytes * (MaxBytes + 1)
      BY <1>1, <2>1
    <3>2. PageBytes * (MaxBytes + 1) = PageBytes * MaxBytes + PageBytes
      BY <1>1
    <3>3. PageBytes * MaxBytes >= MaxBytes
      BY <1>1
    <3>. QED
      BY <1>1, <1>2, <3>1, <3>2, <3>3
  <2>. QED
    BY <1>1, <2>1
<1>4. page * PageBytes < PageBytes + MaxBytes
  BY <1>1, <1>2
<1>. QED
  BY <1>1, <1>3, <1>4, FramesAssumption

-----------------------------------------------------------------------------
(* DescriptorTable.  What the build has done at each step.                  *)

Chunk == [at : Nat, count : Nat]
Slot == [count : Nat, address : Nat]
Cursor == [mdl : Nat, remaining : Nat, pageIndex : Nat, pageOffset : Nat]

DtTypeOK ==
    /\ source \in Sources /\ tableFrame \in TableFrames
    /\ dtPc \in {"chain", "alloc", "table", "done", "failed"}
    /\ chain \in Seq(Chunk) /\ table \in [Slots -> Slot]
    /\ tableSlot \in Nat /\ tableSlot < SlotsPerPage * TablePages
    /\ totalDwords \in Nat /\ cursor \in Cursor

\* The chunks follow one another, and those that are locked are all of the buffer.
DtChain ==
    /\ \A i \in 1..Len(chain) : chain[i].count > 0
    /\ chain # <<>> => chain[1].at = 0
    /\ \A i \in 1..Len(chain) - 1 : chain[i + 1].at = chain[i].at + chain[i].count
    /\ \A i \in 1..Len(chain) : chain[i].at + chain[i].count <= source.length
    /\ dtPc \in {"alloc", "table", "done"} => LockedBytes = source.length

\* The bytes that have been described, and where the loops are.
Done == (chain[cursor.mdl].at + chain[cursor.mdl].count) - cursor.remaining

DtCursor ==
    dtPc \in {"table", "done"} =>
        LET mdl == chain[cursor.mdl] IN
        /\ cursor.mdl \in 1..Len(chain) /\ cursor.remaining <= mdl.count
        /\ 4 * totalDwords = Done
        /\ cursor.remaining # 0 =>
              /\ cursor.pageOffset < PageBytes
              /\ source.offset + Done =
                    PageBytes * (FirstPage(mdl) + cursor.pageIndex) + cursor.pageOffset

\* Slots to n describe the bytes before each slot: the one that ends a page is a link to
\* the next page, and any other moves some bytes.
IsLink(s) == s % SlotsPerPage = SlotsPerPage - 1
LinksOn(s, t) ==
    /\ s \div SlotsPerPage + 1 < TablePages
    /\ t[s] = [count |-> 0, address |-> tableFrame[s \div SlotsPerPage + 1] * PageBytes]
Moves(s, t, moved) ==
    /\ t[s].count > 0
    /\ \A i \in 0..4 * t[s].count - 1 : t[s].address + i = ByteAt(moved + i + 1)
Described(n, t, moved) ==
    /\ moved \in [0..n -> Nat] /\ moved[0] = 0
    /\ \A s \in 0..n - 1 :
          /\ IsLink(s) => LinksOn(s, t) /\ moved[s + 1] = moved[s]
          /\ ~IsLink(s) => Moves(s, t, moved[s]) /\ moved[s + 1] = moved[s] + 4 * t[s].count

DtSlots ==
    /\ dtPc \in {"chain", "alloc"} => tableSlot = 0 /\ totalDwords = 0
    /\ dtPc \in {"table", "done"} =>
          \E moved : Described(tableSlot, table, moved) /\ moved[tableSlot] = Done

DtEnd ==
    /\ dtPc = "done" =>
          /\ cursor.mdl = Len(chain) /\ cursor.remaining = 0
          /\ table[tableSlot] = ZeroEntry
    /\ dtPc # "failed" => dtStatus # "overflow"
    /\ dtStatus = "overflow" =>
          tableSlot - (tableSlot \div SlotsPerPage) = TablePages * (SlotsPerPage - 1)

DtInv == DtTypeOK /\ DtChain /\ DtCursor /\ DtSlots /\ DtEnd

LEMMA DtStarts == DtInit(Sources, TableFrames) => DtInv
<1>. SUFFICES ASSUME DtInit(Sources, TableFrames) PROVE DtInv
  OBVIOUS
<1>1. SlotsPerPage * TablePages > 0
  BY GeometryAssumption
<1>2. DtTypeOK
  BY <1>1, GeometryAssumption DEF DtInit, DtTypeOK, Slot, ZeroEntry, Cursor, Slots
<1>. QED
  BY <1>2 DEF DtInit, DtInv, DtChain, DtCursor, DtSlots, DtEnd

\* A refusal keeps what the table had.
LEMMA FailKeeps ==
    ASSUME DtInv, NEW status, Fail(status),
           status = "overflow" =>
              tableSlot - (tableSlot \div SlotsPerPage) = TablePages * (SlotsPerPage - 1)
    PROVE  DtInv'
<1>1. DtTypeOK'
  BY DEF DtInv, DtTypeOK, Fail
<1>2. DtChain'
  BY DEF DtInv, DtChain, Fail
<1>3. DtCursor' /\ DtSlots' /\ DtEnd'
  BY DEF DtInv, DtCursor, DtSlots, DtEnd, Fail
<1>. QED
  BY <1>1, <1>2, <1>3 DEF DtInv

LEMMA LockedIs ==
    ASSUME DtTypeOK, DtChain
    PROVE  LockedBytes \in Nat /\ LockedBytes <= source.length
<1>1. chain \in Seq(Chunk) /\ source.length \in Nat /\ Len(chain) \in Nat
  BY DEF DtTypeOK, Sources
<1>2. CASE chain = <<>>
  BY <1>1, <1>2 DEF LockedBytes
<1>3. CASE chain # <<>>
  <2>1. Len(chain) \in 1..Len(chain)
    BY <1>1, <1>3
  <2>2. chain[Len(chain)] \in Chunk
    BY <1>1, <2>1
  <2>. QED
    BY <1>1, <1>3, <2>1, <2>2 DEF LockedBytes, DtChain, Chunk
<1>. QED
  BY <1>2, <1>3

LEMMA LockKeeps ==
    ASSUME DtInv, LockChunk
    PROVE  DtInv'
<1>. DEFINE n == Len(chain)
            c == [at |-> LockedBytes, count |-> Least(source.length - LockedBytes, ChunkBytes)]
<1>1. /\ LockedBytes \in Nat /\ LockedBytes < source.length /\ source.length \in Nat
      /\ ChunkBytes \in Nat \ {0} /\ chain \in Seq(Chunk) /\ n \in Nat
  BY LockedIs, GeometryAssumption DEF DtInv, DtTypeOK, LockChunk, Sources
<1>2. c \in Chunk /\ c.at = LockedBytes /\ c.count > 0 /\ c.at + c.count <= source.length
  BY <1>1 DEF Chunk, Least
<1>3. chain' = Append(chain, c)
  BY DEF LockChunk
<1>. HIDE DEF c
<1>4. /\ chain' \in Seq(Chunk) /\ Len(chain') = n + 1 /\ chain'[n + 1] = c
      /\ \A i \in 1..n : chain'[i] = chain[i]
  BY <1>1, <1>2, <1>3
<1>5. DtTypeOK'
  BY <1>4 DEF DtInv, DtTypeOK, LockChunk
<1>6. dtPc' = "chain" /\ source' = source /\ dtPc = "chain"
  BY DEF LockChunk
<1>7. /\ n = 0 => LockedBytes = 0
      /\ n # 0 => LockedBytes = chain[n].at + chain[n].count
  BY <1>1 DEF LockedBytes
<1>8. DtChain'
  <2>1. \A i \in 1..n + 1 : chain'[i].count > 0 /\ chain'[i].at + chain'[i].count <= source.length
    BY <1>1, <1>2, <1>4 DEF DtInv, DtChain
  <2>2. chain'[1].at = 0
    BY <1>1, <1>2, <1>4, <1>7 DEF DtInv, DtChain
  <2>3. \A i \in 1..n : chain'[i + 1].at = chain'[i].at + chain'[i].count
    BY <1>1, <1>2, <1>4, <1>7 DEF DtInv, DtChain
  <2>. QED
    BY <1>1, <1>4, <1>6, <2>1, <2>2, <2>3 DEF DtChain
<1>9. DtCursor' /\ DtSlots' /\ DtEnd'
  BY <1>6 DEF DtInv, DtCursor, DtSlots, DtEnd, LockChunk
<1>. QED
  BY <1>5, <1>8, <1>9 DEF DtInv

LEMMA BuiltKeeps ==
    ASSUME DtInv, ChainBuilt
    PROVE  DtInv'
<1>1. LockedBytes = source.length
  BY LockedIs DEF DtInv, DtTypeOK, ChainBuilt, Sources
<1>2. DtTypeOK'
  BY DEF DtInv, DtTypeOK, ChainBuilt
<1>3. DtChain'
  BY <1>1 DEF DtInv, DtChain, ChainBuilt, LockedBytes
<1>4. DtCursor' /\ DtSlots' /\ DtEnd'
  BY DEF DtInv, DtCursor, DtSlots, DtEnd, ChainBuilt
<1>. QED
  BY <1>2, <1>3, <1>4 DEF DtInv

\* The loops begin at the byte offset of an MDL.
LEMMA Entered ==
    ASSUME DtTypeOK, NEW i \in 1..Len(chain), cursor' = EnterMdl(i),
           UNCHANGED <<source, chain>>
    PROVE  /\ cursor' \in Cursor /\ cursor'.mdl = i /\ cursor'.remaining = chain[i].count
           /\ Done' = chain[i].at /\ cursor'.pageOffset < PageBytes
           /\ source.offset + chain[i].at =
                 PageBytes * (FirstPage(chain[i]) + cursor'.pageIndex) + cursor'.pageOffset
<1>1. /\ chain[i].at \in Nat /\ chain[i].count \in Nat /\ source.offset \in Nat
      /\ PageBytes \in Nat \ {0} /\ i \in Nat
  <2>1. chain \in Seq(Chunk) /\ source \in Sources /\ Len(chain) \in Nat
    BY DEF DtTypeOK
  <2>2. chain[i] \in Chunk
    BY <2>1
  <2>3. source.offset \in 0..PageBytes - 1 /\ PageBytes \in Nat \ {0}
    BY <2>1, GeometryAssumption DEF Sources
  <2>4. i \in Nat
    BY <2>1
  <2>. QED
    BY <2>2, <2>3, <2>4 DEF Chunk
<1>. DEFINE a == source.offset + chain[i].at
<1>2. a \in Nat
  BY <1>1
<1>3. a \div PageBytes \in Nat /\ a % PageBytes \in 0..PageBytes - 1
      /\ a = PageBytes * (a \div PageBytes) + (a % PageBytes)
  <2>. HIDE DEF a
  <2>. QED
    BY <1>1, <1>2, Divided
<1>4. /\ cursor'.mdl = i /\ cursor'.remaining = chain[i].count /\ cursor'.pageIndex = 0
      /\ cursor'.pageOffset = a % PageBytes /\ FirstPage(chain[i]) = a \div PageBytes
  BY DEF EnterMdl, ByteOffset, FirstPage
<1>5. cursor' \in Cursor
  BY <1>1, <1>3 DEF EnterMdl, ByteOffset, Cursor
<1>6. Done' = chain[i].at
  BY <1>1, <1>4 DEF Done
<1>. HIDE DEF a
<1>7. a = PageBytes * (a \div PageBytes + 0) + (a % PageBytes)
  BY <1>3
<1>. QED
  BY <1>1, <1>3, <1>4, <1>5, <1>6, <1>7 DEF a

LEMMA AllocateKeeps ==
    ASSUME DtInv, AllocateTable
    PROVE  DtInv'
<1>1. ASSUME NEW status \in {"no memory", "not supported"}, Fail(status) PROVE DtInv'
  BY <1>1, FailKeeps
<1>2. CASE dtPc' = "table" /\ cursor' = EnterMdl(1)
           /\ UNCHANGED <<source, tableFrame, chain, table, tableSlot, totalDwords, dtStatus>>
  <2>1. /\ chain # <<>> /\ 1 \in 1..Len(chain) /\ dtPc = "alloc"
        /\ chain \in Seq(Chunk) /\ chain[1] \in Chunk /\ chain[1].at = 0
    <3>1. chain \in Seq(Chunk) /\ source.length > 0 /\ dtPc = "alloc"
      <4>1. source \in Sources /\ chain \in Seq(Chunk) /\ dtPc = "alloc"
        BY DEF DtInv, DtTypeOK, AllocateTable
      <4>2. source.length \in 1..MaxBytes /\ MaxBytes \in Nat
        BY <4>1, GeometryAssumption DEF Sources
      <4>. QED
        BY <4>1, <4>2
    <3>2. chain # <<>>
      BY <3>1 DEF DtInv, DtChain, LockedBytes
    <3>3. 1 \in 1..Len(chain)
      BY <3>1, <3>2
    <3>. QED
      BY <3>1, <3>2, <3>3 DEF DtInv, DtChain
  <2>2. /\ cursor' \in Cursor /\ cursor'.mdl = 1 /\ cursor'.remaining = chain[1].count
        /\ Done' = 0 /\ cursor'.pageOffset < PageBytes
        /\ source.offset + chain[1].at =
              PageBytes * (FirstPage(chain[1]) + cursor'.pageIndex) + cursor'.pageOffset
    <3>1. DtTypeOK /\ UNCHANGED <<source, chain>> /\ cursor' = EnterMdl(1)
      BY <1>2 DEF DtInv
    <3>. QED
      BY <2>1, <3>1, Entered
  <2>3. DtTypeOK'
    BY <1>2, <2>2 DEF DtInv, DtTypeOK
  <2>4. DtChain'
    BY <1>2, <2>1 DEF DtInv, DtChain, LockedBytes
  <2>5. tableSlot' = 0 /\ totalDwords' = 0
    BY <1>2, <2>1 DEF DtInv, DtSlots
  <2>6. DtCursor'
    <3>1. cursor'.remaining <= chain[1].count
      BY <2>1, <2>2 DEF Chunk
    <3>. QED
      BY <1>2, <2>1, <2>2, <2>5, <3>1 DEF DtCursor, FirstPage
  <2>7. DtSlots'
    <3>. DEFINE moved == [s \in 0..0 |-> 0]
    <3>1. Described(tableSlot, table, moved)'
      BY <2>5 DEF Described
    <3>2. moved[tableSlot'] = Done'
      BY <2>2, <2>5
    <3>. QED
      BY <1>2, <3>1, <3>2 DEF DtSlots
  <2>8. DtEnd'
    BY <1>2, <2>1 DEF DtInv, DtEnd
  <2>. QED
    BY <2>3, <2>4, <2>6, <2>7, <2>8 DEF DtInv
<1>. QED
  BY <1>1, <1>2 DEF AllocateTable

LEMMA NextKeeps ==
    ASSUME DtInv, NextMdl
    PROVE  DtInv'
<1>. DEFINE i == cursor.mdl
<1>1. /\ dtPc = "table" /\ cursor.remaining = 0 /\ cursor' = EnterMdl(i + 1)
      /\ UNCHANGED <<source, tableFrame, dtPc, chain, table, tableSlot, totalDwords, dtStatus>>
  BY DEF NextMdl
<1>2. /\ chain \in Seq(Chunk) /\ Len(chain) \in Nat /\ i \in 1..Len(chain)
      /\ i + 1 \in 1..Len(chain) /\ i \in 1..Len(chain) - 1
  <2>1. chain \in Seq(Chunk) /\ Len(chain) \in Nat /\ i \in 1..Len(chain) /\ i < Len(chain)
    BY <1>1 DEF DtInv, DtTypeOK, DtCursor, NextMdl
  <2>. QED
    BY <2>1
<1>3. chain[i] \in Chunk /\ chain[i + 1] \in Chunk
  BY <1>2
<1>4. /\ cursor' \in Cursor /\ cursor'.mdl = i + 1 /\ cursor'.remaining = chain[i + 1].count
      /\ Done' = chain[i + 1].at /\ cursor'.pageOffset < PageBytes
      /\ source.offset + chain[i + 1].at =
            PageBytes * (FirstPage(chain[i + 1]) + cursor'.pageIndex) + cursor'.pageOffset
  <2>1. DtTypeOK /\ UNCHANGED <<source, chain>> /\ cursor' = EnterMdl(i + 1)
    BY <1>1 DEF DtInv
  <2>. QED
    BY <1>2, <2>1, Entered
<1>5. Done' = Done
  <2>1. Done = chain[i].at + chain[i].count
    BY <1>1, <1>3 DEF Done, Chunk
  <2>. QED
    BY <1>2, <1>4, <2>1 DEF DtInv, DtChain
<1>6. DtTypeOK' /\ DtChain'
  BY <1>1, <1>4 DEF DtInv, DtTypeOK, DtChain, LockedBytes
<1>7. DtCursor'
  <2>1. cursor'.remaining <= chain[i + 1].count
    BY <1>3, <1>4 DEF Chunk
  <2>2. 4 * totalDwords = Done
    BY <1>1 DEF DtInv, DtCursor
  <2>. QED
    BY <1>1, <1>2, <1>4, <1>5, <2>1, <2>2 DEF DtCursor, FirstPage
<1>8. DtSlots'
  <2>1. PICK moved : Described(tableSlot, table, moved) /\ moved[tableSlot] = Done
    BY <1>1 DEF DtInv, DtSlots
  <2>2. Described(tableSlot, table, moved)'
    BY <1>1, <2>1 DEF Described, LinksOn, Moves, ByteAt
  <2>. QED
    BY <1>1, <1>5, <2>1, <2>2 DEF DtSlots
<1>9. DtEnd'
  BY <1>1 DEF DtInv, DtEnd
<1>. QED
  BY <1>6, <1>7, <1>8, <1>9 DEF DtInv

-----------------------------------------------------------------------------
(* DescriptorTable.  A page of the buffer takes a slot.                     *)

\* Where a slot is in its page; behind a link begins the next page.
LEMMA SlotIs ==
    ASSUME NEW s \in Nat, s < SlotsPerPage * TablePages
    PROVE  /\ s \div SlotsPerPage \in 0..TablePages - 1 /\ s \in Slots
           /\ ~IsLink(s) => s + 1 < SlotsPerPage * TablePages /\ (s + 1) % SlotsPerPage # 0
           /\ IsLink(s) /\ s \div SlotsPerPage + 1 < TablePages =>
                 /\ s + 1 = SlotsPerPage * (s \div SlotsPerPage + 1)
                 /\ s + 1 < SlotsPerPage * TablePages /\ ~IsLink(s + 1)
                 /\ (s + 1) % SlotsPerPage = 0
                 /\ (s + 1) \div SlotsPerPage = s \div SlotsPerPage + 1
<1>. DEFINE N == SlotsPerPage
            q == s \div N
            r == s % N
<1>1. N \in Nat \ {0} /\ N >= 2 /\ TablePages \in Nat \ {0}
  BY GeometryAssumption
<1>2. q \in Nat /\ r \in 0..N - 1 /\ s = N * q + r
  BY <1>1, Divided
<1>3. s \in Slots
  <2>1. TablePages * SlotsPerPage = SlotsPerPage * TablePages
    BY <1>1
  <2>. DEFINE k == SlotsPerPage * TablePages
  <2>2. k \in Nat /\ s < k
    BY <1>1
  <2>3. Slots = 0..k - 1
    BY <2>1 DEF Slots
  <2>. HIDE DEF k
  <2>. QED
    BY <2>2, <2>3
<1>. DEFINE all == N * TablePages
<1>4. s < all
  OBVIOUS
<1>. HIDE DEF q, r, N
<1>5. q < TablePages
  BY <1>1, <1>2, <1>4, Below
<1>. HIDE DEF all
<1>6. ASSUME r # N - 1 PROVE s + 1 < all /\ (s + 1) % N # 0
  <2>1. r + 1 \in 0..N - 1 /\ s + 1 = N * q + (r + 1) /\ s + 1 \in Nat
    <3>1. N * q \in Int
      BY <1>1, <1>2
    <3>. QED
      BY <1>1, <1>2, <1>6, <3>1
  <2>2. s + 1 < all
    <3>1. /\ r + 1 \in Int /\ r + 1 < N /\ 0 <= r + 1 /\ N \in Nat \ {0}
          /\ q \in Int /\ TablePages \in Int
      BY <1>1, <1>2, <2>1
    <3>2. q < TablePages <=> N * q + (r + 1) < N * TablePages
      BY <3>1, Below
    <3>. QED
      BY <1>5, <2>1, <3>2 DEF all
  <2>3. (s + 1) % N = r + 1
    BY <1>1, <1>2, <2>1, Quotient
  <2>. QED
    BY <1>2, <2>2, <2>3
<1>7. ASSUME r = N - 1, q + 1 < TablePages
      PROVE  /\ s + 1 = N * (q + 1) /\ s + 1 < all
             /\ (s + 1) % N = 0 /\ (s + 1) \div N = q + 1
  <2>1. s + 1 = N * (q + 1) /\ s + 1 = N * (q + 1) + 0 /\ s + 1 \in Nat
    <3>1. N * q \in Int /\ N * (q + 1) = N * q + N
      BY <1>1, <1>2
    <3>. QED
      BY <1>1, <1>2, <1>7, <3>1
  <2>2. s + 1 < all
    BY <1>1, <1>2, <1>7, <2>1, Below DEF all
  <2>3. (s + 1) % N = 0 /\ (s + 1) \div N = q + 1
    <3>1. 0 \in 0..N - 1 /\ q + 1 \in Nat /\ N \in Nat \ {0}
      BY <1>1, <1>2
    <3>. QED
      BY <2>1, <3>1, Quotient
  <2>. QED
    BY <2>1, <2>2, <2>3
<1>8. q \in 0..TablePages - 1
  BY <1>1, <1>2, <1>5
<1>. QED
  BY <1>1, <1>3, <1>6, <1>7, <1>8 DEF IsLink, q, r, N, all

\* The rest of a page, or of the chunk, lies at one place in memory.
LEMMA PageIs ==
    ASSUME DtInv, dtPc = "table", cursor.remaining # 0
    PROVE  /\ BytesThisPage \in 1..cursor.remaining /\ cursor.remaining \in Nat
           /\ cursor.pageOffset \in 0..PageBytes - 1 /\ cursor.pageIndex \in Nat
           /\ BytesThisPage <= PageBytes - cursor.pageOffset
           /\ BytesThisPage < cursor.remaining =>
                 BytesThisPage = PageBytes - cursor.pageOffset
           /\ FirstPage(chain[cursor.mdl]) \in Nat /\ Physical \in Nat
           /\ \A i \in 0..BytesThisPage - 1 : Physical + i = ByteAt(Done + i + 1)
           /\ Done \in Nat /\ Done + cursor.remaining <= source.length
<1>. DEFINE mdl == chain[cursor.mdl]
            bytes == BytesThisPage
            page == FirstPage(mdl) + cursor.pageIndex
            P == PageBytes
<1>1. /\ source \in Sources /\ chain \in Seq(Chunk) /\ cursor \in Cursor /\ P \in Nat \ {0}
      /\ cursor.mdl \in 1..Len(chain)
  BY GeometryAssumption DEF DtInv, DtTypeOK, DtCursor
<1>2. mdl \in Chunk
  BY <1>1
<1>3. /\ mdl.at \in Nat /\ mdl.count \in Nat /\ source.offset \in Nat /\ source.length \in Nat
      /\ cursor.remaining \in Nat /\ cursor.pageIndex \in Nat /\ cursor.pageOffset \in Nat
      /\ cursor.remaining > 0
  BY <1>1, <1>2 DEF Chunk, Sources, Cursor
<1>4. FirstPage(mdl) \in Nat
  <2>1. source.offset + mdl.at \in Nat
    BY <1>3
  <2>. QED
    BY <1>1, <2>1, Divided DEF FirstPage
<1>5. /\ cursor.remaining <= mdl.count /\ cursor.pageOffset < P
      /\ source.offset + Done = P * page + cursor.pageOffset
  BY DEF DtInv, DtCursor
<1>6. mdl.at + mdl.count <= source.length /\ Done = (mdl.at + mdl.count) - cursor.remaining
  BY <1>1 DEF DtInv, DtChain, Done
<1>7. page \in Nat
  BY <1>3, <1>4
<1>. HIDE DEF page, mdl, P
<1>8. Done \in Nat /\ Done + cursor.remaining <= source.length
  BY <1>3, <1>5, <1>6
<1>9. /\ bytes \in 1..cursor.remaining /\ bytes <= P - cursor.pageOffset
      /\ bytes < cursor.remaining => bytes = P - cursor.pageOffset
  BY <1>1, <1>3, <1>5 DEF BytesThisPage, Least, P
<1>. HIDE DEF bytes
<1>10. source.frames[page] \in Nat
  <2>1. P * page <= source.offset + Done
    <3>1. P * page \in Int
      BY <1>1, <1>7
    <3>. QED
      BY <1>3, <1>5, <3>1
  <2>2. Done < source.length
    BY <1>3, <1>8
  <2>. QED
    BY <1>1, <1>7, <1>8, <2>1, <2>2, PageHasFrame DEF P
<1>11. Physical = source.frames[page] * P + cursor.pageOffset
  BY DEF Physical, SourceFrame, page, mdl, P
<1>12. source.frames[page] * P \in Nat
  BY <1>1, <1>10
<1>13. ASSUME NEW i \in 0..bytes - 1 PROVE Physical + i = ByteAt(Done + i + 1)
  <2>. DEFINE place == source.offset + (Done + i + 1) - 1
              r == cursor.pageOffset + i
  <2>1. r \in 0..P - 1
    BY <1>1, <1>3, <1>9
  <2>2. place = P * page + r /\ place \in Nat
    <3>1. P * page \in Int
      BY <1>1, <1>7
    <3>. QED
      BY <1>3, <1>5, <1>8, <1>9, <3>1
  <2>3. ByteAt(Done + i + 1) = (source.frames[place \div P] * P) + (place % P)
    BY DEF ByteAt, P
  <2>. HIDE DEF place, r
  <2>4. place \div P = page /\ place % P = r
    BY <1>1, <1>7, <2>1, <2>2, Quotient
  <2>5. ByteAt(Done + i + 1) = (source.frames[page] * P) + r
    BY <2>3, <2>4
  <2>. QED
    BY <1>3, <1>9, <1>11, <1>12, <2>5 DEF r
<1>14. Physical \in Nat
  BY <1>3, <1>11, <1>12
<1>15. cursor.pageOffset \in 0..P - 1
  BY <1>1, <1>3, <1>5
<1>. QED
  BY <1>3, <1>4, <1>8, <1>9, <1>13, <1>14, <1>15 DEF mdl, bytes, P

\* A run in slot s, behind a link if slot n is the last of its page; and that it is a run
\* of the bytes from some place on.
WithRun(t, n, s, run) ==
    [IF IsLink(n)
     THEN [t EXCEPT ![n] = [count   |-> 0,
                            address |-> tableFrame[n \div SlotsPerPage + 1] * PageBytes]]
     ELSE t EXCEPT ![s] = run]
RunFrom(run, at) == \A i \in 0..4 * run.count - 1 : run.address + i = ByteAt(at + i + 1)

LEMMA RunDescribes ==
    ASSUME NEW n \in Nat, n < SlotsPerPage * TablePages, NEW run \in Slot, NEW at \in Nat,
           NEW moved, Described(n, table, moved), moved[n] = at,
           table \in [Slots -> Slot], UNCHANGED <<source, tableFrame>>,
           NEW s \in Nat, s = IF IsLink(n) THEN n + 1 ELSE n,
           IsLink(n) => n \div SlotsPerPage + 1 < TablePages,
           table' = WithRun(table, n, s, run), run.count > 0, RunFrom(run, at),
           tableFrame \in TableFrames
    PROVE  /\ table' \in [Slots -> Slot] /\ s + 1 < SlotsPerPage * TablePages
           /\ \E more : /\ Described(s + 1, table, more)'
                        /\ more[s + 1] = at + 4 * run.count
<1>. DEFINE link == [count   |-> 0,
                     address |-> tableFrame[n \div SlotsPerPage + 1] * PageBytes]
            linked == IF IsLink(n) THEN [table EXCEPT ![n] = link] ELSE table
            more == [i \in 0..s + 1 |-> IF i <= n THEN moved[i]
                                        ELSE IF i = s + 1 THEN at + 4 * run.count ELSE at]
<1>1. /\ n \div SlotsPerPage \in 0..TablePages - 1 /\ n \in Slots
      /\ ~IsLink(n) => n + 1 < SlotsPerPage * TablePages
      /\ IsLink(n) => n + 1 < SlotsPerPage * TablePages /\ ~IsLink(n + 1)
  BY SlotIs
<1>2. s < SlotsPerPage * TablePages /\ ~IsLink(s) /\ s \in Slots
  <2>1. s < SlotsPerPage * TablePages
    BY <1>1
  <2>2. s \in Slots
    BY <2>1, SlotIs
  <2>. QED
    BY <1>1, <2>1, <2>2
<1>3. s + 1 < SlotsPerPage * TablePages
  BY <1>2, SlotIs
<1>4. IsLink(n) => link \in Slot
  <2>1. ASSUME IsLink(n) PROVE tableFrame[n \div SlotsPerPage + 1] * PageBytes \in Nat
    <3>1. n \div SlotsPerPage + 1 \in 0..TablePages - 1
      BY <1>1, <2>1, GeometryAssumption
    <3>2. tableFrame[n \div SlotsPerPage + 1] \in Nat
      BY <3>1, FramesAssumption
    <3>. QED
      BY <3>2, GeometryAssumption
  <2>. QED
    BY <2>1 DEF Slot
<1>5. table' = [linked EXCEPT ![s] = run]
  BY DEF WithRun
<1>. HIDE DEF link
<1>6. /\ linked \in [Slots -> Slot]
      /\ IsLink(n) => linked[n] = link
      /\ \A i \in Slots : i # n => linked[i] = table[i]
  BY <1>1, <1>4
<1>. HIDE DEF linked
<1>7. /\ table' \in [Slots -> Slot] /\ table'[s] = run
      /\ IsLink(n) => table'[n] = link
      /\ \A i \in 0..n - 1 : table'[i] = table[i]
  <2>1. \A i \in 0..n - 1 : i \in Slots /\ i # n /\ i # s
    <3>1. ASSUME NEW i \in 0..n - 1 PROVE i \in Slots /\ i # n /\ i # s
      <4>1. i \in Nat /\ i < n
        OBVIOUS
      <4>2. i < SlotsPerPage * TablePages
        <5>. DEFINE k == SlotsPerPage * TablePages
        <5>1. k \in Int /\ n < k
          BY GeometryAssumption
        <5>. HIDE DEF k
        <5>2. i < k
          BY <4>1, <5>1
        <5>. QED
          BY <5>2 DEF k
      <4>. QED
        BY <4>1, <4>2, SlotIs
    <3>. QED
      BY <3>1
  <2>2. table' \in [Slots -> Slot] /\ table'[s] = run
    BY <1>2, <1>5, <1>6
  <2>3. \A i \in Slots : i # s => table'[i] = linked[i]
    <3>1. linked \in [Slots -> Slot]
      BY <1>6
    <3>. QED
      BY <1>5, <3>1
  <2>4. IsLink(n) => table'[n] = link
    <3>1. ASSUME IsLink(n) PROVE n # s
      BY <3>1
    <3>2. n \in Slots /\ (IsLink(n) => linked[n] = link)
      BY <1>1, <1>6
    <3>. QED
      BY <2>3, <3>1, <3>2
  <2>5. \A i \in 0..n - 1 : table'[i] = table[i]
    BY <1>6, <2>1, <2>3
  <2>. QED
    BY <2>2, <2>4, <2>5
<1>8. moved \in [0..n -> Nat] /\ moved[0] = 0
  BY DEF Described
<1>9. more \in [0..s + 1 -> Nat] /\ more[0] = 0 /\ more[s + 1] = at + 4 * run.count
  <2>1. run.count \in Nat /\ s >= n /\ s + 1 > n /\ 0 \in 0..n /\ 0 \in 0..s + 1
    BY DEF Slot
  <2>2. at + 4 * run.count \in Nat
    BY <2>1
  <2>3. \A i \in 0..s + 1 : i <= n => moved[i] \in Nat
    BY <1>8
  <2>. QED
    BY <1>8, <2>1, <2>2, <2>3
<1>10. /\ \A i \in 0..n : more[i] = moved[i]
       /\ more[s] = at
  BY <1>8
<1>. HIDE DEF more
<1>11. ASSUME NEW i \in 0..s
       PROVE  /\ IsLink(i) => LinksOn(i, table)' /\ more[i + 1] = more[i]
              /\ ~IsLink(i) => /\ Moves(i, table, more[i])'
                               /\ more[i + 1] = more[i] + 4 * table'[i].count
  <2>1. CASE i < n
    <3>1. /\ IsLink(i) => LinksOn(i, table) /\ moved[i + 1] = moved[i]
          /\ ~IsLink(i) => /\ Moves(i, table, moved[i])
                           /\ moved[i + 1] = moved[i] + 4 * table[i].count
      BY <2>1 DEF Described
    <3>2. table'[i] = table[i] /\ more[i] = moved[i] /\ more[i + 1] = moved[i + 1]
      <4>1. i \in 0..n - 1 /\ i \in 0..n /\ i + 1 \in 0..n
        BY <2>1
      <4>. QED
        BY <1>7, <1>10, <4>1
    <3>. QED
      BY <3>1, <3>2 DEF LinksOn, Moves, ByteAt
  <2>2. CASE i = n /\ IsLink(n)
    <3>1. LinksOn(n, table)'
      BY <1>7, <2>2 DEF LinksOn, link
    <3>2. more[n] = at /\ more[n + 1] = at
      BY <1>10, <2>2
    <3>. QED
      BY <2>2, <3>1, <3>2
  <2>3. CASE i = s
    <3>1. Moves(s, table, at)'
      BY <1>7 DEF Moves, ByteAt, RunFrom
    <3>. QED
      BY <1>2, <1>7, <1>9, <1>10, <2>3, <3>1
  <2>. QED
    BY <2>1, <2>2, <2>3
<1>12. Described(s + 1, table, more)'
  <2>1. (s + 1) - 1 = s
    OBVIOUS
  <2>. QED
    BY <1>9, <1>11, <2>1 DEF Described
<1>. QED
  BY <1>3, <1>7, <1>9, <1>12

LEMMA FullIs ==
    ASSUME DtTypeOK, IsLink(tableSlot), tableSlot \div SlotsPerPage + 1 >= TablePages
    PROVE  tableSlot - (tableSlot \div SlotsPerPage) = TablePages * (SlotsPerPage - 1)
<1>. DEFINE N == SlotsPerPage
            q == tableSlot \div N
            r == tableSlot % N
<1>1. N \in Nat \ {0} /\ TablePages \in Nat \ {0} /\ tableSlot \in Nat
      /\ tableSlot < SlotsPerPage * TablePages
  BY GeometryAssumption DEF DtTypeOK
<1>2. q \in 0..TablePages - 1
  BY <1>1, SlotIs
<1>3. r = N - 1 /\ q + 1 >= TablePages
  BY DEF IsLink
<1>4. tableSlot = N * q + r
  BY <1>1, Divided
<1>. HIDE DEF N, q, r
<1>5. q = TablePages - 1
  BY <1>1, <1>2, <1>3
<1>6. N * (TablePages - 1) = N * TablePages - N /\ TablePages * (N - 1) = N * TablePages - TablePages
  BY <1>1
<1>7. N * TablePages \in Int
  BY <1>1
<1>8. tableSlot - q = TablePages * (N - 1)
  BY <1>1, <1>3, <1>4, <1>5, <1>6, <1>7
<1>. QED
  BY <1>8 DEF q, N

LEMMA PageKeeps ==
    ASSUME DtInv, DescribePage
    PROVE  DtInv'
<1>. DEFINE bytes == BytesThisPage
            run == [count |-> bytes \div 4, address |-> Physical]
<1>1. dtPc = "table" /\ cursor.remaining # 0 /\ LinkHere = IsLink(tableSlot)
  BY DEF DescribePage, LinkHere, IsLink
<1>2. CASE LinkHere /\ NextPage >= TablePages /\ Fail("overflow")
  <2>1. DtTypeOK /\ IsLink(tableSlot) /\ tableSlot \div SlotsPerPage + 1 >= TablePages
    BY <1>1, <1>2 DEF DtInv, NextPage
  <2>. QED
    BY <1>2, <2>1, FullIs, FailKeeps
<1>3. ASSUME NEW status \in {"not supported", "misaligned"}, Fail(status) PROVE DtInv'
  BY <1>3, FailKeeps
<1>4. CASE /\ LinkHere => NextPage < TablePages
           /\ bytes % 4 = 0
           /\ table' = [Linked EXCEPT ![RunSlot] = run]
           /\ totalDwords' = totalDwords + bytes \div 4 /\ tableSlot' = RunSlot + 1
           /\ PassRun /\ UNCHANGED <<source, tableFrame, dtPc, chain, dtStatus>>
  <2>1. /\ bytes \in 1..cursor.remaining /\ cursor.remaining \in Nat
        /\ cursor.pageOffset \in 0..PageBytes - 1 /\ cursor.pageIndex \in Nat
        /\ bytes < cursor.remaining => bytes = PageBytes - cursor.pageOffset
        /\ FirstPage(chain[cursor.mdl]) \in Nat /\ Physical \in Nat
        /\ \A i \in 0..bytes - 1 : Physical + i = ByteAt(Done + i + 1)
        /\ Done \in Nat /\ Done + cursor.remaining <= source.length
    BY <1>1, PageIs
  <2>2. /\ tableSlot \in Nat /\ tableSlot < SlotsPerPage * TablePages /\ totalDwords \in Nat
        /\ table \in [Slots -> Slot] /\ tableFrame \in TableFrames /\ cursor \in Cursor
        /\ PageBytes \in Nat \ {0}
    BY GeometryAssumption DEF DtInv, DtTypeOK
  <2>3. run \in Slot /\ run.count > 0 /\ 4 * run.count = bytes
    <3>1. bytes \in Nat /\ bytes > 0 /\ bytes % 4 = 0
      BY <1>4, <2>1
    <3>. HIDE DEF bytes
    <3>2. bytes \div 4 \in Nat /\ 4 * (bytes \div 4) = bytes /\ bytes \div 4 > 0
      BY <3>1
    <3>. QED
      BY <2>1, <3>2 DEF Slot
  <2>4. PICK moved : Described(tableSlot, table, moved) /\ moved[tableSlot] = Done
    BY <1>1 DEF DtInv, DtSlots
  <2>5. /\ RunSlot \in Nat /\ RunSlot = IF IsLink(tableSlot) THEN tableSlot + 1 ELSE tableSlot
        /\ IsLink(tableSlot) => tableSlot \div SlotsPerPage + 1 < TablePages
    BY <1>1, <1>4, <2>2 DEF RunSlot, NextPage
  <2>6. table' = WithRun(table, tableSlot, RunSlot, run)
    BY <1>1, <1>4 DEF Linked, NextPage, WithRun
  <2>7. RunFrom(run, Done)
    BY <2>1, <2>3 DEF RunFrom
  <2>8. UNCHANGED <<source, tableFrame>>
    BY <1>4
  <2>. HIDE DEF run, bytes
  <2>9. /\ table' \in [Slots -> Slot] /\ tableSlot' < SlotsPerPage * TablePages
        /\ \E more : Described(tableSlot, table, more)' /\ more[tableSlot'] = Done + bytes
    <3>1. PICK n, at, s, r : n = tableSlot /\ at = Done /\ s = RunSlot /\ r = run
      OBVIOUS
    <3>2. /\ n \in Nat /\ n < SlotsPerPage * TablePages /\ r \in Slot /\ at \in Nat
          /\ Described(n, table, moved) /\ moved[n] = at
          /\ s \in Nat /\ s = IF IsLink(n) THEN n + 1 ELSE n
          /\ IsLink(n) => n \div SlotsPerPage + 1 < TablePages
      BY <2>1, <2>2, <2>3, <2>4, <2>5, <3>1
    <3>3. table' = WithRun(table, n, s, r)
      BY <2>6, <3>1
    <3>4. r.count > 0 /\ 4 * r.count = bytes /\ RunFrom(r, at)
      BY <2>3, <2>7, <3>1
    <3>5. /\ table' \in [Slots -> Slot] /\ s + 1 < SlotsPerPage * TablePages
          /\ \E more : Described(s + 1, table, more)' /\ more[s + 1] = at + 4 * r.count
      BY <2>2, <2>8, <3>2, <3>3, <3>4, RunDescribes
    <3>6. tableSlot' = s + 1
      BY <1>4, <3>1
    <3>7. PICK more : Described(s + 1, table, more)' /\ more[s + 1] = at + 4 * r.count
      BY <3>5
    <3>8. Described(tableSlot, table, more)'
      BY <3>6, <3>7 DEF Described
    <3>9. more[tableSlot'] = Done + bytes
      BY <3>1, <3>4, <3>6, <3>7
    <3>. QED
      BY <3>5, <3>6, <3>8, <3>9
  <2>10. /\ cursor' \in Cursor /\ cursor'.mdl = cursor.mdl
         /\ cursor'.remaining = cursor.remaining - bytes
         /\ cursor'.pageIndex = cursor.pageIndex + 1 /\ cursor'.pageOffset = 0
    <3>1. cursor.mdl \in Nat
      BY <2>2 DEF Cursor
    <3>2. cursor.remaining - bytes \in Nat
      BY <2>1
    <3>3. cursor' = [cursor EXCEPT !.remaining = @ - bytes, !.pageIndex = @ + 1,
                                   !.pageOffset = 0]
      BY <1>4 DEF PassRun, bytes
    <3>4. /\ cursor'.mdl = cursor.mdl /\ cursor'.remaining = cursor.remaining - bytes
          /\ cursor'.pageIndex = cursor.pageIndex + 1 /\ cursor'.pageOffset = 0
      BY <2>2, <3>3 DEF Cursor
    <3>5. cursor.pageIndex + 1 \in Nat
      BY <2>1
    <3>6. cursor' \in Cursor
      BY <2>2, <3>2, <3>3, <3>5 DEF Cursor
    <3>. QED
      BY <3>4, <3>6
  <2>11. /\ cursor.mdl \in 1..Len(chain) /\ 4 * totalDwords = Done
         /\ chain[cursor.mdl] \in Chunk /\ cursor.remaining <= chain[cursor.mdl].count
         /\ source.offset + Done =
               PageBytes * (FirstPage(chain[cursor.mdl]) + cursor.pageIndex)
                  + cursor.pageOffset
    <3>1. cursor.mdl \in 1..Len(chain) /\ chain \in Seq(Chunk)
      BY <1>1 DEF DtInv, DtCursor, DtTypeOK
    <3>2. chain[cursor.mdl] \in Chunk
      BY <3>1
    <3>. QED
      BY <1>1, <3>1, <3>2 DEF DtInv, DtCursor
  <2>12. Done' = Done + bytes
    <3>1. /\ chain[cursor.mdl].at \in Nat /\ chain[cursor.mdl].count \in Nat
          /\ cursor'.mdl = cursor.mdl /\ chain' = chain
      BY <1>4, <2>10, <2>11 DEF Chunk
    <3>. QED
      BY <2>1, <2>10, <3>1 DEF Done
  <2>13. totalDwords' \in Nat /\ 4 * totalDwords' = Done'
    <3>1. totalDwords' = totalDwords + run.count /\ run.count \in Nat
      BY <1>4, <2>3 DEF run, bytes, Slot
    <3>2. /\ 4 * run.count = bytes /\ 4 * totalDwords = Done /\ Done' = Done + bytes
          /\ totalDwords \in Nat
      BY <2>2, <2>3, <2>11, <2>12
    <3>. QED
      BY <3>1, <3>2
  <2>14. DtTypeOK'
    <3>1. tableSlot' \in Nat
      BY <1>4, <2>5
    <3>. QED
      BY <1>4, <2>9, <2>10, <2>13, <3>1 DEF DtInv, DtTypeOK
  <2>15. DtChain'
    BY <1>4 DEF DtInv, DtChain, LockedBytes
  <2>16. cursor'.remaining # 0 =>
            /\ cursor'.pageOffset < PageBytes
            /\ source.offset + Done' =
                  PageBytes * (FirstPage(chain[cursor.mdl]) + cursor'.pageIndex)
                     + cursor'.pageOffset
    <3>. DEFINE page == FirstPage(chain[cursor.mdl]) + cursor.pageIndex
                end == PageBytes * page
    <3>1. page \in Nat
      BY <2>1
    <3>2. PageBytes * (FirstPage(chain[cursor.mdl]) + (cursor.pageIndex + 1)) = end + PageBytes
      <4>1. FirstPage(chain[cursor.mdl]) + (cursor.pageIndex + 1) = page + 1
        BY <2>1
      <4>. HIDE DEF page
      <4>2. PageBytes * (page + 1) = PageBytes * page + PageBytes
        BY <2>2, <3>1
      <4>. QED
        BY <4>1, <4>2
    <3>3. end \in Int /\ source.offset + Done = end + cursor.pageOffset
      <4>1. source.offset + Done = end + cursor.pageOffset
        BY <2>11
      <4>. HIDE DEF page
      <4>. QED
        BY <2>2, <3>1, <4>1
    <3>4. source.offset \in Nat
      BY DEF DtInv, DtTypeOK, Sources
    <3>. HIDE DEF end
    <3>5. ASSUME cursor'.remaining # 0 PROVE source.offset + Done' = end + PageBytes
      <4>1. bytes = PageBytes - cursor.pageOffset
        BY <2>1, <2>10, <3>5
      <4>. QED
        BY <2>1, <2>2, <2>12, <3>3, <3>4, <4>1
    <3>. QED
      BY <2>2, <2>10, <3>2, <3>3, <3>5
  <2>17. DtCursor'
    <3>1. cursor'.remaining <= chain[cursor.mdl].count
      <4>1. /\ bytes \in 1..cursor.remaining /\ cursor.remaining \in Nat
            /\ chain[cursor.mdl].count \in Nat /\ cursor.remaining <= chain[cursor.mdl].count
        BY <2>1, <2>11 DEF Chunk
      <4>. QED
        BY <2>10, <4>1
    <3>. QED
      BY <1>4, <2>10, <2>11, <2>13, <2>16, <3>1 DEF DtCursor, FirstPage
  <2>18. DtSlots'
    BY <1>1, <1>4, <2>9, <2>12 DEF DtSlots
  <2>19. DtEnd'
    BY <1>1, <1>4 DEF DtInv, DtEnd
  <2>. QED
    BY <2>14, <2>15, <2>17, <2>18, <2>19 DEF DtInv
<1>. QED
  BY <1>1, <1>2, <1>3, <1>4 DEF DescribePage

LEMMA TerminateKeeps ==
    ASSUME DtInv, Terminate
    PROVE  DtInv'
<1>1. dtPc = "table" /\ cursor.remaining = 0 /\ cursor.mdl = Len(chain)
  BY DEF Terminate
<1>2. /\ tableSlot \in Nat /\ tableSlot \in Slots /\ TablePages \in Nat
      /\ tableSlot \div SlotsPerPage \in 0..TablePages - 1 /\ table \in [Slots -> Slot]
  <2>1. /\ tableSlot \in Nat /\ tableSlot < SlotsPerPage * TablePages
        /\ table \in [Slots -> Slot] /\ TablePages \in Nat
    BY GeometryAssumption DEF DtInv, DtTypeOK
  <2>. QED
    BY <2>1, SlotIs
<1>3. ~(tableSlot \div SlotsPerPage >= TablePages)
  BY <1>2
<1>4. /\ table' = [table EXCEPT ![tableSlot] = ZeroEntry]
      /\ dtPc' = "done" /\ dtStatus' = "success"
      /\ UNCHANGED <<source, tableFrame, chain, tableSlot, totalDwords, cursor>>
  BY <1>3 DEF Terminate
<1>5. table' \in [Slots -> Slot] /\ table'[tableSlot] = ZeroEntry
      /\ \A s \in Slots : s # tableSlot => table'[s] = table[s]
  BY <1>2, <1>4 DEF Slot, ZeroEntry
<1>6. DtTypeOK'
  BY <1>4, <1>5 DEF DtInv, DtTypeOK
<1>7. DtChain' /\ DtCursor'
  BY <1>1, <1>4 DEF DtInv, DtChain, DtCursor, LockedBytes, Done, FirstPage
<1>8. DtSlots'
  <2>1. PICK moved : Described(tableSlot, table, moved) /\ moved[tableSlot] = Done
    BY <1>1 DEF DtInv, DtSlots
  <2>2. \A s \in 0..tableSlot - 1 : table'[s] = table[s]
    <3>1. ASSUME NEW s \in 0..tableSlot - 1 PROVE s \in Slots /\ s # tableSlot
      <4>1. s \in Nat /\ s < tableSlot
        BY <1>2
      <4>2. s < SlotsPerPage * TablePages
        <5>. DEFINE k == SlotsPerPage * TablePages
        <5>1. k \in Int /\ tableSlot < k
          BY GeometryAssumption DEF DtInv, DtTypeOK
        <5>. HIDE DEF k
        <5>2. s < k
          BY <1>2, <4>1, <5>1
        <5>. QED
          BY <5>2 DEF k
      <4>. QED
        BY <4>1, <4>2, SlotIs
    <3>. QED
      BY <1>5, <3>1
  <2>3. Described(tableSlot, table, moved)'
    BY <1>4, <2>1, <2>2 DEF Described, LinksOn, Moves, ByteAt
  <2>4. Done' = Done
    BY <1>4 DEF Done
  <2>. QED
    BY <1>4, <2>1, <2>3, <2>4 DEF DtSlots
<1>9. DtEnd'
  BY <1>1, <1>4, <1>5 DEF DtEnd
<1>. QED
  BY <1>6, <1>7, <1>8, <1>9 DEF DtInv

LEMMA DtKeeps == DtInv /\ [DtNext]_dtVars => DtInv'
<1>. SUFFICES ASSUME DtInv, [DtNext]_dtVars PROVE DtInv'
  OBVIOUS
<1>1. CASE LockFails
  BY <1>1, FailKeeps DEF LockFails
<1>2. CASE UNCHANGED dtVars
  <2>1. DtTypeOK' /\ DtChain' /\ DtCursor' /\ DtEnd'
    BY <1>2 DEF DtInv, DtTypeOK, DtChain, DtCursor, DtEnd, dtVars, LockedBytes, Done,
                FirstPage
  <2>2. DtSlots'
    BY <1>2 DEF DtInv, DtSlots, dtVars, Described, LinksOn, Moves, ByteAt, Done
  <2>. QED
    BY <2>1, <2>2 DEF DtInv
<1>. QED
  BY <1>1, <1>2, LockKeeps, BuiltKeeps, AllocateKeeps, NextKeeps, PageKeeps, TerminateKeeps
     DEF DtNext

-----------------------------------------------------------------------------
(* DescriptorTable.  What the board reads.                                  *)

\* In a table of n slots that is ended, the board goes from each slot to the next.
LEMMA BoardGoesOn ==
    ASSUME DtTypeOK, NEW moved, Described(tableSlot, table, moved),
           NEW n \in 0..tableSlot - 1
    PROVE  AfterSlot([slot |-> n, moved |-> moved[n]]) = [slot |-> n + 1, moved |-> moved[n + 1]]
<1>. DEFINE b == [slot |-> n, moved |-> moved[n]]
            q == n \div SlotsPerPage
<1>1. /\ n \in Nat /\ n < SlotsPerPage * TablePages /\ tableFrame \in TableFrames
      /\ n # Nowhere
  <2>. DEFINE k == SlotsPerPage * TablePages
  <2>1. k \in Int /\ tableSlot < k /\ tableSlot \in Nat /\ tableFrame \in TableFrames
    BY GeometryAssumption DEF DtTypeOK
  <2>. HIDE DEF k
  <2>2. n \in Nat /\ n < k
    BY <2>1
  <2>. QED
    BY <2>1, <2>2 DEF k, Nowhere
<1>2. /\ q \in 0..TablePages - 1
      /\ ~IsLink(n) => (n + 1) % SlotsPerPage # 0
      /\ IsLink(n) /\ q + 1 < TablePages =>
            /\ n + 1 = SlotsPerPage * (q + 1) /\ n + 1 \in Slots
            /\ (n + 1) % SlotsPerPage = 0 /\ (n + 1) \div SlotsPerPage = q + 1
  <2>1. /\ q \in 0..TablePages - 1
        /\ ~IsLink(n) => (n + 1) % SlotsPerPage # 0
        /\ IsLink(n) /\ q + 1 < TablePages =>
              /\ n + 1 = SlotsPerPage * (q + 1) /\ n + 1 < SlotsPerPage * TablePages
              /\ (n + 1) % SlotsPerPage = 0 /\ (n + 1) \div SlotsPerPage = q + 1
    BY <1>1, SlotIs
  <2>2. n + 1 < SlotsPerPage * TablePages => n + 1 \in Slots
    <3>1. n + 1 \in Nat
      BY <1>1
    <3>. QED
      BY <3>1, SlotIs
  <2>. QED
    BY <2>1, <2>2
<1>3. /\ IsLink(n) => LinksOn(n, table) /\ moved[n + 1] = moved[n]
      /\ ~IsLink(n) => /\ Moves(n, table, moved[n])
                       /\ moved[n + 1] = moved[n] + 4 * table[n].count
  BY DEF Described
<1>. HIDE DEF q
<1>4. CASE ~IsLink(n)
  <2>1. AtRun(b)
    BY <1>1, <1>3, <1>4 DEF AtRun, Moves
  <2>2. (b.slot + 1) % SlotsPerPage # 0 /\ b.slot = n /\ b.moved = moved[n]
    BY <1>2, <1>4
  <2>. QED
    BY <1>3, <1>4, <2>1, <2>2 DEF AfterSlot
<1>5. CASE IsLink(n)
  <2>. DEFINE a == tableFrame[q + 1] * PageBytes
  <2>1. q + 1 < TablePages /\ table[n] = [count |-> 0, address |-> a]
    BY <1>3, <1>5 DEF LinksOn, q
  <2>2. q + 1 \in 0..TablePages - 1 /\ PageBytes \in Nat \ {0}
    BY <1>2, <2>1, GeometryAssumption
  <2>3. /\ tableFrame[q + 1] \in Nat \ {0}
        /\ \A p \in 0..TablePages - 1 : tableFrame[p] \in Nat
        /\ \A p \in 0..TablePages - 1 : tableFrame[p] = tableFrame[q + 1] => p = q + 1
    BY <1>1, <2>2, FramesAssumption
  <2>4. a # 0
    BY <2>2, <2>3
  <2>5. ~AtRun(b) /\ ~AtEnd(b)
    BY <2>1, <2>4 DEF AtRun, AtEnd, ZeroEntry
  <2>6. SlotAt(a) = n + 1
    <3>. DEFINE Named(s) == s % SlotsPerPage = 0 /\ tableFrame[s \div SlotsPerPage] * PageBytes = a
    <3>1. n + 1 \in Slots /\ Named(n + 1)
      BY <1>2, <1>5, <2>1
    <3>2. ASSUME NEW s \in Slots, Named(s) PROVE s = n + 1
      <4>1. s \in Nat /\ s < SlotsPerPage * TablePages
        <5>. DEFINE k == SlotsPerPage * TablePages
        <5>1. TablePages * SlotsPerPage = k /\ k \in Int
          BY GeometryAssumption
        <5>2. s \in 0..k - 1
          BY <5>1 DEF Slots
        <5>. HIDE DEF k
        <5>3. s \in Nat /\ s < k
          BY <5>1, <5>2
        <5>. QED
          BY <5>3 DEF k
      <4>2. s \div SlotsPerPage \in 0..TablePages - 1
        BY <4>1, SlotIs
      <4>3. tableFrame[s \div SlotsPerPage] = tableFrame[q + 1]
        <5>. DEFINE x == tableFrame[s \div SlotsPerPage]
                    y == tableFrame[q + 1]
        <5>1. x \in Nat /\ y \in Nat /\ x * PageBytes = y * PageBytes
          BY <2>3, <3>2, <4>2
        <5>. HIDE DEF x, y
        <5>2. x = y
          BY <2>2, <5>1
        <5>. QED
          BY <5>2 DEF x, y
      <4>4. s \div SlotsPerPage = q + 1
        BY <2>3, <4>2, <4>3
      <4>5. s = SlotsPerPage * (s \div SlotsPerPage) + (s % SlotsPerPage)
        <5>1. SlotsPerPage \in Nat \ {0}
          BY GeometryAssumption
        <5>. QED
          BY <4>1, <5>1, Divided
      <4>6. s = SlotsPerPage * (q + 1) + 0
        BY <3>2, <4>4, <4>5
      <4>7. SlotsPerPage * (q + 1) = n + 1 /\ n + 1 \in Nat
        BY <1>1, <1>2, <1>5, <2>1
      <4>. QED
        BY <4>6, <4>7
    <3>3. SlotAt(a) = CHOOSE s \in Slots : Named(s)
      BY DEF SlotAt
    <3>. HIDE DEF Named
    <3>. QED
      BY <3>1, <3>2, <3>3
  <2>. QED
    BY <1>1, <1>3, <1>5, <2>1, <2>5, <2>6 DEF AfterSlot
<1>. QED
  BY <1>4, <1>5

\* So it has moved the bytes before each slot when it gets there.
LEMMA BoardIsAt ==
    ASSUME DtTypeOK, NEW moved, Described(tableSlot, table, moved),
           table[tableSlot] = ZeroEntry
    PROVE  /\ DOMAIN BoardAt = 0..TablePages * SlotsPerPage
           /\ tableSlot \in 0..TablePages * SlotsPerPage
           /\ \A n \in 0..tableSlot : BoardAt[n] = [slot |-> n, moved |-> moved[n]]
<1>. DEFINE all == TablePages * SlotsPerPage
            k == tableSlot
            Def(f) == f = [n \in 0..all |->
                              IF n = 0 THEN [slot |-> 0, moved |-> 0] ELSE AfterSlot(f[n - 1])]
            f == [n \in 0..all |-> IF n <= k THEN [slot |-> n, moved |-> moved[n]]
                                   ELSE [slot |-> Nowhere, moved |-> moved[k]]]
            board == CHOOSE g : Def(g)
<1>1. k \in Nat /\ all \in Nat /\ k < all /\ k # Nowhere
  <2>1. all = SlotsPerPage * TablePages /\ all \in Nat
    BY GeometryAssumption
  <2>. QED
    BY <2>1 DEF DtTypeOK, Nowhere
<1>2. BoardAt = board
  BY DEF BoardAt
<1>3. moved[0] = 0
  BY DEF Described
<1>. HIDE DEF all
<1>4. ASSUME NEW n \in 0..all
      PROVE  f[n] = IF n = 0 THEN [slot |-> 0, moved |-> 0] ELSE AfterSlot(f[n - 1])
  <2>1. CASE n = 0
    BY <1>1, <1>3, <2>1
  <2>2. CASE n # 0 /\ n <= k
    <3>1. n - 1 \in 0..k - 1 /\ n - 1 \in 0..all /\ n - 1 <= k /\ (n - 1) + 1 = n
      BY <1>1, <2>2
    <3>2. AfterSlot([slot |-> n - 1, moved |-> moved[n - 1]])
             = [slot |-> (n - 1) + 1, moved |-> moved[(n - 1) + 1]]
      <4>1. PICK h : h = n - 1
        OBVIOUS
      <4>. QED
        BY <3>1, <4>1, BoardGoesOn
    <3>. QED
      BY <2>2, <3>1, <3>2
  <2>3. CASE n = k + 1
    <3>. DEFINE b == [slot |-> k, moved |-> moved[k]]
    <3>1. f[n - 1] = b /\ n # 0
      BY <1>1, <2>3
    <3>2. ~AtRun(b) /\ AtEnd(b)
      BY <1>1 DEF AtRun, AtEnd, ZeroEntry
    <3>3. AfterSlot(b) = [slot |-> Nowhere, moved |-> moved[k]]
      BY <3>2 DEF AfterSlot
    <3>4. f[n] = [slot |-> Nowhere, moved |-> moved[k]]
      BY <1>1, <2>3
    <3>. QED
      BY <3>1, <3>3, <3>4
  <2>4. CASE n > k + 1
    <3>. DEFINE b == [slot |-> Nowhere, moved |-> moved[k]]
    <3>1. f[n - 1] = b /\ n # 0 /\ f[n] = b
      <4>1. n - 1 \in 0..all /\ ~(n - 1 <= k) /\ ~(n <= k) /\ n # 0
        BY <1>1, <2>4
      <4>. QED
        BY <4>1
    <3>2. AfterSlot(b) = b
      BY DEF AfterSlot, AtRun
    <3>. QED
      BY <3>1, <3>2
  <2>. QED
    BY <1>1, <2>1, <2>2, <2>3, <2>4
<1>5. f = [n \in 0..all |-> f[n]]
  OBVIOUS
<1>. HIDE DEF f
<1>6. Def(f)
  BY <1>4, <1>5
<1>7. Def(board)
  <2>. HIDE DEF Def
  <2>. QED
    BY <1>6
<1>. HIDE DEF board
<1>8. /\ DOMAIN board = 0..all
      /\ \A n \in 0..all :
            board[n] = IF n = 0 THEN [slot |-> 0, moved |-> 0] ELSE AfterSlot(board[n - 1])
  BY <1>7
<1>. DEFINE S == {n \in Nat : n <= k => board[n] = [slot |-> n, moved |-> moved[n]]}
<1>9. 0 \in S
  BY <1>1, <1>3, <1>8
<1>10. ASSUME NEW h \in Nat, h \in S PROVE h + 1 \in S
  <2>1. SUFFICES ASSUME h + 1 <= k
                 PROVE  board[h + 1] = [slot |-> h + 1, moved |-> moved[h + 1]]
    OBVIOUS
  <2>2. h \in 0..k - 1 /\ h <= k /\ h + 1 \in 0..all /\ h + 1 # 0 /\ (h + 1) - 1 = h
    BY <1>1, <2>1
  <2>3. board[h] = [slot |-> h, moved |-> moved[h]]
    BY <1>10, <2>2
  <2>4. board[h + 1] = AfterSlot(board[h])
    BY <1>8, <2>2
  <2>. QED
    BY <2>2, <2>3, <2>4, BoardGoesOn
<1>. HIDE DEF S
<1>11. \A n \in Nat : n \in S
  BY <1>9, <1>10, AllNats
<1>12. \A n \in 0..k : board[n] = [slot |-> n, moved |-> moved[n]]
  BY <1>1, <1>11 DEF S
<1>. QED
  BY <1>1, <1>2, <1>8, <1>12 DEF all

LEMMA InvSpells == DtInv => TableSpells
<1>. SUFFICES ASSUME DtInv PROVE TableSpells
  OBVIOUS
<1>1. ASSUME dtPc = "done"
      PROVE  /\ \E n \in DOMAIN BoardAt :
                   /\ AtEnd(BoardAt[n]) /\ BoardAt[n].moved = source.length
                   /\ \A m \in 0..n - 1 : MovesBytes(BoardAt[m])
             /\ 4 * totalDwords = source.length
  <2>1. PICK moved : Described(tableSlot, table, moved) /\ moved[tableSlot] = Done
    BY <1>1 DEF DtInv, DtSlots
  <2>2. Done = source.length /\ 4 * totalDwords = Done
    <3>1. /\ chain \in Seq(Chunk) /\ cursor.mdl = Len(chain) /\ cursor.remaining = 0
          /\ cursor.mdl \in 1..Len(chain) /\ LockedBytes = source.length
          /\ 4 * totalDwords = Done
      BY <1>1 DEF DtInv, DtTypeOK, DtEnd, DtCursor, DtChain
    <3>2. chain # <<>> /\ chain[Len(chain)] \in Chunk
      BY <3>1
    <3>. QED
      BY <3>1, <3>2 DEF LockedBytes, Done, Chunk
  <2>3. DtTypeOK /\ tableSlot \in Nat /\ table[tableSlot] = ZeroEntry
    BY <1>1 DEF DtInv, DtTypeOK, DtEnd
  <2>4. /\ DOMAIN BoardAt = 0..TablePages * SlotsPerPage
        /\ tableSlot \in 0..TablePages * SlotsPerPage
        /\ \A n \in 0..tableSlot : BoardAt[n] = [slot |-> n, moved |-> moved[n]]
    BY <2>1, <2>3, BoardIsAt
  <2>5. BoardAt[tableSlot] = [slot |-> tableSlot, moved |-> source.length]
    <3>1. tableSlot \in 0..tableSlot /\ moved[tableSlot] = source.length
      BY <2>1, <2>2, <2>3
    <3>2. BoardAt[tableSlot] = [slot |-> tableSlot, moved |-> moved[tableSlot]]
      BY <2>4, <3>1
    <3>. QED
      BY <3>1, <3>2
  <2>6. AtEnd(BoardAt[tableSlot]) /\ BoardAt[tableSlot].moved = source.length
    BY <2>3, <2>5 DEF AtEnd, Nowhere
  <2>7. ASSUME NEW m \in 0..tableSlot - 1 PROVE MovesBytes(BoardAt[m])
    <3>1. BoardAt[m] = [slot |-> m, moved |-> moved[m]]
      BY <2>3, <2>4
    <3>2. IsLink(m) => table[m].count = 0
      <4>1. IsLink(m) => LinksOn(m, table)
        BY <2>1 DEF Described
      <4>. QED
        BY <4>1 DEF LinksOn
    <3>3. ~IsLink(m) => Moves(m, table, moved[m])
      BY <2>1 DEF Described
    <3>. QED
      BY <3>1, <3>2, <3>3 DEF MovesBytes, AtRun, Moves
  <2>. QED
    BY <2>2, <2>4, <2>6, <2>7
<1>2. dtStatus = "overflow" =>
         tableSlot - (tableSlot \div SlotsPerPage) = TablePages * (SlotsPerPage - 1)
  BY DEF DtInv, DtEnd
<1>. QED
  BY <1>1, <1>2 DEF TableSpells

\* For pages, chunks and buffers of any size, wherever the pages lie: the table that
\* LecBuildDescriptorTable builds takes a board that follows its links through the buffer,
\* byte for byte, and a buffer is refused for want of room only when the table is full.
THEOREM TableSpellsAlways == DtSpec => []TableSpells
<1>1. DtInv /\ [DtNext]_dtVars => DtInv'
  BY DtKeeps
<1>. QED
  BY <1>1, DtStarts, InvSpells, PTL DEF DtSpec

-----------------------------------------------------------------------------
(* OneWire, for any id, memory and limits.  The invariant follows the chip: *)
(* which byte and bit it is at when it hears the request, and how many of the *)
(* bits that were read are not its own.                                      *)

OwSpec == OwInit /\ [][OwNext]_owVars

\* A request between the mutex and its end.
Working(c) == caller[c].pc \in {"next", "poll", "sample"}

OwStatuses == {"none", "success", "not ready", "timeout", "no device", "crc error"}
OwRequests ==
    [pc : {"start", "next", "poll", "sample", "done"}, attempt : Nat, at : Nat, bit : Bits,
     polls : Nat, byte : SUBSET Bits, bytes : Seq(SUBSET Bits), status : OwStatuses]
OwControls ==
    [busy : BOOLEAN, command : {"none", "reset", "write0", "write1", "read"}, data : BOOLEAN]
OwChips ==
    [expects : {"reset", "rom", "function", "low", "high", "sendsRom", "sendsMemory"},
     bits : Nat, byte : SUBSET Bits]

OwTypeOK ==
    /\ dallasMutex \in Callers \cup {"none"}
    /\ caller \in [Callers -> OwRequests]
    /\ ctrl \in OwControls /\ chip \in OwChips
    /\ wire \in {"good", "low", "open"}
    /\ flips \in 0..MaxFlips

\* Whoever has the mutex is at work, and nobody else.
OwHeld == \A c \in Callers : Working(c) <=> dallasMutex = c

\* How far a request is.
OwPlace(c) ==
    LET me == caller[c] IN
    /\ me.at <= 1 + Len(Sends[c]) + Wants[c]
    /\ me.at = 1 + Len(Sends[c]) + Wants[c] => me.bit = 0 /\ me.pc \notin {"poll", "sample"}
    /\ me.at = 0 => me.bit = 0
    /\ me.at <= Len(Sends[c]) => me.byte = {} /\ me.bytes = <<>>
    /\ me.at > Len(Sends[c]) => Len(me.bytes) = me.at - 1 - Len(Sends[c])
    /\ \A b \in me.byte : b < me.bit
    /\ me.status = "success" => me.pc = "done"
    /\ me.pc = "start" => me.at = 0

\* The command on the wire is the holder's, but behind a timeout.
OwCommand(c) ==
    LET me == caller[c] IN
    /\ me.pc = "poll" /\ ctrl.busy => ctrl.command = Command(c)
    /\ me.pc = "sample" => ~ctrl.busy
    /\ me.pc = "next" /\ me.at > 0 => ~ctrl.busy
    /\ Working(c) /\ me.at > 0 => wire # "open"
    /\ me.at = 0 /\ (me.pc = "sample" \/ (me.pc = "poll" /\ ~ctrl.busy)) =>
          (ctrl.data <=> wire = "open")

\* A bit was carried that the request has not taken yet.
Ahead(c) == caller[c].pc = "sample" \/ (caller[c].pc = "poll" /\ ~ctrl.busy)

\* Where the chip is when it follows: the byte and its bit.
ByteNow(c) ==
    LET me == caller[c] IN
    IF ~Ahead(c) THEN me.at
    ELSE IF me.at = 0 \/ me.bit = 7 THEN me.at + 1 ELSE me.at
BitNow(c) ==
    LET me == caller[c] IN
    IF ~Ahead(c) THEN me.bit ELSE IF me.at = 0 \/ me.bit = 7 THEN 0 ELSE me.bit + 1
InStep(c) == Working(c) /\ (caller[c].at > 0 \/ Ahead(c)) /\ wire = "good"

\* The bits that came over the wire in this attempt, and what they are.
WasRead(c, i, b) ==
    LET me == caller[c] IN
    /\ me.at > Len(Sends[c])
    /\ \/ i <= Len(me.bytes)
       \/ i = Len(me.bytes) + 1 /\ (b < me.bit \/ (b = me.bit /\ Ahead(c)))
Got(c, i, b) ==
    LET me == caller[c] IN
    IF i <= Len(me.bytes) THEN b \in me.bytes[i]
    ELSE IF b < me.bit THEN b \in me.byte ELSE ctrl.data
\* The bits of the id that are not those of ref.
Wrong(ref) ==
    {p \in (1..Len(Rom)) \X Bits :
        WasRead("id", p[1], p[2]) /\ ~(Got("id", p[1], p[2]) <=> p[2] \in ref[p[1]])}

\* The chip follows the id's request: it sends its id, at most as many bits are wrong as were
\* turned.
Heard ==
    /\ chip.expects = "sendsRom" /\ chip.bits = 8 * (ByteNow("id") - 2) + BitNow("id")
    /\ Cardinality(Wrong(Rom)) <= flips
\* A turned bit has made the command another one: nobody pulls the line, which is high but
\* for bits that are turned in turn.
Deaf ==
    /\ \/ chip.expects = "reset"
       \/ /\ chip.expects = "function" /\ chip.bits \in Bits
          /\ chip.byte = {b \in Bits : b < chip.bits}
    /\ Cardinality(Wrong(Unheard)) < flips
IdFollowed ==
    InStep("id") =>
        \/ /\ ByteNow("id") = 1 /\ chip.expects = "rom" /\ chip.bits = BitNow("id")
           /\ flips = 0 => chip.byte = {b \in Sends["id"][1] : b < BitNow("id")}
        \/ ByteNow("id") > 1 /\ (Heard \/ Deaf)

\* Without noise the chip takes the four bytes of the memory's request and sends.
Hears == <<"rom", "function", "low", "high">>
MemoryFollowed ==
    InStep("memory") /\ flips = 0 =>
        /\ \/ /\ ByteNow("memory") \in 1..4
              /\ chip.expects = Hears[ByteNow("memory")] /\ chip.bits = BitNow("memory")
              /\ chip.byte = {b \in Sends["memory"][ByteNow("memory")] : b < BitNow("memory")}
           \/ /\ ByteNow("memory") > 4 /\ chip.expects = "sendsMemory"
              /\ chip.bits = 8 * (ByteNow("memory") - 5) + BitNow("memory")
        /\ \A i \in 1..MemLength, b \in Bits :
              WasRead("memory", i, b) => (Got("memory", i, b) <=> b \in Memory[i])

\* A wire that is low shows nothing else.
LowShown ==
    wire = "low" => \A c \in Callers : Working(c) =>
        \A i \in 1..Wants[c], b \in Bits : WasRead(c, i, b) => ~Got(c, i, b)

\* What IdGenuine says of results.
OwResult ==
    /\ caller["id"].status = "success" =>
          \/ caller["id"].bytes = Rom
          \/ wire = "low" /\ \A i \in 1..Len(Rom) : caller["id"].bytes[i] = {}
    /\ caller["memory"].status = "success" /\ flips = 0 /\ wire = "good" =>
          caller["memory"].bytes = SubSeq(Memory, 1, MemLength)

OwInv ==
    /\ OwTypeOK /\ OwHeld /\ (\A c \in Callers : OwPlace(c) /\ OwCommand(c))
    /\ IdFollowed /\ MemoryFollowed /\ LowShown /\ OwResult

-----------------------------------------------------------------------------
LEMMA SendsAre ==
    /\ Len(Sends["id"]) = 1 /\ Sends["id"][1] = {0, 1, 4, 5}
    /\ Len(Sends["memory"]) = 4 /\ Sends["memory"][1] = {2, 3, 6, 7}
    /\ Sends["memory"][2] = {4, 5, 6, 7}
    /\ Sends["memory"][3] = {} /\ Sends["memory"][4] = {}
    /\ Wants["id"] = Len(Rom) /\ Wants["memory"] = MemLength
    /\ Len(Rom) \in Nat /\ Len(Rom) > 1 /\ MemLength \in 1..Len(Memory) /\ Len(Memory) \in Nat
    /\ Callers = {"id", "memory"}
<1>1. Len(Rom) \in Nat /\ Len(Memory) \in Nat /\ Len(Rom) > 1 /\ MemLength \in 1..Len(Memory)
  BY ChipAssumption
<1>2. /\ Sends["id"] = <<{0, 1, 4, 5}>>
      /\ Sends["memory"] = <<{2, 3, 6, 7}, {4, 5, 6, 7}, {}, {}>>
  BY DEF Sends, Callers
<1>3. Wants["id"] = Len(Rom) /\ Wants["memory"] = MemLength
  BY DEF Wants, Callers
<1>. QED
  BY <1>1, <1>2, <1>3 DEF Callers

\* The numbers of a request.
LEMMA OwNumbers ==
    ASSUME NEW c \in Callers
    PROVE  Len(Sends[c]) \in Nat \ {0} /\ Wants[c] \in Nat \ {0}
<1>1. c = "id" \/ c = "memory"
  BY SendsAre
<1>2. MemLength \in Nat \ {0}
  BY SendsAre
<1>3. CASE c = "id"
  BY <1>3, SendsAre
<1>4. CASE c = "memory"
  BY <1>2, <1>4, SendsAre
<1>. QED
  BY <1>1, <1>3, <1>4

LEMMA OwRecordTypes ==
    ASSUME OwTypeOK, NEW c \in Callers
    PROVE  /\ caller[c].pc \in {"start", "next", "poll", "sample", "done"}
           /\ caller[c].attempt \in Nat /\ caller[c].at \in Nat /\ caller[c].bit \in Bits
           /\ caller[c].polls \in Nat /\ caller[c].byte \in SUBSET Bits
           /\ caller[c].bytes \in Seq(SUBSET Bits) /\ caller[c].status \in OwStatuses
           /\ Len(caller[c].bytes) \in Nat
<1>1. caller[c].bytes \in Seq(SUBSET Bits)
  BY DEF OwTypeOK, OwRequests
<1>2. Len(caller[c].bytes) \in Nat
  BY <1>1
<1>. QED
  BY <1>1, <1>2 DEF OwTypeOK, OwRequests

LEMMA OwInitially == OwInit => OwInv
<1>. SUFFICES ASSUME OwInit PROVE OwInv
  OBVIOUS
<1>. USE DEF OwInit, Idle
<1>1. \A c \in Callers : caller[c] = Idle
  OBVIOUS
<1>2. OwTypeOK
  <2>1. <<>> \in Seq(SUBSET Bits)
    OBVIOUS
  <2>2. Idle \in OwRequests
    BY <2>1 DEF Bits, OwRequests, OwStatuses
  <2>. QED
    BY <2>2, LimitsAssumption DEF OwTypeOK, OwControls, OwChips, Bits
<1>3. \A c \in Callers : ~Working(c)
  BY <1>1 DEF Working
<1>4. OwHeld
  BY <1>3, SendsAre DEF OwHeld
<1>5. ASSUME NEW c \in Callers PROVE OwPlace(c) /\ OwCommand(c)
  BY <1>1, <1>3, OwNumbers DEF OwPlace, OwCommand, Working
<1>6. IdFollowed /\ MemoryFollowed /\ LowShown
  BY <1>3, SendsAre DEF IdFollowed, MemoryFollowed, LowShown, InStep
<1>7. OwResult
  BY <1>1, SendsAre DEF OwResult
<1>. QED
  BY <1>2, <1>4, <1>5, <1>6, <1>7 DEF OwInv

-----------------------------------------------------------------------------
\* What a request has read stays what it was, and the chip where it was.
LEMMA OwSteady ==
    ASSUME OwInv, NEW c \in Callers, UNCHANGED <<chip, wire, flips>>,
           \A d \in Callers : Working(d)' => d = c,
           InStep(c)' => InStep(c) /\ ByteNow(c)' = ByteNow(c) /\ BitNow(c)' = BitNow(c),
           Working(c)' => Working(c),
           \A i \in Nat \ {0}, b \in Bits : WasRead(c, i, b)' <=> WasRead(c, i, b),
           \A i \in Nat \ {0}, b \in Bits : WasRead(c, i, b) => (Got(c, i, b)' <=> Got(c, i, b))
    PROVE  IdFollowed' /\ MemoryFollowed' /\ LowShown'
<1>1. IdFollowed'
  <2>. SUFFICES ASSUME c = "id", InStep("id")' PROVE IdFollowed'
    BY SendsAre DEF IdFollowed, InStep
  <2>1. InStep("id") /\ ByteNow("id")' = ByteNow("id") /\ BitNow("id")' = BitNow("id")
    OBVIOUS
  <2>2. ASSUME NEW ref PROVE Wrong(ref)' = Wrong(ref)
    <3>1. \A p \in (1..Len(Rom)) \X Bits : p[1] \in Nat \ {0} /\ p[2] \in Bits
      BY SendsAre
    <3>. QED
      BY <3>1 DEF Wrong
  <2>. QED
    BY <2>1, <2>2 DEF OwInv, IdFollowed, Heard, Deaf
<1>2. MemoryFollowed'
  <2>. SUFFICES ASSUME c = "memory", InStep("memory")', flips' = 0 PROVE MemoryFollowed'
    BY SendsAre DEF MemoryFollowed, InStep
  <2>1. /\ InStep("memory") /\ flips = 0
        /\ ByteNow("memory")' = ByteNow("memory") /\ BitNow("memory")' = BitNow("memory")
    OBVIOUS
  <2>2. \A i \in 1..MemLength : i \in Nat \ {0}
    BY SendsAre
  <2>. QED
    BY <2>1, <2>2 DEF OwInv, MemoryFollowed
<1>3. LowShown'
  <2>. SUFFICES ASSUME wire = "low", Working(c)',
                       NEW i \in 1..Wants[c], NEW b \in Bits, WasRead(c, i, b)'
                PROVE  ~Got(c, i, b)'
    BY DEF LowShown
  <2>1. i \in Nat \ {0}
    BY OwNumbers
  <2>. QED
    BY <2>1 DEF OwInv, LowShown
<1>. QED
  BY <1>1, <1>2, <1>3

\* A step that leaves the requests, the chip and the wire alone.
LEMMA OwSame ==
    ASSUME OwInv, UNCHANGED <<dallasMutex, caller, ctrl, chip, wire, flips>>
    PROVE  OwInv'
<1>1. OwTypeOK'
  BY DEF OwInv, OwTypeOK
<1>2. \A c \in Callers : /\ Working(c)' <=> Working(c)
                         /\ OwPlace(c)' <=> OwPlace(c)
                         /\ OwCommand(c)' <=> OwCommand(c)
  BY DEF Working, OwPlace, OwCommand, Command, Resetting, Sending
<1>3. OwHeld' /\ (\A c \in Callers : OwPlace(c)' /\ OwCommand(c)')
  BY <1>2 DEF OwInv, OwHeld
<1>4. OwResult'
  BY DEF OwInv, OwResult
<1>5. \A c \in Callers : /\ Ahead(c)' <=> Ahead(c)
                         /\ InStep(c)' <=> InStep(c)
                         /\ ByteNow(c)' = ByteNow(c) /\ BitNow(c)' = BitNow(c)
  BY DEF Ahead, InStep, Working, ByteNow, BitNow
<1>6. \A i, b : /\ \A c \in Callers : WasRead(c, i, b)' <=> WasRead(c, i, b)
                /\ \A c \in Callers : Got(c, i, b)' <=> Got(c, i, b)
  BY DEF WasRead, Got, Ahead
<1>7. \A ref : Wrong(ref)' = Wrong(ref)
  BY <1>6, SendsAre DEF Wrong
<1>8. IdFollowed' /\ MemoryFollowed' /\ LowShown'
  BY <1>2, <1>5, <1>6, <1>7, SendsAre
     DEF OwInv, IdFollowed, MemoryFollowed, LowShown, Heard, Deaf
<1>. QED
  BY <1>1, <1>3, <1>4, <1>8 DEF OwInv

\* Any other request stays as it is while one has the mutex.
LEMMA OwOthers ==
    ASSUME OwInv, NEW c \in Callers, Working(c), NEW d \in Callers, d # c
    PROVE  ~Working(d) /\ dallasMutex = c
<1>. QED
  BY DEF OwInv, OwHeld

\* The request of a step that has a record of the right type.
LEMMA OwPut ==
    ASSUME OwInv, NEW c \in Callers, NEW record \in OwRequests,
           caller' = [caller EXCEPT ![c] = record]
    PROVE  /\ caller' \in [Callers -> OwRequests]
           /\ caller'[c] = record
           /\ \A d \in Callers : d # c => caller'[d] = caller[d]
<1>. QED
  BY DEF OwInv, OwTypeOK

\* A failure: the next attempt begins with the reset, or the request is over.
LEMMA OwFails ==
    ASSUME OwInv, NEW c \in Callers, Working(c),
           NEW status \in OwStatuses \ {"success"}, Failed(c, status),
           UNCHANGED <<ctrl, chip, wire, flips>>
    PROVE  OwInv'
<1>. DEFINE me == caller[c]
            again == [Idle EXCEPT !.pc = "next", !.attempt = me.attempt + 1]
            over == [me EXCEPT !.pc = "done", !.status = status]
<1>0. me \in OwRequests
  BY DEF OwInv, OwTypeOK
<1>1. \/ caller' = [caller EXCEPT ![c] = again] /\ dallasMutex' = c
      \/ caller' = [caller EXCEPT ![c] = over] /\ dallasMutex' = "none"
  <2>1. dallasMutex = c
    BY DEF OwInv, OwHeld
  <2>2. [caller EXCEPT ![c].pc = "done", ![c].status = status]
          = [caller EXCEPT ![c] = over]
    BY DEF OwInv, OwTypeOK
  <2>. QED
    BY <2>1, <2>2 DEF Failed, End
<1>2. /\ again.pc = "next" /\ again.status = "none"
      /\ again.at = 0 /\ again.bit = 0 /\ again.byte = {} /\ again.bytes = <<>>
      /\ over.pc = "done" /\ over.status = status
      /\ over.at = me.at /\ over.bit = me.bit /\ over.byte = me.byte
      /\ over.bytes = me.bytes
  <2>1. /\ again.pc = "next" /\ again.status = "none"
        /\ again.at = 0 /\ again.bit = 0 /\ again.byte = {} /\ again.bytes = <<>>
    BY DEF Idle
  <2>2. /\ over.pc = "done" /\ over.status = status
        /\ over.at = me.at /\ over.bit = me.bit /\ over.byte = me.byte
        /\ over.bytes = me.bytes
    BY <1>0 DEF OwRequests
  <2>. QED
    BY <2>1, <2>2
<1>3. again \in OwRequests /\ over \in OwRequests
  <2>1. <<>> \in Seq(SUBSET Bits)
    OBVIOUS
  <2>2. again \in OwRequests
    <3>1. 0 \in Bits /\ me.attempt + 1 \in Nat
      BY <1>0 DEF OwRequests, Bits
    <3>2. Idle \in OwRequests
      BY <2>1, <3>1 DEF Idle, OwRequests, OwStatuses
    <3>. QED
      BY <3>1, <3>2 DEF OwRequests
  <2>. QED
    BY <1>0, <2>2 DEF OwRequests
<1>. HIDE DEF again, over
<1>a. PICK record \in {again, over} :
          /\ caller' = [caller EXCEPT ![c] = record]
          /\ dallasMutex' = IF record.pc = "next" THEN c ELSE "none"
  BY <1>1, <1>2
<1>4. /\ caller'[c] = record
      /\ \A d \in Callers : d # c => caller'[d] = caller[d]
      /\ OwTypeOK'
  BY <1>a, <1>3, OwPut, SendsAre DEF OwInv, OwTypeOK
<1>5. /\ record.pc \in {"next", "done"} /\ record.status # "success"
      /\ record.pc = "next" => record = again
      /\ record.pc = "done" => record = over
  BY <1>2, <1>a
<1>6. /\ \A d \in Callers : d # c => ~Working(d) /\ ~Working(d)'
      /\ Working(c)' <=> record.pc = "next"
  BY <1>4, <1>5, OwOthers DEF Working
<1>7. OwHeld'
  BY <1>a, <1>5, <1>6, SendsAre DEF OwHeld
<1>8. ASSUME NEW d \in Callers PROVE OwPlace(d)' /\ OwCommand(d)'
  <2>1. CASE d # c
    <3>1. OwPlace(d)'
      BY <2>1, <1>4 DEF OwInv, OwPlace
    <3>. QED
      BY <2>1, <3>1, <1>6 DEF OwCommand, Working
  <2>2. CASE d = c /\ record = again
    BY <2>2, <1>2, <1>4, OwNumbers DEF OwPlace, OwCommand, Working
  <2>3. CASE d = c /\ record = over
    <3>1. OwPlace(c)
      BY DEF OwInv
    <3>2. OwPlace(c)'
      BY <2>3, <1>2, <1>4, <3>1 DEF OwPlace
    <3>. QED
      BY <2>3, <3>2, <1>2, <1>4 DEF OwCommand, Working
  <2>. QED
    BY <2>1, <2>2, <2>3
<1>9. ~InStep(c)' /\ \A d \in Callers : d # c => ~InStep(d)'
  <2>1. record.pc = "next" => record.at = 0
    BY <1>2, <1>5
  <2>. QED
    BY <2>1, <1>4, <1>5, <1>6 DEF InStep, Ahead, Working
<1>10. IdFollowed' /\ MemoryFollowed'
  BY <1>9, SendsAre DEF IdFollowed, MemoryFollowed
<1>11. LowShown'
  <2>1. ASSUME NEW i, NEW b, record.pc = "next" PROVE ~WasRead(c, i, b)'
    BY <2>1, <1>2, <1>4, <1>5, OwNumbers DEF WasRead
  <2>. QED
    BY <2>1, <1>6 DEF LowShown
<1>12. OwResult'
  BY <1>4, <1>5, SendsAre DEF OwInv, OwResult
<1>. QED
  BY <1>4, <1>7, <1>8, <1>10, <1>11, <1>12 DEF OwInv

\* A request goes on: what such a step leaves to show.
LEMMA OwContinues ==
    ASSUME OwInv, NEW c \in Callers, NEW record \in OwRequests,
           caller' = [caller EXCEPT ![c] = record],
           record.pc \in {"next", "poll", "sample"}, record.status # "success",
           Working(c) \/ dallasMutex = "none", dallasMutex' = c,
           ctrl' \in OwControls, UNCHANGED <<chip, wire, flips>>
    PROVE  /\ OwTypeOK' /\ OwHeld' /\ OwResult'
           /\ caller'[c] = record /\ Working(c)'
           /\ \A d \in Callers : d # c => ~Working(d)' /\ OwPlace(d)' /\ OwCommand(d)'
<1>1. /\ caller' \in [Callers -> OwRequests]
      /\ caller'[c] = record
      /\ \A d \in Callers : d # c => caller'[d] = caller[d]
  BY OwPut
<1>2. OwTypeOK'
  BY <1>1 DEF OwInv, OwTypeOK
<1>3. \A d \in Callers : d # c => ~Working(d)
  BY SendsAre DEF OwInv, OwHeld
<1>4. Working(c)' /\ \A d \in Callers : d # c => ~Working(d)'
  BY <1>1, <1>3 DEF Working
<1>5. OwHeld'
  BY <1>4, SendsAre DEF OwHeld
<1>6. ASSUME NEW d \in Callers, d # c PROVE OwPlace(d)' /\ OwCommand(d)'
  <2>1. OwPlace(d)'
    BY <1>1, <1>6 DEF OwInv, OwPlace
  <2>. QED
    BY <1>4, <1>6, <2>1 DEF OwCommand, Working
<1>7. OwResult'
  BY <1>1, SendsAre DEF OwInv, OwResult
<1>. QED
  BY <1>1, <1>2, <1>4, <1>5, <1>6, <1>7

LEMMA OwTakeKeeps ==
    ASSUME OwInv, NEW c \in Callers, Take(c)
    PROVE  OwInv'
<1>. DEFINE me == caller[c]
            record == [me EXCEPT !.pc = "next"]
<1>1. me \in OwRequests /\ me.pc = "start" /\ OwPlace(c) /\ OwCommand(c)
  BY DEF OwInv, OwTypeOK, Take
<1>2. record \in OwRequests /\ caller' = [caller EXCEPT ![c] = record]
  BY <1>1 DEF Take, OwRequests, OwInv, OwTypeOK
<1>3. /\ record.pc = "next" /\ record.status = me.status /\ record.at = me.at
      /\ record.bit = me.bit /\ record.byte = me.byte /\ record.bytes = me.bytes
  BY <1>1 DEF OwRequests
<1>4. me.status # "success" /\ me.at = 0
  BY <1>1 DEF OwPlace
<1>. HIDE DEF record
<1>5. /\ OwTypeOK' /\ OwHeld' /\ OwResult'
      /\ caller'[c] = record /\ Working(c)'
      /\ \A d \in Callers : d # c => ~Working(d)' /\ OwPlace(d)' /\ OwCommand(d)'
  <2>1. /\ dallasMutex = "none" /\ dallasMutex' = c
        /\ UNCHANGED <<chip, wire, flips>> /\ ctrl' \in OwControls
    BY DEF Take, LockDallas, OwInv, OwTypeOK
  <2>2. record.pc \in {"next", "poll", "sample"} /\ record.status # "success"
    BY <1>3, <1>4
  <2>. QED
    BY <1>2, <2>1, <2>2, OwContinues
<1>6. OwPlace(c)' /\ OwCommand(c)'
  BY <1>1, <1>3, <1>4, <1>5, OwNumbers DEF OwPlace, OwCommand
<1>7. IdFollowed' /\ MemoryFollowed' /\ LowShown'
  <2>1. \A d \in Callers : ~InStep(d)'
    BY <1>3, <1>4, <1>5 DEF InStep, Ahead
  <2>2. \A i, b : ~WasRead(c, i, b)'
    BY <1>3, <1>4, <1>5, OwNumbers DEF WasRead
  <2>. QED
    BY <1>5, <2>1, <2>2, SendsAre DEF IdFollowed, MemoryFollowed, LowShown
<1>. QED
  BY <1>5, <1>6, <1>7 DEF OwInv

LEMMA OwIssueKeeps ==
    ASSUME OwInv, NEW c \in Callers, Issue(c)
    PROVE  OwInv'
<1>. DEFINE me == caller[c]
            record == [me EXCEPT !.pc = "poll", !.polls = 0]
<1>0. Working(c)
  BY DEF Issue, Working
<1>1. CASE ~bar2
  BY <1>0, <1>1, OwFails DEF Issue, OwStatuses
<1>2. CASE bar2
  <2>1. /\ me \in OwRequests /\ me.pc = "next" /\ OwPlace(c) /\ OwCommand(c) /\ ~AllRead(c)
        /\ dallasMutex = c
    BY <1>0 DEF OwInv, OwTypeOK, Issue, OwHeld
  <2>2. record \in OwRequests /\ caller' = [caller EXCEPT ![c] = record]
    BY <1>2, <2>1 DEF Issue, OwRequests, OwInv, OwTypeOK
  <2>3. /\ record.pc = "poll" /\ record.status = me.status /\ record.at = me.at
        /\ record.bit = me.bit /\ record.byte = me.byte /\ record.bytes = me.bytes
    BY <2>1 DEF OwRequests
  <2>4. me.status # "success"
    BY <2>1 DEF OwPlace
  <2>5. /\ ctrl' \in OwControls /\ ctrl'.busy /\ ctrl'.command = Command(c)
        /\ ctrl'.data = ctrl.data
    BY <1>2 DEF Issue, OwInv, OwTypeOK, OwControls, Command
  <2>. HIDE DEF record
  <2>6. /\ OwTypeOK' /\ OwHeld' /\ OwResult'
        /\ caller'[c] = record /\ Working(c)'
        /\ \A d \in Callers : d # c => ~Working(d)' /\ OwPlace(d)' /\ OwCommand(d)'
    <3>1. dallasMutex' = c /\ UNCHANGED <<chip, wire, flips>>
      BY <1>2, <2>1 DEF Issue
    <3>2. record.pc \in {"next", "poll", "sample"} /\ record.status # "success"
      BY <2>3, <2>4
    <3>3. ctrl' \in OwControls
      BY <2>5
    <3>. QED
      BY <1>0, <2>2, <3>1, <3>2, <3>3, OwContinues
  <2>7. OwPlace(c)'
    BY <2>1, <2>3, <2>4, <2>6 DEF OwPlace, AllRead
  <2>8. Command(c)' = Command(c)
    BY <2>3, <2>6 DEF Command, Resetting, Sending
  <2>9. OwCommand(c)'
    BY <1>0, <1>2, <2>1, <2>3, <2>5, <2>6, <2>8 DEF OwCommand, Issue
  <2>10. ~Ahead(c) /\ ~Ahead(c)'
    BY <2>1, <2>3, <2>5, <2>6 DEF Ahead
  <2>11. /\ InStep(c)' => InStep(c)
         /\ ByteNow(c)' = ByteNow(c) /\ BitNow(c)' = BitNow(c)
    BY <1>0, <1>2, <2>3, <2>6, <2>10 DEF InStep, ByteNow, BitNow, Issue
  <2>12. \A i, b : /\ WasRead(c, i, b)' <=> WasRead(c, i, b)
                   /\ Got(c, i, b)' <=> Got(c, i, b)
    BY <2>3, <2>5, <2>6, <2>10 DEF WasRead, Got
  <2>13. IdFollowed' /\ MemoryFollowed' /\ LowShown'
    BY <1>0, <1>2, <2>6, <2>11, <2>12, OwSteady DEF Issue
  <2>. QED
    BY <2>6, <2>7, <2>9, <2>13 DEF OwInv
<1>. QED
  BY <1>1, <1>2

LEMMA OwPollKeeps ==
    ASSUME OwInv, NEW c \in Callers, Poll(c)
    PROVE  OwInv'
<1>. DEFINE me == caller[c]
<1>0. Working(c)
  BY DEF Poll, Working
<1>1. CASE ctrl.busy /\ Failed(c, "timeout")
  BY <1>0, <1>1, OwFails DEF Poll, OwStatuses
<1>2. CASE ~(ctrl.busy /\ Failed(c, "timeout"))
  <2>1. /\ me \in OwRequests /\ me.pc = "poll" /\ OwPlace(c) /\ OwCommand(c)
        /\ dallasMutex = c
    BY <1>0 DEF OwInv, OwTypeOK, Poll, OwHeld
  <2>. DEFINE sampled == [me EXCEPT !.pc = "sample"]
              polled == [me EXCEPT !.polls = me.polls + 1]
  <2>2. \/ ~ctrl.busy /\ caller' = [caller EXCEPT ![c] = sampled]
        \/ ctrl.busy /\ caller' = [caller EXCEPT ![c] = polled]
    <3>1. CASE ~ctrl.busy
      BY <1>2, <3>1 DEF Poll, OwInv, OwTypeOK
    <3>2. CASE ctrl.busy
      <4>1. caller' = [caller EXCEPT ![c].polls = @ + 1]
        BY <1>2, <3>2 DEF Poll
      <4>. QED
        BY <3>2, <4>1 DEF OwInv, OwTypeOK
    <3>. QED
      BY <3>1, <3>2
  <2>3. /\ sampled \in OwRequests /\ polled \in OwRequests
        /\ sampled.pc = "sample" /\ polled.pc = "poll"
    BY <2>1 DEF OwRequests
  <2>4. \A r \in {sampled, polled} :
          /\ r.status = me.status /\ r.at = me.at
          /\ r.bit = me.bit /\ r.byte = me.byte /\ r.bytes = me.bytes
    BY <2>1 DEF OwRequests
  <2>. HIDE DEF sampled, polled
  <2>5. PICK record \in {sampled, polled} :
          /\ caller' = [caller EXCEPT ![c] = record]
          /\ IF ctrl.busy THEN record.pc = "poll" ELSE record.pc = "sample"
    BY <2>2, <2>3
  <2>6. UNCHANGED <<dallasMutex, ctrl, chip, wire, flips>>
    BY <1>2 DEF Poll
  <2>7. me.status # "success"
    BY <2>1 DEF OwPlace
  <2>8. record \in OwRequests /\ record.pc \in {"poll", "sample"}
    BY <2>3, <2>5
  <2>9. ctrl' \in OwControls
    BY <2>6 DEF OwInv, OwTypeOK
  <2>10. /\ OwTypeOK' /\ OwHeld' /\ OwResult'
         /\ caller'[c] = record /\ Working(c)'
         /\ \A d \in Callers : d # c => ~Working(d)' /\ OwPlace(d)' /\ OwCommand(d)'
    BY <1>0, <2>1, <2>4, <2>5, <2>6, <2>7, <2>8, <2>9, OwContinues
  <2>11. OwPlace(c)'
    BY <2>1, <2>4, <2>7, <2>8, <2>10 DEF OwPlace
  <2>12. Command(c)' = Command(c)
    BY <2>4, <2>10 DEF Command, Resetting, Sending
  <2>13. OwCommand(c)'
    BY <1>0, <2>1, <2>4, <2>5, <2>6, <2>10, <2>12 DEF OwCommand
  <2>14. Ahead(c)' <=> Ahead(c)
    BY <2>1, <2>5, <2>6, <2>10 DEF Ahead
  <2>15. /\ InStep(c)' => InStep(c)
         /\ ByteNow(c)' = ByteNow(c) /\ BitNow(c)' = BitNow(c)
    BY <1>0, <2>4, <2>6, <2>10, <2>14 DEF InStep, ByteNow, BitNow
  <2>16. \A i, b : /\ WasRead(c, i, b)' <=> WasRead(c, i, b)
                   /\ Got(c, i, b)' <=> Got(c, i, b)
    BY <2>4, <2>6, <2>10, <2>14 DEF WasRead, Got
  <2>17. IdFollowed' /\ MemoryFollowed' /\ LowShown'
    BY <1>0, <2>6, <2>10, <2>15, <2>16, OwSteady
  <2>. QED
    BY <2>10, <2>11, <2>13, <2>17 DEF OwInv
<1>. QED
  BY <1>1, <1>2

\* The bit that was carried, taken by its request.
LEMMA OwBitDoneKeeps ==
    ASSUME OwInv, NEW c \in Callers, caller[c].pc = "sample", caller[c].at > 0,
           NEW data \in BOOLEAN, BitDone(c, data),
           Sending(c) => ~data, ~Sending(c) => data = ctrl.data,
           UNCHANGED <<dallasMutex, ctrl, chip, wire, flips>>
    PROVE  OwInv'
<1>. DEFINE me == caller[c]
            byte == IF data THEN me.byte \cup {me.bit} ELSE me.byte
            within == [me EXCEPT !.pc = "next", !.bit = me.bit + 1, !.byte = byte]
            bytes == IF Sending(c) THEN me.bytes ELSE Append(me.bytes, byte)
            nextByte == [me EXCEPT !.pc = "next", !.at = me.at + 1, !.bit = 0, !.byte = {},
                                   !.bytes = bytes]
<1>. HIDE DEF byte, within, bytes, nextByte
<1>0. Working(c)
  BY DEF Working
<1>1. /\ me \in OwRequests /\ me.pc = "sample" /\ OwPlace(c) /\ OwCommand(c)
      /\ dallasMutex = c /\ Ahead(c)
  BY <1>0 DEF OwInv, OwTypeOK, OwHeld, Ahead
<1>2. /\ me.at \in Nat /\ me.bit \in 0..7 /\ me.byte \in SUBSET Bits
      /\ me.bytes \in Seq(SUBSET Bits) /\ Len(me.bytes) \in Nat
      /\ Len(Sends[c]) \in Nat \ {0} /\ Wants[c] \in Nat \ {0}
  BY OwRecordTypes, OwNumbers DEF OwInv, Bits
<1>3. /\ Sending(c) <=> me.at <= Len(Sends[c])
      /\ me.at < 1 + Len(Sends[c]) + Wants[c]
  <2>1. Sending(c) <=> me.at <= Len(Sends[c])
    BY <1>2 DEF Sending
  <2>2. /\ me.at <= 1 + Len(Sends[c]) + Wants[c]
        /\ me.at # 1 + Len(Sends[c]) + Wants[c]
    BY <1>1 DEF OwPlace
  <2>. QED
    BY <1>2, <2>1, <2>2
<1>4. byte \in SUBSET Bits /\ \A b \in byte : b <= me.bit
  <2>1. \A b \in me.byte : b < me.bit
    BY <1>1 DEF OwPlace
  <2>. QED
    BY <2>1, <1>2 DEF byte, Bits
<1>5. bytes \in Seq(SUBSET Bits)
  BY <1>2, <1>4 DEF bytes
<1>6. caller' = [caller EXCEPT ![c] = IF me.bit < 7 THEN within ELSE nextByte]
  BY DEF BitDone, within, nextByte, byte, bytes
<1>7. /\ within.pc = "next" /\ nextByte.pc = "next" /\ within.status = me.status
      /\ nextByte.status = me.status
      /\ within.at = me.at /\ within.bit = me.bit + 1 /\ within.byte = byte
      /\ within.bytes = me.bytes
      /\ nextByte.at = me.at + 1 /\ nextByte.bit = 0 /\ nextByte.byte = {}
      /\ nextByte.bytes = bytes
  BY <1>1 DEF OwRequests, within, nextByte
<1>8. (me.bit < 7 => within \in OwRequests) /\ nextByte \in OwRequests
  <2>1. me.bit < 7 => me.bit + 1 \in Bits
    BY <1>2 DEF Bits
  <2>2. me.at + 1 \in Nat /\ 0 \in Bits
    BY <1>2 DEF Bits
  <2>3. me.bit < 7 => within \in OwRequests
    BY <1>1, <1>4, <2>1 DEF OwRequests, within
  <2>4. nextByte \in OwRequests
    BY <1>1, <1>5, <2>2 DEF OwRequests, nextByte
  <2>. QED
    BY <2>3, <2>4
<1>. DEFINE record == IF me.bit < 7 THEN within ELSE nextByte
<1>9. /\ record \in OwRequests /\ caller' = [caller EXCEPT ![c] = record]
      /\ record.pc = "next" /\ record.status = me.status
      /\ me.bit < 7 => /\ record.at = me.at /\ record.bit = me.bit + 1
                       /\ record.byte = byte /\ record.bytes = me.bytes
      /\ me.bit = 7 => /\ record.at = me.at + 1 /\ record.bit = 0
                       /\ record.byte = {} /\ record.bytes = bytes
  BY <1>6, <1>7, <1>8
<1>. HIDE DEF record
<1>10. me.status # "success"
  BY <1>1 DEF OwPlace
<1>11. ctrl' \in OwControls
  BY DEF OwInv, OwTypeOK
<1>12. /\ OwTypeOK' /\ OwHeld' /\ OwResult'
       /\ caller'[c] = record /\ Working(c)'
       /\ \A d \in Callers : d # c => ~Working(d)' /\ OwPlace(d)' /\ OwCommand(d)'
  BY <1>0, <1>1, <1>9, <1>10, <1>11, OwContinues
<1>13. Sending(c) => byte = {}
  BY <1>1, <1>3 DEF OwPlace, byte
<1>14. Len(bytes) = IF Sending(c) THEN Len(me.bytes) ELSE Len(me.bytes) + 1
  BY <1>2, <1>4 DEF bytes
<1>15. OwPlace(c)'
  <2>1. Sending(c) => me.byte = {} /\ me.bytes = <<>>
    BY <1>1, <1>3 DEF OwPlace
  <2>2. ~Sending(c) => Len(me.bytes) = me.at - 1 - Len(Sends[c])
    BY <1>1, <1>2, <1>3 DEF OwPlace
  <2>3. CASE me.bit < 7
    <3>1. \A b \in byte : b < me.bit + 1
      <4>1. \A b \in byte : b \in 0..7 /\ b <= me.bit
        BY <1>4 DEF Bits
      <4>2. \A b \in 0..7 : b <= me.bit => b < me.bit + 1
        BY <1>2
      <4>. QED
        BY <4>1, <4>2
    <3>2. /\ record.at = me.at /\ record.bit = me.bit + 1 /\ record.byte = byte
          /\ record.bytes = me.bytes /\ record.pc = "next"
      BY <2>3, <1>9
    <3>3. /\ record.at <= 1 + Len(Sends[c]) + Wants[c]
          /\ record.at # 1 + Len(Sends[c]) + Wants[c] /\ record.at # 0
      BY <3>2, <1>2, <1>3
    <3>4. record.at <= Len(Sends[c]) => record.byte = {} /\ record.bytes = <<>>
      BY <2>1, <3>2, <1>3, <1>13
    <3>5. record.at > Len(Sends[c]) => Len(record.bytes) = record.at - 1 - Len(Sends[c])
      BY <2>2, <3>2, <1>2, <1>3
    <3>. QED
      BY <3>1, <3>2, <3>3, <3>4, <3>5, <1>9, <1>10, <1>12 DEF OwPlace
  <2>4. CASE me.bit = 7
    <3>1. Sending(c) => bytes = <<>>
      BY <2>1 DEF bytes
    <3>2. /\ record.at = me.at + 1 /\ record.bit = 0 /\ record.byte = {}
          /\ record.bytes = bytes /\ record.pc = "next"
      BY <2>4, <1>9
    <3>3. record.at <= Len(Sends[c]) => Sending(c) /\ record.bytes = <<>>
      BY <3>1, <3>2, <1>2, <1>3
    <3>4. record.at > Len(Sends[c]) => Len(record.bytes) = record.at - 1 - Len(Sends[c])
      <4>1. CASE Sending(c)
        BY <4>1, <2>1, <3>1, <3>2, <1>2, <1>3
      <4>2. CASE ~Sending(c)
        <5>1. /\ Len(record.bytes) = Len(me.bytes) + 1
              /\ Len(me.bytes) = me.at - 1 - Len(Sends[c])
          BY <4>2, <2>2, <3>2, <1>14
        <5>. QED
          BY <5>1, <3>2, <1>2
      <4>. QED
        BY <4>1, <4>2
    <3>. QED
      <4>1. record.at <= 1 + Len(Sends[c]) + Wants[c] /\ record.at # 0
        BY <3>2, <1>2, <1>3
      <4>. QED
        BY <4>1, <3>2, <3>3, <3>4, <1>9, <1>10, <1>12 DEF OwPlace
  <2>. QED
    BY <1>2, <2>3, <2>4
<1>16. OwCommand(c)'
  <2>1. ~ctrl'.busy /\ wire # "open" /\ record.at > 0
    BY <1>0, <1>1, <1>2, <1>9 DEF OwCommand
  <2>. QED
    BY <2>1, <1>9, <1>12 DEF OwCommand
<1>17. ~Ahead(c)'
  BY <1>9, <1>12 DEF Ahead
<1>18. /\ InStep(c)' => InStep(c)
       /\ ByteNow(c)' = ByteNow(c) /\ BitNow(c)' = BitNow(c)
  BY <1>0, <1>1, <1>2, <1>9, <1>12, <1>17 DEF InStep, ByteNow, BitNow
<1>19. ASSUME NEW i \in Nat \ {0}, NEW b \in Bits
       PROVE  WasRead(c, i, b)' <=> WasRead(c, i, b)
  <2>1. CASE me.bit < 7
    <3>1. WasRead(c, i, b) <=>
             /\ me.at > Len(Sends[c])
             /\ i <= Len(me.bytes) \/ (i = Len(me.bytes) + 1 /\ b <= me.bit)
      BY <1>1, <1>2 DEF WasRead, Bits
    <3>2. WasRead(c, i, b)' <=>
             /\ me.at > Len(Sends[c])
             /\ i <= Len(me.bytes) \/ (i = Len(me.bytes) + 1 /\ b < me.bit + 1)
      BY <2>1, <1>9, <1>12, <1>17 DEF WasRead
    <3>3. b < me.bit + 1 <=> b <= me.bit
      BY <1>2 DEF Bits
    <3>. QED
      BY <3>1, <3>2, <3>3
  <2>2. CASE me.bit = 7
    <3>1. /\ WasRead(c, i, b) <=> me.at > Len(Sends[c]) /\ i <= Len(me.bytes) + 1
      BY <2>2, <1>1, <1>2 DEF WasRead, Bits
    <3>2. WasRead(c, i, b)' <=> me.at + 1 > Len(Sends[c]) /\ i <= Len(bytes)
      BY <2>2, <1>2, <1>9, <1>12, <1>14, <1>17 DEF WasRead, Bits
    <3>3. Sending(c) => Len(me.bytes) = 0
      BY <1>1, <1>3 DEF OwPlace
    <3>. QED
      BY <3>1, <3>2, <3>3, <1>2, <1>3, <1>14
  <2>. QED
    BY <1>2, <2>1, <2>2
<1>20. ASSUME NEW i \in Nat \ {0}, NEW b \in Bits, WasRead(c, i, b)
       PROVE  Got(c, i, b)' <=> Got(c, i, b)
  <2>1. ~Sending(c) /\ data = ctrl.data
    BY <1>20, <1>2, <1>3 DEF WasRead
  <2>2. /\ b < me.bit => (b \in byte <=> b \in me.byte)
        /\ me.bit \in byte <=> ctrl.data
    <3>1. me.bit \notin me.byte
      <4>1. \A b1 \in me.byte : b1 < me.bit
        BY <1>1 DEF OwPlace
      <4>. QED
        BY <4>1, <1>2
    <3>2. byte = IF ctrl.data THEN me.byte \cup {me.bit} ELSE me.byte
      BY <2>1 DEF byte
    <3>3. b < me.bit => b # me.bit
      BY <1>2 DEF Bits
    <3>. QED
      BY <3>1, <3>2, <3>3
  <2>3. i <= Len(me.bytes) \/ (i = Len(me.bytes) + 1 /\ b <= me.bit)
    BY <1>20, <1>2 DEF WasRead, Bits
  <2>4. CASE me.bit < 7
    <3>1. /\ caller'[c].bytes = me.bytes /\ caller'[c].bit = me.bit + 1
          /\ caller'[c].byte = byte
      BY <2>4, <1>9, <1>12
    <3>2. CASE i <= Len(me.bytes)
      BY <3>1, <3>2 DEF Got
    <3>3. CASE ~(i <= Len(me.bytes))
      <4>1. b < me.bit \/ b = me.bit
        BY <2>3, <3>3, <1>2 DEF Bits
      <4>2. b < me.bit + 1 /\ ~(me.bit < me.bit)
        BY <4>1, <1>2 DEF Bits
      <4>. QED
        BY <2>2, <3>1, <3>3, <4>1, <4>2 DEF Got
    <3>. QED
      BY <3>2, <3>3
  <2>5. CASE me.bit = 7
    <3>1. bytes = Append(me.bytes, byte)
      BY <2>1 DEF bytes
    <3>2. /\ \A k \in 1..Len(me.bytes) : bytes[k] = me.bytes[k]
          /\ bytes[Len(me.bytes) + 1] = byte
      BY <3>1, <1>2, <1>4
    <3>3. Got(c, i, b)' <=> b \in bytes[i]
      BY <2>1, <2>3, <2>5, <1>2, <1>9, <1>12, <1>14 DEF Got
    <3>4. CASE i <= Len(me.bytes)
      BY <3>2, <3>3, <3>4, <1>2 DEF Got
    <3>5. CASE i = Len(me.bytes) + 1
      BY <3>2, <3>3, <3>5, <2>2, <2>5, <1>2 DEF Got, Bits
    <3>. QED
      BY <2>3, <3>4, <3>5
  <2>. QED
    BY <1>2, <2>4, <2>5
<1>21. IdFollowed' /\ MemoryFollowed' /\ LowShown'
  BY <1>0, <1>12, <1>18, <1>19, <1>20, OwSteady
<1>. QED
  BY <1>12, <1>15, <1>16, <1>21 DEF OwInv

LEMMA OwSampleKeeps ==
    ASSUME OwInv, NEW c \in Callers, Sample(c)
    PROVE  OwInv'
<1>. DEFINE me == caller[c]
            record == [me EXCEPT !.pc = "next", !.at = 1]
<1>0. Working(c)
  BY DEF Sample, Working
<1>1. CASE Failed(c, "no device")
  BY <1>0, <1>1, OwFails DEF Sample, OwStatuses
<1>2. CASE ~Resetting(c) /\ BitDone(c, ctrl.data /\ ~Sending(c)) /\ UNCHANGED dallasMutex
  <2>1. me.at > 0
    BY <1>2, OwRecordTypes DEF Resetting, OwInv
  <2>2. ctrl.data \in BOOLEAN
    BY DEF OwInv, OwTypeOK, OwControls
  <2>3. PICK data \in BOOLEAN : data = (ctrl.data /\ ~Sending(c))
    OBVIOUS
  <2>4. BitDone(c, data)
    BY <1>2, <2>3
  <2>5. (Sending(c) => ~data) /\ (~Sending(c) => data = ctrl.data)
    BY <2>2, <2>3
  <2>. QED
    BY <1>2, <2>1, <2>4, <2>5, OwBitDoneKeeps DEF Sample
<1>3. CASE /\ Resetting(c) /\ ~ctrl.data
           /\ caller' = [caller EXCEPT ![c].pc = "next", ![c].at = 1]
           /\ UNCHANGED dallasMutex
  <2>1. /\ me \in OwRequests /\ me.pc = "sample" /\ OwPlace(c) /\ OwCommand(c)
        /\ dallasMutex = c /\ Ahead(c) /\ me.at = 0
    BY <1>0, <1>3 DEF OwInv, OwTypeOK, Sample, OwHeld, Ahead, Resetting
  <2>2. record \in OwRequests /\ caller' = [caller EXCEPT ![c] = record]
    BY <1>3, <2>1 DEF OwRequests, OwInv, OwTypeOK
  <2>3. /\ record.pc = "next" /\ record.status = me.status /\ record.at = 1
        /\ record.bit = me.bit /\ record.byte = me.byte /\ record.bytes = me.bytes
    BY <2>1 DEF OwRequests
  <2>4. /\ me.status # "success" /\ me.bit = 0 /\ me.byte = {} /\ me.bytes = <<>>
    BY <2>1, OwNumbers DEF OwPlace
  <2>5. UNCHANGED <<dallasMutex, ctrl, chip, wire, flips>> /\ ctrl' \in OwControls
    BY <1>3 DEF Sample, OwInv, OwTypeOK
  <2>. HIDE DEF record
  <2>6. /\ OwTypeOK' /\ OwHeld' /\ OwResult'
        /\ caller'[c] = record /\ Working(c)'
        /\ \A d \in Callers : d # c => ~Working(d)' /\ OwPlace(d)' /\ OwCommand(d)'
    BY <1>0, <2>1, <2>2, <2>3, <2>4, <2>5, OwContinues
  <2>7. OwPlace(c)'
    BY <2>3, <2>4, <2>6, OwNumbers DEF OwPlace
  <2>8. OwCommand(c)'
    BY <1>3, <2>1, <2>3, <2>5, <2>6 DEF OwCommand
  <2>9. ~Ahead(c)'
    BY <2>3, <2>6 DEF Ahead
  <2>10. /\ InStep(c)' => InStep(c)
         /\ ByteNow(c)' = ByteNow(c) /\ BitNow(c)' = BitNow(c)
    BY <1>0, <2>1, <2>3, <2>4, <2>5, <2>6, <2>9 DEF InStep, ByteNow, BitNow
  <2>11. ASSUME NEW i \in Nat \ {0}, NEW b \in Bits
         PROVE  ~WasRead(c, i, b) /\ ~WasRead(c, i, b)'
    BY <2>1, <2>3, <2>4, <2>6, <2>9, OwNumbers DEF WasRead, Bits
  <2>12. IdFollowed' /\ MemoryFollowed' /\ LowShown'
    BY <1>0, <2>5, <2>6, <2>10, <2>11, OwSteady
  <2>. QED
    BY <2>6, <2>7, <2>8, <2>12 DEF OwInv
<1>. QED
  BY <1>1, <1>2, <1>3 DEF Sample

\* All is read: a request that succeeds has what the chip holds.
LEMMA OwAllRead ==
    ASSUME OwInv, NEW c \in Callers, caller[c].pc = "next", AllRead(c)
    PROVE  /\ Len(caller[c].bytes) = Wants[c] /\ ~Ahead(c) /\ wire # "open"
           /\ ByteNow(c) = 1 + Len(Sends[c]) + Wants[c]
           /\ wire = "good" => InStep(c)
           /\ \A i \in 1..Wants[c], b \in Bits :
                 WasRead(c, i, b) /\ (Got(c, i, b) <=> b \in caller[c].bytes[i])
<1>. DEFINE me == caller[c]
<1>1. OwPlace(c) /\ OwCommand(c) /\ Working(c)
  BY DEF OwInv, Working
<1>2. Len(Sends[c]) \in Nat \ {0} /\ Wants[c] \in Nat \ {0} /\ Len(me.bytes) \in Nat
  BY OwNumbers, OwRecordTypes DEF OwInv
<1>3. me.at = 1 + Len(Sends[c]) + Wants[c]
  BY DEF AllRead
<1>4. me.at > Len(Sends[c]) => Len(me.bytes) = me.at - 1 - Len(Sends[c])
  BY <1>1 DEF OwPlace
<1>5. Len(me.bytes) = Wants[c] /\ me.at > Len(Sends[c]) /\ me.at > 0
  BY <1>2, <1>3, <1>4
<1>6. ~Ahead(c)
  BY DEF Ahead
<1>7. wire # "open" /\ (wire = "good" => InStep(c))
  BY <1>1, <1>5 DEF OwCommand, InStep
<1>8. ByteNow(c) = me.at
  BY <1>6 DEF ByteNow
<1>9. \A i \in 1..Wants[c], b \in Bits :
          WasRead(c, i, b) /\ (Got(c, i, b) <=> b \in me.bytes[i])
  BY <1>2, <1>5 DEF WasRead, Got
<1>. QED
  BY <1>3, <1>5, <1>6, <1>7, <1>8, <1>9

LEMMA OwIdIs ==
    ASSUME OwInv, caller["id"].pc = "next", AllRead("id"), CrcRight(caller["id"].bytes)
    PROVE  \/ caller["id"].bytes = Rom
           \/ wire = "low" /\ \A i \in 1..Len(Rom) : caller["id"].bytes[i] = {}
<1>. DEFINE id == caller["id"].bytes
<1>1. "id" \in Callers /\ Wants["id"] = Len(Rom) /\ Len(Rom) \in Nat /\ Rom \in Seq(SUBSET Bits)
  BY SendsAre, ChipAssumption
<1>2. /\ Len(id) = Len(Rom) /\ wire # "open" /\ (wire = "good" => InStep("id"))
      /\ ByteNow("id") = 1 + Len(Sends["id"]) + Wants["id"]
      /\ \A i \in 1..Len(Rom), b \in Bits :
            WasRead("id", i, b) /\ (Got("id", i, b) <=> b \in id[i])
  BY <1>1, OwAllRead
<1>3. id \in Seq(SUBSET Bits)
  BY <1>1, OwRecordTypes DEF OwInv
<1>4. \A i \in 1..Len(Rom) : id[i] \subseteq Bits
  BY <1>1, <1>2, <1>3
<1>5. CASE wire = "low"
  <2>1. Working("id")
    BY DEF Working
  <2>2. \A i \in 1..Len(Rom), b \in Bits : b \notin id[i]
    BY <1>1, <1>2, <1>5, <2>1 DEF OwInv, LowShown
  <2>. QED
    BY <1>4, <1>5, <2>2
<1>6. CASE wire = "good"
  <2>1. Heard \/ Deaf
    <3>1. ByteNow("id") # 1
      BY <1>1, <1>2, SendsAre
    <3>. QED
      BY <1>2, <1>6, <3>1 DEF OwInv, IdFollowed
  <2>2. ASSUME NEW ref PROVE Wrong(ref) = Turned(id, ref)
    BY <1>2 DEF Wrong, Turned
  <2>3. flips \in Nat /\ flips <= MaxFlips /\ MaxFlips \in Nat
    BY LimitsAssumption DEF OwInv, OwTypeOK
  <2>4. \A ref : Cardinality(Turned(id, ref)) \in Nat
    <3>1. IsFiniteSet((1..Len(Rom)) \X Bits)
      <4>1. Len(Rom) \in Int /\ 1 \in Int /\ 0 \in Int /\ 7 \in Int
        BY <1>1
      <4>2. IsFiniteSet(1..Len(Rom)) /\ IsFiniteSet(0..7)
        BY <4>1, FS_Interval
      <4>. QED
        BY <4>2, FS_Product DEF Bits
    <3>. QED
      BY <3>1, FS_Subset, FS_CardinalityType DEF Turned
  <2>5. \/ Cardinality(Turned(id, Rom)) <= MaxFlips
        \/ Cardinality(Turned(id, Unheard)) < MaxFlips
    BY <2>1, <2>2, <2>3, <2>4 DEF Heard, Deaf
  <2>6. id \in [1..Len(Rom) -> SUBSET Bits]
    BY <1>1, <1>2, <1>3
  <2>7. Crc8(SubSeq(id, 1, Len(Rom) - 1)) = id[Len(Rom)]
    BY <1>2 DEF CrcRight
  <2>. QED
    BY <2>5, <2>6, <2>7, CrcAssumption
<1>. QED
  BY <1>2, <1>5, <1>6 DEF OwInv, OwTypeOK

LEMMA OwMemoryIs ==
    ASSUME OwInv, caller["memory"].pc = "next", AllRead("memory"), flips = 0, wire = "good"
    PROVE  caller["memory"].bytes = SubSeq(Memory, 1, MemLength)
<1>. DEFINE bytes == caller["memory"].bytes
<1>1. /\ "memory" \in Callers /\ Wants["memory"] = MemLength /\ MemLength \in 1..Len(Memory)
      /\ Memory \in Seq(SUBSET Bits) /\ Len(Memory) \in Nat
  BY SendsAre, ChipAssumption
<1>2. /\ Len(bytes) = MemLength /\ InStep("memory")
      /\ \A i \in 1..MemLength, b \in Bits :
            WasRead("memory", i, b) /\ (Got("memory", i, b) <=> b \in bytes[i])
  BY <1>1, OwAllRead
<1>3. bytes \in Seq(SUBSET Bits)
  BY <1>1, OwRecordTypes DEF OwInv
<1>4. \A i \in 1..MemLength, b \in Bits : b \in bytes[i] <=> b \in Memory[i]
  BY <1>2 DEF OwInv, MemoryFollowed
<1>5. \A i \in 1..MemLength : bytes[i] \subseteq Bits /\ Memory[i] \subseteq Bits
  BY <1>1, <1>2, <1>3
<1>6. \A i \in 1..MemLength : bytes[i] = Memory[i]
  BY <1>4, <1>5
<1>7. SubSeq(Memory, 1, MemLength) = [i \in 1..MemLength |-> Memory[i]]
  BY <1>1
<1>8. bytes = [i \in 1..MemLength |-> bytes[i]]
  BY <1>2, <1>3
<1>. QED
  BY <1>6, <1>7, <1>8

LEMMA OwCheckKeeps ==
    ASSUME OwInv, NEW c \in Callers, Check(c)
    PROVE  OwInv'
<1>. DEFINE me == caller[c]
            over == [me EXCEPT !.pc = "done", !.status = "success"]
<1>0. Working(c) /\ me.pc = "next" /\ AllRead(c)
  BY DEF Check, Working
<1>1. CASE Failed(c, "crc error")
  BY <1>0, <1>1, OwFails DEF Check, OwStatuses
<1>2. CASE (c = "memory" \/ CrcRight(me.bytes)) /\ End(c, "success")
  <2>1. me \in OwRequests /\ OwPlace(c)
    BY DEF OwInv, OwTypeOK
  <2>2. /\ over \in OwRequests /\ caller' = [caller EXCEPT ![c] = over]
        /\ dallasMutex' = "none"
    BY <1>2, <2>1 DEF End, OwRequests, OwStatuses, OwInv, OwTypeOK
  <2>3. /\ over.pc = "done" /\ over.status = "success" /\ over.at = me.at
        /\ over.bit = me.bit /\ over.byte = me.byte /\ over.bytes = me.bytes
    BY <2>1 DEF OwRequests
  <2>. HIDE DEF over
  <2>4. /\ caller' \in [Callers -> OwRequests] /\ caller'[c] = over
        /\ \A d \in Callers : d # c => caller'[d] = caller[d]
    BY <2>2, OwPut
  <2>5. OwTypeOK'
    BY <2>2, <2>4 DEF OwInv, OwTypeOK, Check
  <2>6. \A d \in Callers : ~Working(d)'
    BY <1>0, <2>3, <2>4, OwOthers DEF Working
  <2>7. OwHeld'
    BY <2>2, <2>6, SendsAre DEF OwHeld
  <2>8. ASSUME NEW d \in Callers PROVE OwPlace(d)' /\ OwCommand(d)'
    <3>1. CASE d # c
      <4>1. OwPlace(d)'
        BY <3>1, <2>4 DEF OwInv, OwPlace
      <4>. QED
        BY <3>1, <4>1, <2>6 DEF OwCommand, Working
    <3>2. CASE d = c
      BY <3>2, <2>1, <2>3, <2>4, <2>6 DEF OwPlace, OwCommand, Working
    <3>. QED
      BY <3>1, <3>2
  <2>9. IdFollowed' /\ MemoryFollowed' /\ LowShown'
    BY <2>6, SendsAre DEF IdFollowed, MemoryFollowed, LowShown, InStep
  <2>10. OwResult'
    <3>1. UNCHANGED <<wire, flips>>
      BY DEF Check
    <3>2. CASE c = "id"
      <4>1. \/ me.bytes = Rom
            \/ wire = "low" /\ \A i \in 1..Len(Rom) : me.bytes[i] = {}
        BY <1>0, <1>2, <3>2, OwIdIs
      <4>2. caller'["memory"] = caller["memory"]
        BY <2>4, <3>2, SendsAre
      <4>. QED
        BY <4>1, <4>2, <2>3, <2>4, <3>1, <3>2 DEF OwInv, OwResult
    <3>3. CASE c = "memory"
      <4>1. flips = 0 /\ wire = "good" => me.bytes = SubSeq(Memory, 1, MemLength)
        BY <1>0, <3>3, OwMemoryIs
      <4>2. caller'["id"] = caller["id"]
        BY <2>4, <3>3, SendsAre
      <4>. QED
        BY <4>1, <4>2, <2>3, <2>4, <3>1, <3>3 DEF OwInv, OwResult
    <3>. QED
      BY <3>2, <3>3, SendsAre
  <2>. QED
    BY <2>5, <2>7, <2>8, <2>9, <2>10 DEF OwInv
<1>. QED
  BY <1>1, <1>2 DEF Check

-----------------------------------------------------------------------------
(* What the controller carries.                                             *)

LEMMA OwBitAt ==
    ASSUME NEW data, NEW k \in Nat, NEW b \in Bits
    PROVE  BitAt(data, (8 * k + b) + 1) <=> b \in data[k + 1]
<1>1. b \in 0..7
  BY DEF Bits
<1>. DEFINE n == (8 * k + b) + 1
<1>2. n - 1 = 8 * k + b
  BY <1>1
<1>3. (8 * k + b) % 8 = b /\ (8 * k + b) \div 8 = k
  BY <1>1
<1>. HIDE DEF n
<1>4. BitAt(data, n) <=> b \in data[k + 1]
  BY <1>2, <1>3 DEF BitAt
<1>. QED
  BY <1>4 DEF n

\* The bit that is carried is the only one that is new.
LEMMA OwCarries ==
    ASSUME OwInv, NEW c \in Callers, caller[c].pc = "poll", ctrl.busy,
           ctrl.command # "reset", caller' = caller, ~ctrl'.busy
    PROVE  LET me == caller[c] IN
           /\ Working(c) /\ me.at > 0 /\ ctrl.command = Command(c) /\ wire # "open"
           /\ me.at < 1 + Len(Sends[c]) + Wants[c]
           /\ ByteNow(c) = me.at /\ BitNow(c) = me.bit
           /\ ByteNow(c)' = (IF me.bit = 7 THEN me.at + 1 ELSE me.at)
           /\ BitNow(c)' = (IF me.bit = 7 THEN 0 ELSE me.bit + 1)
           /\ \A i, b : WasRead(c, i, b) =>
                 WasRead(c, i, b)' /\ (Got(c, i, b)' <=> Got(c, i, b))
           /\ \A i \in Nat \ {0}, b \in Bits : WasRead(c, i, b)' => \/ WasRead(c, i, b)
                 \/ /\ me.at > Len(Sends[c]) /\ i = Len(me.bytes) + 1 /\ b = me.bit
                    /\ Got(c, i, b)' <=> ctrl'.data
           /\ me.at > Len(Sends[c]) => Len(me.bytes) = me.at - 1 - Len(Sends[c])
<1>. DEFINE me == caller[c]
<1>1. OwPlace(c) /\ OwCommand(c) /\ Working(c)
  BY DEF OwInv, Working
<1>2. /\ Len(Sends[c]) \in Nat \ {0} /\ Wants[c] \in Nat \ {0} /\ Len(me.bytes) \in Nat
      /\ me.at \in Nat /\ me.bit \in Nat
  BY OwNumbers, OwRecordTypes DEF OwInv, Bits
<1>3. ctrl.command = Command(c)
  BY <1>1 DEF OwCommand
<1>4. me.at > 0
  <2>1. me.at = 0 => Command(c) = "reset"
    BY <1>2 DEF Command, Resetting, Sending
  <2>. QED
    BY <2>1, <1>2, <1>3
<1>5. wire # "open"
  BY <1>1, <1>4 DEF OwCommand
<1>6. me.at < 1 + Len(Sends[c]) + Wants[c]
  <2>1. /\ me.at <= 1 + Len(Sends[c]) + Wants[c]
        /\ me.at # 1 + Len(Sends[c]) + Wants[c]
    BY <1>1 DEF OwPlace
  <2>. QED
    BY <1>2, <2>1
<1>7. ~Ahead(c) /\ Ahead(c)'
  BY DEF Ahead
<1>8. /\ ByteNow(c) = me.at /\ BitNow(c) = me.bit
      /\ ByteNow(c)' = (IF me.bit = 7 THEN me.at + 1 ELSE me.at)
      /\ BitNow(c)' = (IF me.bit = 7 THEN 0 ELSE me.bit + 1)
  BY <1>2, <1>4, <1>7 DEF ByteNow, BitNow
<1>9. ASSUME NEW i, NEW b, WasRead(c, i, b)
      PROVE  WasRead(c, i, b)' /\ (Got(c, i, b)' <=> Got(c, i, b))
  BY <1>7, <1>9 DEF WasRead, Got
<1>10. ASSUME NEW i \in Nat \ {0}, NEW b \in Bits, WasRead(c, i, b)', ~WasRead(c, i, b)
       PROVE  /\ me.at > Len(Sends[c]) /\ i = Len(me.bytes) + 1 /\ b = me.bit
              /\ Got(c, i, b)' <=> ctrl'.data
  <2>1. me.at > Len(Sends[c]) /\ i = Len(me.bytes) + 1 /\ b = me.bit
    BY <1>10 DEF WasRead
  <2>2. ~(i <= Len(me.bytes)) /\ ~(b < me.bit)
    BY <2>1, <1>2
  <2>. QED
    BY <2>1, <2>2 DEF Got
<1>11. me.at > Len(Sends[c]) => Len(me.bytes) = me.at - 1 - Len(Sends[c])
  BY <1>1 DEF OwPlace
<1>. QED
  BY <1>1, <1>3, <1>4, <1>5, <1>6, <1>8, <1>9, <1>10, <1>11

\* What is wrong of an id is more by at most the bit that was carried, when it is wrong.
LEMMA OwWrongGrows ==
    ASSUME OwInv, caller["id"].pc = "poll", ctrl.busy, ctrl.command # "reset",
           caller' = caller, ~ctrl'.busy, NEW ref
    PROVE  LET new == <<Len(caller["id"].bytes) + 1, caller["id"].bit>>
               right == (ctrl'.data <=> new[2] \in ref[new[1]])
           IN  /\ Cardinality(Wrong(ref)) \in Nat /\ Cardinality(Wrong(ref)') \in Nat
               /\ Cardinality(Wrong(ref)') <= Cardinality(Wrong(ref)) + 1
               /\ right => Cardinality(Wrong(ref)') <= Cardinality(Wrong(ref))
<1>. DEFINE new == <<Len(caller["id"].bytes) + 1, caller["id"].bit>>
            right == (ctrl'.data <=> new[2] \in ref[new[1]])
            places == (1..Len(Rom)) \X Bits
<1>1. "id" \in Callers /\ Len(Rom) \in Nat
  BY SendsAre
<1>2. \A p \in places : p[1] \in Nat \ {0} /\ p[2] \in Bits /\ p = <<p[1], p[2]>>
  BY <1>1
<1>3. IsFiniteSet(places)
  <2>1. Len(Rom) \in Int /\ 1 \in Int /\ 0 \in Int /\ 7 \in Int
    BY <1>1
  <2>2. IsFiniteSet(1..Len(Rom)) /\ IsFiniteSet(0..7)
    BY <2>1, FS_Interval
  <2>. QED
    BY <2>2, FS_Product DEF Bits
<1>4. /\ \A p \in places : WasRead("id", p[1], p[2]) =>
            WasRead("id", p[1], p[2])' /\ (Got("id", p[1], p[2])' <=> Got("id", p[1], p[2]))
      /\ \A p \in places : WasRead("id", p[1], p[2])' =>
            \/ WasRead("id", p[1], p[2])
            \/ /\ p[1] = Len(caller["id"].bytes) + 1 /\ p[2] = caller["id"].bit
               /\ Got("id", p[1], p[2])' <=> ctrl'.data
  BY <1>1, <1>2, OwCarries
<1>5. Wrong(ref)' \subseteq Wrong(ref) \cup {new}
  BY <1>2, <1>4 DEF Wrong
<1>6. right => Wrong(ref)' \subseteq Wrong(ref)
  BY <1>2, <1>4 DEF Wrong
<1>7. IsFiniteSet(Wrong(ref)) /\ IsFiniteSet(Wrong(ref)')
  BY <1>3, FS_Subset DEF Wrong
<1>. HIDE DEF new, right
<1>8. /\ IsFiniteSet(Wrong(ref) \cup {new})
      /\ Cardinality(Wrong(ref)) \in Nat /\ Cardinality(Wrong(ref)') \in Nat
      /\ Cardinality(Wrong(ref) \cup {new}) \in Nat
      /\ Cardinality(Wrong(ref) \cup {new}) <= Cardinality(Wrong(ref)) + 1
  <2>1. /\ IsFiniteSet(Wrong(ref) \cup {new})
        /\ \/ Cardinality(Wrong(ref) \cup {new}) = Cardinality(Wrong(ref))
           \/ Cardinality(Wrong(ref) \cup {new}) = Cardinality(Wrong(ref)) + 1
    BY <1>7, FS_AddElement
  <2>2. /\ Cardinality(Wrong(ref)) \in Nat /\ Cardinality(Wrong(ref)') \in Nat
        /\ Cardinality(Wrong(ref) \cup {new}) \in Nat
    BY <1>7, <2>1, FS_CardinalityType
  <2>. QED
    BY <2>1, <2>2
<1>9. Cardinality(Wrong(ref)') <= Cardinality(Wrong(ref) \cup {new})
  BY <1>5, <1>8, FS_Subset
<1>10. right => Cardinality(Wrong(ref)') <= Cardinality(Wrong(ref))
  BY <1>6, <1>7, FS_Subset
<1>11. Cardinality(Wrong(ref)') <= Cardinality(Wrong(ref)) + 1
  BY <1>8, <1>9
<1>. QED
  BY <1>8, <1>10, <1>11 DEF new, right

LEMMA OwCommandIs ==
    ASSUME OwInv, NEW c \in Callers, caller[c].at > 0
    PROVE  LET me == caller[c] IN
           /\ me.at <= Len(Sends[c]) =>
                 Command(c) = IF me.bit \in Sends[c][me.at] THEN "write1" ELSE "write0"
           /\ me.at > Len(Sends[c]) => Command(c) = "read"
<1>1. Len(Sends[c]) \in Nat \ {0} /\ caller[c].at \in Nat
  BY OwNumbers, OwRecordTypes DEF OwInv
<1>. QED
  BY <1>1 DEF Command, Resetting, Sending

\* What becomes of a slot: noise turns what is written, or what is read.
LEMMA OwCarryIs ==
    ASSUME OwInv, Carry
    PROVE  /\ ctrl.busy /\ ctrl.command # "reset" /\ ~ctrl'.busy /\ ctrl' \in OwControls
           /\ UNCHANGED <<dallasMutex, caller, wire>>
           /\ \E noise \in BOOLEAN :
                 /\ flips' = (IF noise THEN flips + 1 ELSE flips) /\ flips' \in 0..MaxFlips
                 /\ wire # "good" => chip' = chip /\ ~noise
                 /\ wire = "low" => ~ctrl'.data
                 /\ wire = "good" /\ ctrl.command = "read" =>
                       ChipSlot(TRUE) /\ (ctrl'.data <=> (IF noise THEN ~Line(TRUE) ELSE Line(TRUE)))
                 /\ wire = "good" /\ ctrl.command # "read" =>
                       \E bit \in BOOLEAN : /\ ChipSlot(bit)
                                            /\ ~noise => (bit <=> ctrl.command # "write0")
<1>1. /\ ctrl.busy /\ ctrl.command # "reset" /\ UNCHANGED <<dallasMutex, caller, wire>>
      /\ ctrl \in OwControls /\ flips \in 0..MaxFlips /\ MaxFlips \in Nat
  BY LimitsAssumption DEF Carry, OwInv, OwTypeOK
<1>. DEFINE Written(noise) == (ctrl.command # "write0") # (noise /\ ctrl.command # "read")
            Seen(noise) == CASE wire = "low"  -> FALSE
                             [] wire = "open" -> TRUE
                             [] OTHER -> Line(Written(noise)) # (noise /\ ctrl.command = "read")
<1>2. PICK noise \in BOOLEAN :
          /\ noise => wire = "good" /\ flips < MaxFlips
          /\ flips' = IF noise THEN flips + 1 ELSE flips
          /\ ctrl' = [ctrl EXCEPT !.busy = FALSE, !.data = Seen(noise)]
          /\ IF wire = "good" THEN ChipSlot(Written(noise)) ELSE UNCHANGED chip
  BY DEF Carry
<1>3. flips' \in 0..MaxFlips
  BY <1>1, <1>2
<1>4. Seen(noise) \in BOOLEAN
  BY DEF Line
<1>5. ~ctrl'.busy /\ ctrl' \in OwControls /\ ctrl'.data = Seen(noise)
  <2>. HIDE DEF Seen
  <2>. QED
    BY <1>1, <1>2, <1>4 DEF OwControls
<1>6. wire = "low" => ~ctrl'.data
  BY <1>5
<1>7. ASSUME wire = "good", ctrl.command = "read"
      PROVE  /\ ChipSlot(TRUE)
             /\ ctrl'.data <=> (IF noise THEN ~Line(TRUE) ELSE Line(TRUE))
  <2>1. Written(noise) = TRUE
    BY <1>7
  <2>2. Seen(noise) = (Line(TRUE) # noise)
    BY <1>7, <2>1
  <2>. HIDE DEF Written, Seen
  <2>. QED
    BY <1>2, <1>5, <1>7, <2>1, <2>2 DEF Line
<1>8. ASSUME wire = "good", ctrl.command # "read"
      PROVE  \E bit \in BOOLEAN : /\ ChipSlot(bit)
                                  /\ ~noise => (bit <=> ctrl.command # "write0")
  <2>1. Written(noise) \in BOOLEAN /\ (~noise => (Written(noise) <=> ctrl.command # "write0"))
    OBVIOUS
  <2>. HIDE DEF Written
  <2>. QED
    BY <1>2, <1>8, <2>1
<1>9. (wire # "good" => chip' = chip /\ ~noise)
  BY <1>2
<1>. HIDE DEF Seen, Written
<1>10. /\ flips' = (IF noise THEN flips + 1 ELSE flips) /\ flips' \in 0..MaxFlips
       /\ wire # "good" => chip' = chip /\ ~noise
       /\ wire = "low" => ~ctrl'.data
       /\ wire = "good" /\ ctrl.command = "read" =>
             ChipSlot(TRUE) /\ (ctrl'.data <=> (IF noise THEN ~Line(TRUE) ELSE Line(TRUE)))
       /\ wire = "good" /\ ctrl.command # "read" =>
             \E bit \in BOOLEAN : /\ ChipSlot(bit)
                                  /\ ~noise => (bit <=> ctrl.command # "write0")
  BY <1>2, <1>3, <1>6, <1>7, <1>8, <1>9
<1>. QED
  BY <1>1, <1>5, <1>10

LEMMA OwChipTypes ==
    ASSUME chip \in OwChips, NEW bit \in BOOLEAN, ChipSlot(bit)
    PROVE  chip' \in OwChips
<1>. DEFINE byte == IF bit THEN chip.byte \cup {chip.bits} ELSE chip.byte
<1>1. ChipByte(byte) \in {"reset", "function", "low", "high", "sendsRom", "sendsMemory"}
  BY DEF ChipByte
<1>2. chip.bits \in Nat /\ chip.byte \in SUBSET Bits
  BY DEF OwChips
<1>3. chip.bits < 7 => byte \in SUBSET Bits
  BY <1>2 DEF Bits
<1>. HIDE DEF byte
<1>4. CASE chip' = [chip EXCEPT !.bits = @ + 1]
  BY <1>2, <1>4 DEF OwChips
<1>5. CASE chip' = chip
  BY <1>5
<1>6. CASE chip.bits < 7 /\ chip' = [chip EXCEPT !.bits = @ + 1, !.byte = byte]
  <2>1. chip.bits + 1 \in Nat /\ byte \in SUBSET Bits
    BY <1>2, <1>3, <1>6
  <2>2. chip' = [chip EXCEPT !.bits = chip.bits + 1, !.byte = byte]
    BY <1>6
  <2>. QED
    BY <2>1, <2>2 DEF OwChips
<1>7. CASE chip' = [expects |-> ChipByte(byte), bits |-> 0, byte |-> {}]
  BY <1>1, <1>7 DEF OwChips
<1>. QED
  BY <1>4, <1>5, <1>6, <1>7 DEF ChipSlot, byte

\* A bit that the chip takes.
LEMMA OwChipTakes ==
    ASSUME chip \in OwChips, NEW bit \in BOOLEAN, ChipSlot(bit),
           chip.expects \in {"rom", "function", "low", "high"}, chip.bits \in Bits
    PROVE  LET byte == IF bit THEN chip.byte \cup {chip.bits} ELSE chip.byte IN
           /\ chip.bits < 7 => /\ chip'.expects = chip.expects /\ chip'.bits = chip.bits + 1
                               /\ chip'.byte = byte
           /\ chip.bits = 7 => /\ chip'.expects = ChipByte(byte) /\ chip'.bits = 0
                               /\ chip'.byte = {}
<1>. DEFINE byte == IF bit THEN chip.byte \cup {chip.bits} ELSE chip.byte
<1>1. ~SendsNow
  BY DEF SendsNow
<1>2. IF chip.bits < 7 THEN chip' = [chip EXCEPT !.bits = @ + 1, !.byte = byte]
      ELSE chip' = [expects |-> ChipByte(byte), bits |-> 0, byte |-> {}]
  BY <1>1 DEF ChipSlot
<1>. HIDE DEF byte
<1>3. chip.bits < 7 => /\ chip'.expects = chip.expects /\ chip'.bits = chip.bits + 1
                       /\ chip'.byte = byte
  BY <1>2 DEF OwChips
<1>4. chip.bits = 7 => /\ chip'.expects = ChipByte(byte) /\ chip'.bits = 0
                       /\ chip'.byte = {}
  BY <1>2
<1>. QED
  BY <1>3, <1>4 DEF byte

\* A bit that the chip sends.
LEMMA OwChipSends ==
    ASSUME chip \in OwChips, ChipSlot(TRUE), chip.expects \in {"sendsRom", "sendsMemory"},
           NEW k \in Nat, NEW b \in Bits, chip.bits = 8 * k + b, k < Len(Contents),
           Len(Contents) \in Nat
    PROVE  /\ chip'.expects = chip.expects /\ chip'.bits = chip.bits + 1
           /\ Line(TRUE) <=> b \in Contents[k + 1]
<1>1. SendsNow
  BY DEF SendsNow, Bits
<1>2. chip' = [chip EXCEPT !.bits = @ + 1]
  BY <1>1 DEF ChipSlot
<1>3. chip'.expects = chip.expects /\ chip'.bits = chip.bits + 1
  BY <1>2 DEF OwChips
<1>4. Line(TRUE) <=> BitAt(Contents, chip.bits + 1)
  BY <1>1 DEF Line
<1>5. BitAt(Contents, (8 * k + b) + 1) <=> b \in Contents[k + 1]
  BY OwBitAt
<1>. QED
  BY <1>3, <1>4, <1>5

LEMMA OwIdCarried ==
    ASSUME OwInv, Carry, wire = "good", caller["id"].pc = "poll"
    PROVE  IdFollowed'
<1>. DEFINE me == caller["id"]
<1>1. /\ ctrl.busy /\ ctrl.command # "reset" /\ ~ctrl'.busy /\ caller' = caller /\ wire' = wire
      /\ "id" \in Callers /\ chip \in OwChips /\ flips \in Nat
  <2>1. flips \in Nat /\ chip \in OwChips
    BY LimitsAssumption DEF OwInv, OwTypeOK
  <2>2. "id" \in Callers
    BY SendsAre
  <2>3. /\ ctrl.busy /\ ctrl.command # "reset" /\ ~ctrl'.busy
        /\ caller' = caller /\ wire' = wire
    BY OwCarryIs
  <2>. QED
    BY <2>1, <2>2, <2>3
<1>2. /\ Working("id") /\ me.at > 0 /\ ctrl.command = Command("id")
      /\ me.at < 1 + 1 + Len(Rom)
      /\ ByteNow("id") = me.at /\ BitNow("id") = me.bit
      /\ ByteNow("id")' = (IF me.bit = 7 THEN me.at + 1 ELSE me.at)
      /\ BitNow("id")' = (IF me.bit = 7 THEN 0 ELSE me.bit + 1)
      /\ me.at > 1 => Len(me.bytes) = me.at - 2
  <2>1. Len(Sends["id"]) = 1 /\ Wants["id"] = Len(Rom)
    BY SendsAre
  <2>2. me.at \in Nat
    BY <1>1, OwRecordTypes DEF OwInv
  <2>3. /\ Working("id") /\ me.at > 0 /\ ctrl.command = Command("id")
        /\ me.at < 1 + Len(Sends["id"]) + Wants["id"]
        /\ ByteNow("id") = me.at /\ BitNow("id") = me.bit
        /\ ByteNow("id")' = (IF me.bit = 7 THEN me.at + 1 ELSE me.at)
        /\ BitNow("id")' = (IF me.bit = 7 THEN 0 ELSE me.bit + 1)
        /\ me.at > Len(Sends["id"]) => Len(me.bytes) = me.at - 1 - Len(Sends["id"])
    BY <1>1, OwCarries
  <2>. QED
    BY <2>1, <2>2, <2>3
<1>3. /\ me.at \in Nat /\ me.bit \in Bits /\ me.bit \in 0..7 /\ Len(Rom) \in Nat
  BY <1>1, OwRecordTypes, SendsAre DEF OwInv, Bits
<1>4. PICK noise \in BOOLEAN :
          /\ flips' = (IF noise THEN flips + 1 ELSE flips) /\ flips' \in 0..MaxFlips
          /\ ctrl.command = "read" =>
                ChipSlot(TRUE) /\ (ctrl'.data <=> (IF noise THEN ~Line(TRUE) ELSE Line(TRUE)))
          /\ ctrl.command # "read" =>
                \E bit \in BOOLEAN : /\ ChipSlot(bit)
                                     /\ ~noise => (bit <=> ctrl.command # "write0")
  BY OwCarryIs
<1>5. InStep("id")
  BY <1>2 DEF InStep
<1>6. CASE me.at = 1
  <2>1. /\ chip.expects = "rom" /\ chip.bits = me.bit
        /\ flips = 0 => chip.byte = {b \in Sends["id"][1] : b < me.bit}
    BY <1>2, <1>5, <1>6 DEF OwInv, IdFollowed
  <2>2. Command("id") = IF me.bit \in Sends["id"][1] THEN "write1" ELSE "write0"
    <3>1. me.at > 0 /\ me.at <= Len(Sends["id"])
      BY <1>6, SendsAre
    <3>2. Command("id") = IF me.bit \in Sends["id"][me.at] THEN "write1" ELSE "write0"
      BY <1>1, <3>1, OwCommandIs
    <3>. QED
      BY <1>6, <3>2
  <2>3. PICK bit \in BOOLEAN :
            ChipSlot(bit) /\ (~noise => (bit <=> me.bit \in Sends["id"][1]))
    BY <1>2, <1>4, <2>2
  <2>. DEFINE byte == IF bit THEN chip.byte \cup {chip.bits} ELSE chip.byte
  <2>4. /\ chip.bits < 7 => /\ chip'.expects = "rom" /\ chip'.bits = me.bit + 1
                            /\ chip'.byte = byte
        /\ chip.bits = 7 => /\ chip'.expects = ChipByte(byte) /\ chip'.bits = 0
                            /\ chip'.byte = {}
    BY <1>1, <1>3, <2>1, <2>3, OwChipTakes
  <2>5. flips' = 0 => byte = {b \in Sends["id"][1] : b < me.bit + 1}
    <3>1. flips' = 0 => ~noise /\ flips = 0
      BY <1>1, <1>4
    <3>2. ASSUME ~noise, flips = 0 PROVE byte = {b \in Sends["id"][1] : b < me.bit + 1}
      <4>1. chip.byte = {b \in Sends["id"][1] : b < me.bit}
        BY <2>1, <3>2
      <4>2. bit <=> me.bit \in Sends["id"][1]
        BY <2>3, <3>2
      <4>3. \A b \in Sends["id"][1] : b \in 0..7
        BY SendsAre
      <4>4. \A b \in 0..7 : b < me.bit + 1 <=> b < me.bit \/ b = me.bit
        BY <1>3
      <4>. QED
        BY <4>1, <4>2, <4>3, <4>4, <2>1
    <3>. QED
      BY <3>1, <3>2
  <2>. HIDE DEF byte
  <2>6. CASE me.bit < 7
    BY <1>2, <1>3, <1>6, <2>1, <2>4, <2>5, <2>6 DEF IdFollowed
  <2>7. CASE me.bit = 7
    <3>1. \A ref : Wrong(ref)' = {}
      <4>1. \A i, b : ~WasRead("id", i, b)'
        BY <1>1, <1>6, SendsAre DEF WasRead
      <4>. QED
        BY <4>1 DEF Wrong
    <3>2. \A ref : Cardinality(Wrong(ref)') = 0
      BY <3>1, FS_EmptySet
    <3>3. ByteNow("id")' = 2 /\ BitNow("id")' = 0
      BY <1>2, <1>6, <2>7
    <3>4. chip'.expects = ChipByte(byte) /\ chip'.bits = 0 /\ chip'.byte = {}
      BY <2>1, <2>4, <2>7
    <3>5. chip'.expects \in {"sendsRom", "function", "reset"}
      BY <2>1, <3>4 DEF ChipByte
    <3>6. flips' = 0 => chip'.expects = "sendsRom"
      <4>1. {b \in Sends["id"][1] : b < me.bit + 1} = {0, 1, 4, 5}
        BY <2>7, SendsAre
      <4>. QED
        BY <4>1, <2>1, <2>5, <3>4 DEF ChipByte
    <3>7. chip'.expects = "sendsRom" => Heard'
      BY <1>1, <1>4, <3>2, <3>3, <3>4 DEF Heard
    <3>8. chip'.expects \in {"function", "reset"} => Deaf'
      <4>1. {b \in Bits : b < 0} = {} /\ 0 \in Bits
        BY DEF Bits
      <4>2. chip'.expects \in {"function", "reset"} => flips' > 0
        BY <1>1, <1>4, <3>6
      <4>. QED
        BY <4>1, <4>2, <3>2, <3>4 DEF Deaf
    <3>. QED
      BY <3>3, <3>5, <3>7, <3>8 DEF IdFollowed
  <2>. QED
    BY <1>3, <2>6, <2>7
<1>7. CASE me.at > 1
  <2>1. /\ ctrl.command = "read" /\ ChipSlot(TRUE)
        /\ ctrl'.data <=> (IF noise THEN ~Line(TRUE) ELSE Line(TRUE))
    BY <1>1, <1>2, <1>4, <1>7, OwCommandIs, SendsAre
  <2>2. Heard \/ Deaf
    BY <1>2, <1>5, <1>7 DEF OwInv, IdFollowed
  <2>3. ByteNow("id")' > 1
    BY <1>2, <1>3, <1>7
  <2>4. \A ref : /\ Cardinality(Wrong(ref)) \in Nat /\ Cardinality(Wrong(ref)') \in Nat
                 /\ Cardinality(Wrong(ref)') <= Cardinality(Wrong(ref)) + 1
                 /\ (ctrl'.data <=> me.bit \in ref[me.at - 1]) =>
                        Cardinality(Wrong(ref)') <= Cardinality(Wrong(ref))
    <3>1. Len(me.bytes) + 1 = me.at - 1
      BY <1>2, <1>3, <1>7
    <3>2. ASSUME NEW ref
          PROVE  /\ Cardinality(Wrong(ref)) \in Nat /\ Cardinality(Wrong(ref)') \in Nat
                 /\ Cardinality(Wrong(ref)') <= Cardinality(Wrong(ref)) + 1
                 /\ (ctrl'.data <=> me.bit \in ref[Len(me.bytes) + 1]) =>
                        Cardinality(Wrong(ref)') <= Cardinality(Wrong(ref))
      BY <1>1, OwWrongGrows
    <3>. QED
      BY <3>1, <3>2
  <2>5. CASE Heard
    <3>1. chip.expects = "sendsRom" /\ chip.bits = 8 * (me.at - 2) + me.bit
      BY <1>2, <2>5 DEF Heard
    <3>2. Contents = Rom
      BY <3>1 DEF Contents
    <3>3. me.at - 2 \in Nat /\ me.at - 2 < Len(Rom) /\ (me.at - 2) + 1 = me.at - 1
      BY <1>2, <1>3, <1>7
    <3>4. /\ chip'.expects = "sendsRom" /\ chip'.bits = chip.bits + 1
          /\ Line(TRUE) <=> me.bit \in Rom[(me.at - 2) + 1]
      BY <1>1, <1>3, <2>1, <3>1, <3>2, <3>3, OwChipSends
    <3>5. chip'.bits = 8 * (ByteNow("id")' - 2) + BitNow("id")'
      <4>1. CASE me.bit = 7
        BY <4>1, <1>2, <1>3, <3>1, <3>4
      <4>2. CASE me.bit # 7
        <5>1. ByteNow("id")' = me.at /\ BitNow("id")' = me.bit + 1
          BY <4>2, <1>2
        <5>. QED
          BY <5>1, <1>3, <3>1, <3>4
      <4>. QED
        BY <4>1, <4>2
    <3>6. Cardinality(Wrong(Rom)') <= flips'
      <4>1. Cardinality(Wrong(Rom)) <= flips
        BY <2>5 DEF Heard
      <4>2. CASE noise
        BY <4>1, <4>2, <1>1, <1>4, <2>4
      <4>3. CASE ~noise
        <5>1. ctrl'.data <=> me.bit \in Rom[me.at - 1]
          BY <4>3, <2>1, <3>3, <3>4
        <5>2. Cardinality(Wrong(Rom)') <= Cardinality(Wrong(Rom))
          BY <5>1, <2>4
        <5>. QED
          BY <4>1, <4>3, <5>2, <1>1, <1>4, <2>4
      <4>. QED
        BY <4>2, <4>3
    <3>. QED
      BY <2>3, <3>4, <3>5, <3>6 DEF IdFollowed, Heard
  <2>6. CASE Deaf
    <3>1. \/ chip.expects = "reset"
          \/ /\ chip.expects = "function" /\ chip.bits \in Bits
             /\ chip.byte = {b \in Bits : b < chip.bits}
      BY <2>6 DEF Deaf
    <3>2. Line(TRUE)
      BY <3>1 DEF Line, SendsNow
    <3>3. \/ chip'.expects = "reset"
          \/ /\ chip'.expects = "function" /\ chip'.bits \in Bits
             /\ chip'.byte = {b \in Bits : b < chip'.bits}
      <4>1. CASE chip.expects = "reset"
        BY <4>1, <2>1 DEF ChipSlot, SendsNow
      <4>2. CASE /\ chip.expects = "function" /\ chip.bits \in Bits
                 /\ chip.byte = {b \in Bits : b < chip.bits}
        <5>. DEFINE byte == chip.byte \cup {chip.bits}
        <5>1. /\ chip.bits < 7 => /\ chip'.expects = "function" /\ chip'.bits = chip.bits + 1
                                  /\ chip'.byte = byte
              /\ chip.bits = 7 => chip'.expects = ChipByte(byte)
          BY <1>1, <2>1, <4>2, OwChipTakes
        <5>2. byte = {b \in Bits : b < chip.bits + 1}
          BY <4>2 DEF Bits
        <5>3. chip.bits = 7 => byte = Bits
          BY <5>2 DEF Bits
        <5>4. Bits # {4, 5, 6, 7} /\ Bits # {2, 3, 6, 7}
          BY DEF Bits
        <5>. HIDE DEF byte
        <5>5. chip.bits = 7 => chip'.expects = "reset"
          BY <4>2, <5>1, <5>3, <5>4 DEF ChipByte
        <5>6. chip.bits < 7 => chip.bits + 1 \in Bits
          BY <4>2 DEF Bits
        <5>7. chip.bits < 7 \/ chip.bits = 7
          BY <4>2 DEF Bits
        <5>. QED
          BY <5>1, <5>2, <5>5, <5>6, <5>7
      <4>. QED
        BY <3>1, <4>1, <4>2
    <3>4. Cardinality(Wrong(Unheard)') < flips'
      <4>1. Cardinality(Wrong(Unheard)) < flips
        BY <2>6 DEF Deaf
      <4>2. CASE noise
        BY <4>1, <4>2, <1>1, <1>4, <2>4
      <4>3. CASE ~noise
        <5>1. me.at - 1 \in 1..Len(Rom)
          BY <1>2, <1>3, <1>7
        <5>2. ctrl'.data <=> me.bit \in Unheard[me.at - 1]
          BY <4>3, <1>3, <2>1, <3>2, <5>1 DEF Unheard
        <5>3. Cardinality(Wrong(Unheard)') <= Cardinality(Wrong(Unheard))
          BY <5>2, <2>4
        <5>. QED
          BY <4>1, <4>3, <5>3, <1>1, <1>4, <2>4
      <4>. QED
        BY <4>2, <4>3
    <3>5. Unheard' = Unheard
      BY DEF Unheard
    <3>. QED
      BY <2>3, <3>3, <3>4, <3>5 DEF IdFollowed, Deaf
  <2>. QED
    BY <2>2, <2>5, <2>6
<1>. QED
  BY <1>2, <1>3, <1>6, <1>7

LEMMA OwMemoryCarried ==
    ASSUME OwInv, Carry, wire = "good", caller["memory"].pc = "poll"
    PROVE  MemoryFollowed'
<1>. DEFINE me == caller["memory"]
<1>. SUFFICES ASSUME flips' = 0 PROVE MemoryFollowed'
  BY DEF MemoryFollowed
<1>1. /\ ctrl.busy /\ ctrl.command # "reset" /\ ~ctrl'.busy /\ caller' = caller /\ wire' = wire
      /\ "memory" \in Callers /\ chip \in OwChips /\ flips \in Nat
  <2>1. flips \in Nat /\ chip \in OwChips
    BY LimitsAssumption DEF OwInv, OwTypeOK
  <2>2. "memory" \in Callers
    BY SendsAre
  <2>3. /\ ctrl.busy /\ ctrl.command # "reset" /\ ~ctrl'.busy
        /\ caller' = caller /\ wire' = wire
    BY OwCarryIs
  <2>. QED
    BY <2>1, <2>2, <2>3
<1>2. /\ me.at \in Nat /\ me.bit \in Bits /\ me.bit \in 0..7
      /\ MemLength \in Nat /\ MemLength <= Len(Memory) /\ Len(Memory) \in Nat
  BY <1>1, OwRecordTypes, SendsAre DEF OwInv, Bits
<1>3. /\ Working("memory") /\ me.at > 0 /\ ctrl.command = Command("memory")
      /\ me.at < 1 + 4 + MemLength
      /\ ByteNow("memory") = me.at /\ BitNow("memory") = me.bit
      /\ ByteNow("memory")' = (IF me.bit = 7 THEN me.at + 1 ELSE me.at)
      /\ BitNow("memory")' = (IF me.bit = 7 THEN 0 ELSE me.bit + 1)
      /\ me.at > 4 => Len(me.bytes) = me.at - 5
  <2>1. Len(Sends["memory"]) = 4 /\ Wants["memory"] = MemLength
    BY SendsAre
  <2>2. /\ Working("memory") /\ me.at > 0 /\ ctrl.command = Command("memory")
        /\ me.at < 1 + Len(Sends["memory"]) + Wants["memory"]
        /\ ByteNow("memory") = me.at /\ BitNow("memory") = me.bit
        /\ ByteNow("memory")' = (IF me.bit = 7 THEN me.at + 1 ELSE me.at)
        /\ BitNow("memory")' = (IF me.bit = 7 THEN 0 ELSE me.bit + 1)
        /\ me.at > Len(Sends["memory"]) => Len(me.bytes) = me.at - 1 - Len(Sends["memory"])
    BY <1>1, OwCarries
  <2>. QED
    BY <1>2, <2>1, <2>2
<1>4. /\ \A i \in Nat \ {0}, b \in Bits : WasRead("memory", i, b)' =>
            \/ WasRead("memory", i, b) /\ (Got("memory", i, b)' <=> Got("memory", i, b))
            \/ /\ me.at > 4 /\ i = Len(me.bytes) + 1 /\ b = me.bit
               /\ Got("memory", i, b)' <=> ctrl'.data
  BY <1>1, OwCarries, SendsAre
<1>5. /\ flips = 0
      /\ ctrl.command = "read" => ChipSlot(TRUE) /\ (ctrl'.data <=> Line(TRUE))
      /\ ctrl.command # "read" =>
            \E bit \in BOOLEAN : ChipSlot(bit) /\ (bit <=> ctrl.command # "write0")
  <2>1. PICK noise \in BOOLEAN :
          /\ flips' = (IF noise THEN flips + 1 ELSE flips)
          /\ ctrl.command = "read" =>
                ChipSlot(TRUE) /\ (ctrl'.data <=> (IF noise THEN ~Line(TRUE) ELSE Line(TRUE)))
          /\ ctrl.command # "read" =>
                \E bit \in BOOLEAN : /\ ChipSlot(bit)
                                     /\ ~noise => (bit <=> ctrl.command # "write0")
    BY OwCarryIs
  <2>2. ~noise /\ flips = 0
    BY <1>1, <2>1
  <2>. QED
    BY <2>1, <2>2
<1>6. InStep("memory")
  BY <1>3 DEF InStep
<1>7. /\ \/ /\ me.at \in 1..4 /\ chip.expects = Hears[me.at] /\ chip.bits = me.bit
            /\ chip.byte = {b \in Sends["memory"][me.at] : b < me.bit}
         \/ /\ me.at > 4 /\ chip.expects = "sendsMemory"
            /\ chip.bits = 8 * (me.at - 5) + me.bit
      /\ \A i \in 1..MemLength, b \in Bits :
            WasRead("memory", i, b) => (Got("memory", i, b) <=> b \in Memory[i])
  BY <1>3, <1>5, <1>6 DEF OwInv, MemoryFollowed
<1>8. /\ Hears[1] = "rom" /\ Hears[2] = "function" /\ Hears[3] = "low" /\ Hears[4] = "high"
  BY DEF Hears
<1>9. CASE me.at <= 4
  <2>0. me.at \in 1..4 /\ \A b \in Sends["memory"][me.at] : b \in 0..7
    <3>1. me.at \in {1, 2, 3, 4}
      BY <1>2, <1>3, <1>9
    <3>. QED
      BY <3>1, SendsAre
  <2>1. /\ chip.expects = Hears[me.at] /\ chip.bits = me.bit
        /\ chip.byte = {b \in Sends["memory"][me.at] : b < me.bit}
        /\ chip.expects \in {"rom", "function", "low", "high"}
    <3>1. me.at \in {1, 2, 3, 4}
      BY <2>0
    <3>2. /\ chip.expects = Hears[me.at] /\ chip.bits = me.bit
          /\ chip.byte = {b \in Sends["memory"][me.at] : b < me.bit}
      BY <1>7, <1>9, <2>0
    <3>. QED
      BY <3>1, <3>2, <1>8
  <2>2. PICK bit \in BOOLEAN : ChipSlot(bit) /\ (bit <=> me.bit \in Sends["memory"][me.at])
    <3>1. me.at <= Len(Sends["memory"])
      BY <1>9, SendsAre
    <3>2. Command("memory")
            = IF me.bit \in Sends["memory"][me.at] THEN "write1" ELSE "write0"
      BY <1>1, <1>3, <3>1, OwCommandIs
    <3>. QED
      BY <1>3, <1>5, <3>2
  <2>. DEFINE byte == IF bit THEN chip.byte \cup {chip.bits} ELSE chip.byte
  <2>3. /\ chip.bits < 7 => /\ chip'.expects = chip.expects /\ chip'.bits = chip.bits + 1
                            /\ chip'.byte = byte
        /\ chip.bits = 7 => /\ chip'.expects = ChipByte(byte) /\ chip'.bits = 0
                            /\ chip'.byte = {}
    BY <1>1, <1>2, <2>1, <2>2, OwChipTakes
  <2>4. byte = {b \in Sends["memory"][me.at] : b < me.bit + 1}
    <3>1. \A b \in 0..7 : b < me.bit + 1 <=> b < me.bit \/ b = me.bit
      BY <1>2
    <3>. QED
      BY <2>0, <2>1, <2>2, <3>1
  <2>. HIDE DEF byte
  <2>5. \A i \in 1..MemLength, b \in Bits :
            WasRead("memory", i, b)' => (Got("memory", i, b)' <=> b \in Memory[i])
    <3>1. \A i \in 1..MemLength : i \in Nat \ {0}
      BY <1>2
    <3>2. ~(me.at > 4)
      BY <1>2, <1>9
    <3>. QED
      BY <1>4, <1>7, <3>1, <3>2
  <2>6. CASE me.bit < 7
    <3>1. ByteNow("memory")' = me.at /\ BitNow("memory")' = me.bit + 1
      BY <1>2, <1>3, <2>6
    <3>2. /\ chip'.expects = Hears[me.at] /\ chip'.bits = me.bit + 1 /\ chip'.byte = byte
      BY <2>1, <2>3, <2>6
    <3>. QED
      BY <2>0, <2>4, <2>5, <3>1, <3>2 DEF MemoryFollowed
  <2>7. CASE me.bit = 7
    <3>1. ByteNow("memory")' = me.at + 1 /\ BitNow("memory")' = 0
      BY <1>3, <2>7
    <3>2. byte = Sends["memory"][me.at]
      BY <2>0, <2>4, <2>7
    <3>3. chip'.expects = ChipByte(byte) /\ chip'.bits = 0 /\ chip'.byte = {}
      BY <2>1, <2>3, <2>7
    <3>4. ChipByte(byte) = IF me.at = 4 THEN "sendsMemory" ELSE Hears[me.at + 1]
      <4>1. CASE me.at = 1
        BY <4>1, <1>8, <2>1, <3>2, SendsAre DEF ChipByte
      <4>2. CASE me.at = 2
        BY <4>2, <1>8, <2>1, <3>2, SendsAre DEF ChipByte
      <4>3. CASE me.at = 3
        BY <4>3, <1>8, <2>1, <3>2, SendsAre DEF ChipByte
      <4>4. CASE me.at = 4
        BY <4>4, <1>8, <2>1, <3>2, SendsAre DEF ChipByte
      <4>. QED
        BY <2>0, <4>1, <4>2, <4>3, <4>4
    <3>5. CASE me.at = 4
      BY <3>5, <2>5, <3>1, <3>3, <3>4 DEF MemoryFollowed
    <3>6. CASE me.at < 4
      <4>1. me.at + 1 \in 1..4 /\ me.at # 4
        BY <2>0, <3>6
      <4>2. {b \in Sends["memory"][me.at + 1] : b < 0} = {}
        <5>1. me.at + 1 \in {2, 3, 4}
          BY <2>0, <3>6
        <5>. QED
          BY <5>1, SendsAre
      <4>. QED
        BY <4>1, <4>2, <2>5, <3>1, <3>3, <3>4 DEF MemoryFollowed
    <3>. QED
      BY <2>0, <3>5, <3>6
  <2>. QED
    BY <1>2, <2>6, <2>7
<1>10. CASE me.at > 4
  <2>1. chip.expects = "sendsMemory" /\ chip.bits = 8 * (me.at - 5) + me.bit
    BY <1>7, <1>10, <1>2
  <2>2. ctrl.command = "read" /\ ChipSlot(TRUE) /\ (ctrl'.data <=> Line(TRUE))
    BY <1>1, <1>3, <1>5, <1>10, OwCommandIs, SendsAre
  <2>3. Contents = Memory
    BY <2>1 DEF Contents
  <2>4. me.at - 5 \in Nat /\ me.at - 5 < Len(Memory) /\ (me.at - 5) + 1 = me.at - 4
    BY <1>2, <1>3, <1>10
  <2>5. /\ chip'.expects = "sendsMemory" /\ chip'.bits = chip.bits + 1
        /\ Line(TRUE) <=> me.bit \in Memory[(me.at - 5) + 1]
    BY <1>1, <1>2, <2>1, <2>2, <2>3, <2>4, OwChipSends
  <2>6. ByteNow("memory")' > 4 /\ chip'.bits = 8 * (ByteNow("memory")' - 5) + BitNow("memory")'
    <3>1. CASE me.bit = 7
      <4>1. ByteNow("memory")' = me.at + 1
        BY <3>1, <1>3
      <4>2. chip'.bits = 8 * (ByteNow("memory")' - 5) + BitNow("memory")'
        BY <3>1, <1>2, <1>3, <2>1, <2>5
      <4>3. me.at + 1 > 4
        BY <1>2, <1>10
      <4>. QED
        BY <4>1, <4>2, <4>3
    <3>2. CASE me.bit # 7
      <4>1. ByteNow("memory")' = me.at /\ BitNow("memory")' = me.bit + 1
        BY <3>2, <1>3
      <4>. QED
        BY <4>1, <1>2, <1>10, <2>1, <2>5
    <3>. QED
      BY <3>1, <3>2
  <2>7. \A i \in 1..MemLength, b \in Bits :
            WasRead("memory", i, b)' => (Got("memory", i, b)' <=> b \in Memory[i])
    <3>1. \A i \in 1..MemLength : i \in Nat \ {0}
      BY <1>2
    <3>2. Len(me.bytes) + 1 = me.at - 4
      <4>1. Len(me.bytes) = me.at - 5
        BY <1>3, <1>10
      <4>. QED
        BY <4>1, <1>2
    <3>3. ctrl'.data <=> me.bit \in Memory[Len(me.bytes) + 1]
      BY <2>2, <2>4, <2>5, <3>2
    <3>. QED
      BY <1>4, <1>7, <3>1, <3>3
  <2>. QED
    BY <2>5, <2>6, <2>7 DEF MemoryFollowed
<1>. QED
  BY <1>2, <1>9, <1>10

LEMMA OwCarryKeeps ==
    ASSUME OwInv, Carry
    PROVE  OwInv'
<1>1. /\ ctrl.busy /\ ctrl.command # "reset" /\ ~ctrl'.busy /\ ctrl' \in OwControls
      /\ UNCHANGED <<dallasMutex, caller, wire>>
  BY OwCarryIs
<1>2. PICK noise \in BOOLEAN :
          /\ flips' = (IF noise THEN flips + 1 ELSE flips) /\ flips' \in 0..MaxFlips
          /\ wire # "good" => chip' = chip
          /\ wire = "low" => ~ctrl'.data
          /\ wire = "good" => \E bit \in BOOLEAN : ChipSlot(bit)
  BY OwCarryIs
<1>3. flips \in Nat /\ (flips' = 0 => flips = 0)
  BY <1>2, LimitsAssumption DEF OwInv, OwTypeOK
<1>4. OwTypeOK'
  <2>1. chip' \in OwChips
    BY <1>2, OwChipTypes DEF OwInv, OwTypeOK
  <2>. QED
    BY <1>1, <1>2, <2>1 DEF OwInv, OwTypeOK
<1>5. \A c \in Callers : Working(c)' <=> Working(c)
  BY <1>1 DEF Working
<1>6. OwHeld' /\ OwResult'
  BY <1>1, <1>3, <1>5 DEF OwInv, OwHeld, OwResult
<1>7. ASSUME NEW c \in Callers PROVE OwPlace(c)' /\ OwCommand(c)'
  <2>1. OwPlace(c)'
    BY <1>1 DEF OwInv, OwPlace
  <2>2. OwCommand(c) /\ caller[c].at \in Nat
    BY OwRecordTypes DEF OwInv
  <2>3. caller[c].pc # "sample"
    BY <1>1, <2>2 DEF OwCommand
  <2>4. caller[c].pc = "poll" => caller[c].at # 0
    BY <1>1, OwCarries
  <2>. QED
    BY <1>1, <1>5, <2>1, <2>2, <2>3, <2>4 DEF OwCommand
\* A request that follows is one that waits for its bit.
<1>8. ASSUME NEW c \in Callers, Working(c), caller[c].pc # "poll"
      PROVE  ~InStep(c)' /\ \A i, b : ~WasRead(c, i, b)'
  <2>1. OwCommand(c) /\ caller[c].at \in Nat /\ Len(Sends[c]) \in Nat
    BY OwRecordTypes, OwNumbers DEF OwInv
  <2>2. caller[c].pc = "next" /\ caller[c].at = 0
    BY <1>1, <1>8, <2>1 DEF OwCommand, Working
  <2>. QED
    BY <1>1, <2>1, <2>2 DEF InStep, Ahead, WasRead
<1>9. IdFollowed'
  <2>. SUFFICES ASSUME InStep("id")' PROVE IdFollowed'
    BY DEF IdFollowed
  <2>1. Working("id") /\ wire = "good"
    BY <1>1, <1>5, SendsAre DEF InStep
  <2>2. caller["id"].pc = "poll"
    BY <1>8, <2>1, SendsAre
  <2>. QED
    BY <2>1, <2>2, OwIdCarried
<1>10. MemoryFollowed'
  <2>. SUFFICES ASSUME InStep("memory")' PROVE MemoryFollowed'
    BY DEF MemoryFollowed
  <2>1. Working("memory") /\ wire = "good"
    BY <1>1, <1>5, SendsAre DEF InStep
  <2>2. caller["memory"].pc = "poll"
    BY <1>8, <2>1, SendsAre
  <2>. QED
    BY <2>1, <2>2, OwMemoryCarried
<1>11. LowShown'
  <2>. SUFFICES ASSUME wire = "low", NEW c \in Callers, Working(c),
                       NEW i \in 1..Wants[c], NEW b \in Bits, WasRead(c, i, b)'
                PROVE  ~Got(c, i, b)'
    BY <1>1, <1>5 DEF LowShown
  <2>1. caller[c].pc = "poll"
    BY <1>8
  <2>2. i \in Nat \ {0}
    BY OwNumbers
  <2>3. \/ WasRead(c, i, b) /\ (Got(c, i, b)' <=> Got(c, i, b))
        \/ Got(c, i, b)' <=> ctrl'.data
    BY <1>1, <2>1, <2>2, OwCarries
  <2>. QED
    BY <1>2, <2>3 DEF OwInv, LowShown
<1>. QED
  BY <1>4, <1>6, <1>7, <1>9, <1>10, <1>11 DEF OwInv

LEMMA OwCarryResetKeeps ==
    ASSUME OwInv, CarryReset
    PROVE  OwInv'
<1>1. /\ ctrl.busy /\ ctrl.command = "reset" /\ ~ctrl'.busy /\ ctrl' \in OwControls
      /\ UNCHANGED <<dallasMutex, caller, wire, flips>>
      /\ ctrl'.data <=> wire = "open"
  BY DEF CarryReset, OwInv, OwTypeOK, OwControls
<1>2. wire = "good" => chip'.expects = "rom" /\ chip'.bits = 0 /\ chip'.byte = {}
  BY DEF CarryReset
<1>3. OwTypeOK'
  <2>1. chip' \in OwChips
    BY DEF CarryReset, OwChips, OwInv, OwTypeOK
  <2>. QED
    BY <1>1, <2>1 DEF OwInv, OwTypeOK
<1>4. \A c \in Callers : Working(c)' <=> Working(c)
  BY <1>1 DEF Working
<1>5. OwHeld' /\ OwResult'
  BY <1>1, <1>4 DEF OwInv, OwHeld, OwResult
<1>6. ASSUME NEW c \in Callers, Working(c)
      PROVE  caller[c].at = 0 /\ caller[c].bit = 0 /\ caller[c].pc \in {"next", "poll"}
  <2>1. /\ OwCommand(c) /\ OwPlace(c) /\ caller[c].at \in Nat
        /\ Len(Sends[c]) \in Nat \ {0}
    BY OwRecordTypes, OwNumbers DEF OwInv
  <2>2. CASE caller[c].pc = "poll"
    <3>1. Command(c) = "reset"
      BY <1>1, <2>1, <2>2 DEF OwCommand
    <3>2. caller[c].at = 0
      BY <2>1, <3>1 DEF Command, Resetting, Sending
    <3>. QED
      BY <2>1, <2>2, <3>2 DEF OwPlace
  <2>3. CASE caller[c].pc # "poll"
    <3>1. caller[c].pc = "next" /\ caller[c].at = 0
      BY <1>1, <1>6, <2>1, <2>3 DEF OwCommand, Working
    <3>. QED
      BY <2>1, <3>1 DEF OwPlace
  <2>. QED
    BY <2>2, <2>3
<1>7. ASSUME NEW c \in Callers PROVE OwPlace(c)' /\ OwCommand(c)'
  <2>1. OwPlace(c)'
    BY <1>1 DEF OwInv, OwPlace
  <2>. QED
    BY <1>1, <1>4, <1>6, <2>1 DEF OwCommand, Working
<1>8. ASSUME NEW c \in Callers, Working(c)
      PROVE  \A i, b : ~WasRead(c, i, b)'
  BY <1>1, <1>6, <1>8, OwNumbers DEF WasRead
<1>9. LowShown'
  BY <1>4, <1>8 DEF LowShown
<1>10. ASSUME NEW c \in Callers, InStep(c)'
       PROVE  /\ ByteNow(c)' = 1 /\ BitNow(c)' = 0 /\ chip'.expects = "rom" /\ chip'.bits = 0
              /\ chip'.byte = {} /\ Working(c)
  <2>1. Working(c) /\ wire = "good" /\ caller'[c].at = 0
    BY <1>1, <1>4, <1>6, <1>10 DEF InStep
  <2>2. Ahead(c)'
    BY <1>10, <2>1 DEF InStep
  <2>. QED
    BY <1>1, <1>2, <2>1, <2>2 DEF ByteNow, BitNow
<1>11. IdFollowed'
  <2>1. {b \in Sends["id"][1] : b < 0} = {}
    BY SendsAre
  <2>. QED
    BY <1>10, <2>1, SendsAre DEF IdFollowed
<1>12. MemoryFollowed'
  <2>1. {b \in Sends["memory"][1] : b < 0} = {}
    BY SendsAre
  <2>2. 1 \in 1..4 /\ Hears[1] = "rom"
    BY DEF Hears
  <2>. QED
    BY <1>8, <1>10, <2>1, <2>2, SendsAre DEF MemoryFollowed
<1>. QED
  BY <1>3, <1>5, <1>7, <1>9, <1>11, <1>12 DEF OwInv

-----------------------------------------------------------------------------
LEMMA OwKeeps == OwInv /\ [OwNext]_owVars => OwInv'
<1>. SUFFICES ASSUME OwInv, [OwNext]_owVars PROVE OwInv'
  OBVIOUS
<1>1. ASSUME NEW c \in Callers, CallerStep(c) PROVE OwInv'
  <2>1. CASE Take(c)
    BY <2>1, OwTakeKeeps
  <2>2. CASE Issue(c)
    BY <2>2, OwIssueKeeps
  <2>3. CASE Poll(c)
    BY <2>3, OwPollKeeps
  <2>4. CASE Sample(c)
    BY <2>4, OwSampleKeeps
  <2>5. CASE Check(c)
    BY <2>5, OwCheckKeeps
  <2>6. CASE Touch(c)
    BY <2>6, OwSame DEF Touch
  <2>. QED
    BY <1>1, <2>1, <2>2, <2>3, <2>4, <2>5, <2>6 DEF CallerStep
<1>2. CASE Carry
  BY <1>2, OwCarryKeeps
<1>3. CASE CarryReset
  BY <1>3, OwCarryResetKeeps
<1>4. CASE StopUnmaps
  BY <1>4, OwSame DEF StopUnmaps
<1>5. CASE UNCHANGED owVars
  BY <1>5, OwSame DEF owVars
<1>. QED
  BY <1>1, <1>2, <1>3, <1>4, <1>5 DEF OwNext

\* An id that is returned is the chip's, or zeros from a wire that is held low, whatever
\* was turned, timed out or failed before (LecDallasReadId); a memory that was read without
\* noise is the chip's; the mutex is given back: for any id, memory and limits, when the
\* CRC tells MaxFlips turned bits.
THEOREM IdIsGenuine == OwSpec => []IdGenuine
<1>1. OwInv => IdGenuine
  BY DEF OwInv, OwResult, OwHeld, Working, IdGenuine
<1>. QED
  BY <1>1, OwInitially, OwKeeps, PTL DEF OwSpec
=============================================================================
