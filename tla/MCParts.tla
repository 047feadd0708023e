------------------------------ MODULE MCParts ------------------------------
(***************************************************************************)
(* The parts of the program that share no state with one another, checked  *)
(* in one run: a behaviour begins in one part and stays in it.  The other  *)
(* parts keep a fixed initial state, so that the states of the run are the *)
(* sum of the states of the parts.  This module has the small instances.   *)
(***************************************************************************)
EXTENDS LegacyTimer, DescriptorTable, Framing, MamCache, SpiCommand, OneWire, Lifecycle,
        LecDiag, DallasBackup, TraceCapture, XStreamHook

VARIABLE part

Parts == {"timer", "table", "framing", "mam", "spi", "oneWire", "lifecycle", "dispatch",
          "diag", "backup", "capture", "hook"}

-----------------------------------------------------------------------------
\* LegacyTimer: a ULONG has sixteen values.
SmallDurations == {0, 1, 3, Half - 1}

\* DescriptorTable: pages of a buffer that lie apart, one of them above 4 GiB; tables of
\* pages in any order, with one above 4 GiB behind or at the beginning.
SmallSource ==
    {[p \in 0..12 |-> 30 - p], [p \in 0..12 |-> IF p = 2 THEN 90 ELSE 10 + 3 * p]}
SmallTable ==
    {[p \in 0..3 |-> 50 + ((2 * p) % 3)]}
    \cup {[p \in 0..3 |-> IF p = high THEN 91 ELSE 60 + p] : high \in 0..1}

\* Framing: records at the edge of every check, alone, and before or behind a plain one.
Shift(kind, out, plen, arg, bits, room) ==
    [kind |-> kind, out |-> out, plen |-> plen, arg |-> arg, bits |-> bits, room |-> room,
     addr |-> 0]
Plain(kind, out, plen, arg) == Shift(kind, out, plen, arg, 0, 0)

PlainEdges ==
    {Plain(k, 6, Fewest[k] + d, a) :
        k \in Kinds \ {"mam", "spi", "jtag", "jtagWrite"}, d \in {-1, 0, 1}, a \in {1, 2}}
    \cup {Plain(k, 6, Exactly[k], 1) : k \in DOMAIN Exactly}
    \cup {[Plain("reg", 6, 10, 1) EXCEPT !.addr = 2]}
    \cup {Plain("mam", o, p, 0) : o \in {0, 6}, p \in {0, 3, 510, 512}}
    \cup {Plain("status", o, 2, 1) : o \in {9, 10}}
ShiftEdges ==
    {Shift("spi", 6, p, a, b, 0) : p \in {8, 10, 12}, a \in {4, 5}, b \in {0, 16, 17}}
    \cup {Shift("jtagWrite", o, p, a, b, 0) :
            o \in {5, 6}, p \in {7, 8, 12, 16}, a \in {1, 2}, b \in {0, 16, 17}}
    \cup {Shift("jtag", 6, p, a, b, r) :
            p \in {11, 12, 16, 20}, a \in {1, 2}, b \in {0, 16, 17, 40}, r \in {0, 2, 4}}
Edges == PlainEdges \cup ShiftEdges
Followers == {Plain("fetch", 8, 2, 0), Plain("fetch", 5, 2, 0), Plain("forward", 6, 3, 0),
              Plain("led", 6, 5, 0)}

\* The packets that LecIsStructurallySupportedCfDc2110 compares the buffer with.
LongScan(mode) == <<Shift("jtag", 6, 76, mode, 256, 32), Plain("fetch", 40, 2, 0)>>
ShortScan(mode) == <<Shift("jtag", 6, 36, mode, 83, 12), Plain("fetch", 20, 2, 0)>>
SmallCaptured ==
    {LongScan(mode) : mode \in 0..5} \cup {ShortScan(mode) : mode \in 0..1}
    \cup {<<Shift("jtag", 6, 24, 1, 58, 8), Plain("fetch", 16, 2, 0)>>,
          <<Plain("reset", 6, 10, 0)>>, <<Plain("status", 10, 2, 1)>>,
          <<Plain("mask", 6, 6, 0), Plain("fetch", 8, 2, 0)>>}

RecordLists ==
    {<<r>> : r \in Edges} \cup (Edges \X Followers) \cup (Followers \X Edges)
    \cup SmallCaptured
Total(records, field) ==
    records[1][field] + IF Len(records) = 2 THEN records[2][field] ELSE 0

\* The buffer ends before its last record, with it or behind it, and the output has room
\* for all or one byte less.
SmallBuffers ==
    {[records |-> l, length |-> Total(l, "plen") + HeaderBytes * Len(l) + d,
      out |-> IF Total(l, "out") = 0 THEN 0 ELSE Total(l, "out") - less] :
        l \in RecordLists, d \in {-1, 0, 5}, less \in {0, 1}}

\* MamCache and SpiCommand.
SmallPrograms == {<<0>>, <<7, 0>>, <<Filled, 7>>}
SmallSpi == [line : {"0", "4", "C"}, bits : {0, 16, 21}, pulse : BOOLEAN]
SmallControl == {[high |-> {"0", "4"}, mode |-> {5}, count |-> 3]}

\* OneWire: an id of one byte and its CRC, a memory of two bytes.
SmallRom == <<{1, 3, 6}, Crc8(<<{1, 3, 6}>>)>>
SmallMemory == <<{0, 7}, {2}>>

\* Lifecycle: lists that fit, that lack or exceed a BAR, and whose BARs are too short.
Mem(length) == [kind |-> "memory", length |-> length]
Irq == [kind |-> "interrupt", length |-> 17]
Other == [kind |-> "other", length |-> 1]
SmallLists ==
    {<<>>, <<Mem(512), Mem(64)>>, <<Mem(512), Mem(4096), Mem(512), Irq>>,
     <<Irq, Mem(512), Mem(512), Mem(64)>>,
     <<Mem(512), Other, Mem(512), Mem(512), Mem(512), Irq>>,
     <<Mem(16), Mem(4), Mem(68)>>, <<Mem(12), Mem(4), Mem(68)>>}

\* Dispatch: every code of the handler's switch and one more, and the lengths it compares
\* with, one less or one more.
AllCodes ==
    DOMAIN SetterBytes \cup Private
    \cup {"22400", "23004", "23040", "23044", "23080", "23084", "CFDC2110", "CFDC2124",
          "CFDC212C", "CFDC2138", "CFDC2184", "CFDC2194", "CFDC21C0", "CFDC21C4",
          "CFDC21C8", "CFDD219F", "unknown"}
SmallLengths ==
    {0, 1, 4, 5, 8, 9, 12, 15, 29, 48, 72, 84, 264, 266, 272, 512, 513, 11438, 118800}

\* LecDiag: every command; lengths the tool refuses, and codes the driver does not know.
Plainly(name) == [name |-> name, code |-> "", in |-> 0, out |-> 0]
SmallCommands ==
    {Plainly(n) : n \in {"build", "stats", "bars", "pci", "trace", "trace-clear", "dallas-id",
        "start-register", "error-status", "legacy-jtag-poll", "legacy-prepoll-replay"}}
    \cup {[Plainly("dallas-read") EXCEPT !.out = n] : n \in {0, 1, 512, 513}}
    \cup {[Plainly("read") EXCEPT !.in = n] : n \in {2, 3}}
    \cup {[name |-> "raw-ioctl", code |-> c, in |-> 4, out |-> o] :
            c \in {"22C00", "23040", "CFDC2180", "unknown"}, o \in {0, 4, 266, 65537}}

-----------------------------------------------------------------------------
\* The input of a part that is not checked.
OneSource  == CHOOSE s \in Sources : TRUE
OneFrames  == CHOOSE f \in TableFrames : TRUE
OneBuffer  == CHOOSE b \in Buffers : TRUE
OneRequest == CHOOSE r \in Requests : TRUE
OneCommand == CHOOSE c \in DiagCommands : c.name = "build"

PartsInit ==
    /\ part \in Parts
    /\ Init /\ (part # "timer" => now = TicksPerMs)
    /\ OwInit /\ (part # "oneWire" => wire = "good")
    /\ MamInit /\ SpiInit /\ LcInit
    /\ DtInit(IF part = "table" THEN Sources ELSE {OneSource},
              IF part = "table" THEN TableFrames ELSE {OneFrames})
    /\ FrInit(IF part = "framing" THEN Buffers ELSE {OneBuffer})
    /\ DpInit(IF part = "dispatch" THEN Requests ELSE {OneRequest})
    /\ DgInit(IF part = "diag" THEN DiagCommands ELSE {OneCommand})
    /\ BkInit /\ (part # "backup" => ~found)
    /\ TcInit /\ HookInit

boardVars == <<vars, dtVars, mamVars, spiVars, owVars, lcVars>>
requestVars == <<frVars, dpVars>>
toolVars == <<dgVars, bkVars, captureVars, hookVars>>

BoardNext ==
    \/ /\ part = "timer" /\ Next
       /\ UNCHANGED <<dtVars, mamVars, spiVars, owVars, lcVars>>
    \/ /\ part = "table" /\ DtNext
       /\ UNCHANGED <<vars, mamVars, spiVars, owVars, lcVars>>
    \/ /\ part = "mam" /\ MamNext
       /\ UNCHANGED <<vars, dtVars, spiVars, owVars, lcVars>>
    \/ /\ part = "spi" /\ SpiNext
       /\ UNCHANGED <<vars, dtVars, mamVars, owVars, lcVars>>
    \/ /\ part = "oneWire" /\ OwNext
       /\ UNCHANGED <<vars, dtVars, mamVars, spiVars, lcVars>>
    \/ /\ part = "lifecycle" /\ LcNext
       /\ UNCHANGED <<vars, dtVars, mamVars, spiVars, owVars>>

RequestNext ==
    \/ part = "framing" /\ FrNext /\ UNCHANGED <<dpVars, dgVars>>
    \/ part = "dispatch" /\ DpNext /\ UNCHANGED <<frVars, dgVars>>
    \/ part = "diag" /\ DgNext

ToolNext ==
    \/ part = "backup" /\ BkNext /\ UNCHANGED <<captureVars, hookVars>>
    \/ part = "capture" /\ TcNext /\ UNCHANGED <<bkVars, hookVars>>
    \/ part = "hook" /\ HookNext /\ UNCHANGED <<bkVars, captureVars>>

PartsNext ==
    /\ UNCHANGED part
    /\ \/ BoardNext /\ UNCHANGED <<requestVars, toolVars>>
       \/ RequestNext /\ UNCHANGED <<boardVars, bkVars, captureVars, hookVars>>
       \/ ToolNext /\ UNCHANGED <<boardVars, requestVars, dgVars>>

partsVars == <<part, boardVars, requestVars, toolVars>>

\* The fairness of LegacyTimer.
PartsSpec ==
    /\ PartsInit /\ [][PartsNext]_partsVars
    /\ WF_vars(part = "timer" /\ Tick)
    /\ WF_vars(part = "timer" /\ Expire)
    /\ WF_vars(part = "timer" /\ WriteMttCtl)
=============================================================================
