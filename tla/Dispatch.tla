------------------------------ MODULE Dispatch ------------------------------
(***************************************************************************)
(* LecS65DeviceControl: one request from its arrival to its completion.    *)
(* Input and output share a system buffer as long as the longer of the two,*)
(* and the I/O manager hands Information bytes of it back.  What a handler *)
(* does is in the other modules; here it is which lengths it admits, how   *)
(* far it reads and how far it writes.                                     *)
(***************************************************************************)
EXTENDS Integers

CONSTANTS
    Codes,         \* control codes that are sent, also unknown ones
    Lengths        \* lengths of input and output that are sent

\* LECS65_LEGACY_TRACE_BLOCK_BYTES, ..._REGISTER_ENTRY_BYTES and ..._REGISTER_COUNT
TraceBlockBytes == 272
RegisterEntryBytes == 266
RegisterCount == 43
RegisterListBytes == RegisterCount * RegisterEntryBytes

\* sizeof the structures of the private requests
DebugBytes == [stats |-> 48, bars |-> 72, pci |-> 84, trace |-> 16 + (256 * 464)]

ASSUME LengthsAssumption == Lengths \subseteq Nat

VARIABLES
    dpPc,          \* arrive, handle, record, complete or done
    request,       \* code, input and output length
    dpStatus, information,
    readEnd,       \* history: the handler has read the buffer up to here
    writeEnd,      \* history: and has written it, from its beginning up to here
    previews       \* history: lengths of the previews in the trace, if it was recorded

dpVars == <<dpPc, request, dpStatus, information, readEnd, writeEnd, previews>>

Requests == [code : Codes, in : Lengths, out : Lengths]

DpInit(requests) ==
    /\ dpPc = "arrive"
    /\ request \in requests
    /\ dpStatus = "invalid request" /\ information = 0
    /\ readEnd = 0 /\ writeEnd = 0 /\ previews = <<>>

-----------------------------------------------------------------------------
BufferBytes == IF request.in > request.out THEN request.in ELSE request.out
NoBuffer == BufferBytes = 0                     \* SystemBuffer == NULL
Neither == request.code = "CFDD219F"            \* METHOD_NEITHER has no system buffer
AtMost(a, b) == IF a < b THEN a ELSE b

\* What a handler leaves behind.
Result(status, reads, writes, info) ==
    [status |-> status, reads |-> reads, writes |-> writes, info |-> info]
Accepts(n)   == Result("success", n, 0, 0)
Returns(n) == Result("success", 0, n, n)
Refused(status) == Result(status, 0, 0, 0)

\* The register exists and is mapped, or LecResolveRegister refuses it.
Resolved(good) == {good, Result("refused", good.reads, 0, 0)}

\* Requests that write a setting: exact lengths, but for the delay.
SetterBytes == [c \in {"22C00", "22C04", "23000", "2303C", "CFDC2180", "CFDC218C", "23100",
                       "CFDC2190", "CFDC2400", "CFDC2128"} |->
    CASE c = "22C04" -> 1
      [] c = "23000" -> 264
      [] c = "2303C" -> RegisterEntryBytes
      [] c = "23100" -> 12
      [] c = "CFDC2190" -> 29
      [] OTHER -> 4]
AnyOutput == {"22C00", "CFDC2400", "CFDC2128"}

SetterAdmitted(r) ==
    /\ IF r.code = "22C00" THEN r.in >= 4 ELSE r.in = SetterBytes[r.code]
    /\ r.code \in AnyOutput \/ r.out = 0

Setter(r) ==
    IF ~SetterAdmitted(r) THEN {Refused("invalid size")}
    ELSE IF r.code = "22C00" THEN {Accepts(IF r.in = 5 THEN 5 ELSE 4)}
    ELSE IF r.code \in {"22C04", "23000"} THEN {Accepts(SetterBytes[r.code])}
    ELSE Resolved(Accepts(SetterBytes[r.code]))

\* QUERY_BUFFER_A: the size of the trace block, or the block.
QueryA(r) ==
    IF r.out \in {4, TraceBlockBytes} THEN {Returns(r.out)} ELSE {Refused("invalid size")}

\* Mutant: the output is not asked for its length.
QueryBLoose(r) ==
    IF r.out = 4 THEN {Returns(4)}
    ELSE IF r.in = 0 /\ r.out = RegisterListBytes THEN {Returns(RegisterListBytes)}
    ELSE IF r.in = 4 THEN {Result("success", 4, RegisterEntryBytes, RegisterEntryBytes)}
    ELSE {Refused("invalid size")}

\* QUERY_BUFFER_B: the size of the register list, the list or one entry, whose index is
\* below RegisterCount or refused.  A register that is not mapped is listed with 0.
QueryB(r) ==
    IF r.out = 4 THEN {Returns(4)}
    ELSE IF r.in = 0 /\ r.out = RegisterListBytes THEN {Returns(RegisterListBytes)}
    ELSE IF r.in = 4 /\ r.out = RegisterEntryBytes
         THEN Resolved(Result("success", 4, RegisterEntryBytes, RegisterEntryBytes))
    ELSE {Refused("invalid size")}

\* Requests that return a value or a structure.
Getter(r) ==
    CASE r.code = "23044" /\ r.out = 4 -> Resolved(Returns(4))
      [] r.code = "CFDC2194" /\ r.out = 29 -> {Returns(29)}
      [] r.code = "CFDC21C8" /\ r.out >= 4 -> {Returns(4)}
      [] r.code = "stats" /\ r.out >= DebugBytes.stats -> {Returns(DebugBytes.stats)}
      [] r.code = "bars" /\ r.out >= DebugBytes.bars -> {Returns(DebugBytes.bars)}
      [] r.code = "trace" /\ r.out >= DebugBytes.trace -> {Returns(DebugBytes.trace)}
      [] OTHER -> {Refused("invalid size")}

\* LecReadPciConfig: what it has read so far is in the buffer when it fails.
PciConfig(r) ==
    IF r.out < DebugBytes.pci THEN {Refused("too small")}
    ELSE {Returns(DebugBytes.pci), Result("failed", 0, DebugBytes.pci, 0)}

\* Id and memory of the Dallas chip: bytes read before a failure are in the buffer.
Dallas(r) ==
    IF (r.code = "23080" /\ r.out = 8) \/ (r.code = "23084" /\ r.out \in 1..512)
    THEN {Returns(r.out), Result("failed", 0, r.out, 0), Refused("failed")}
    ELSE {Refused("invalid size")}

\* CFDC21C0 and CFDC21C4, in the legacy and in the extended form.
Register(r) ==
    CASE r.code = "CFDC21C0" /\ r.in \in {4, 5} /\ r.out >= 4 ->
            Resolved(Result("success", r.in, 4, 4))
      [] r.code = "CFDC21C4" /\ r.in \in {8, 9} -> Resolved(Accepts(r.in))
      [] OTHER -> {Refused("invalid size")}

\* CFDC2124, CFDC2138: the acquisition reports its byte count although it may fail.
TransferRequest(r) ==
    CASE r.code = "CFDC2124" /\ r.in = 12 /\ r.out >= 4 ->
            {Result("success", 12, 4, 4), Result("failed", 12, 0, 0)}
      [] r.code = "CFDC2138" /\ r.in = 15 /\ r.out = 4 ->
            {Result("success", 15, 4, 4), Result("failed", 15, 4, 4),
             Result("refused", 15, 0, 0)}
      [] OTHER -> {Refused("invalid size")}

\* CFDC2110: not admitted, refused by its first pass, or executed with the output zeroed
\* first (module Framing).
Batch(r) ==
    IF r.in = 0 THEN {Refused("invalid request")}
    ELSE {Refused("invalid request"), Result("too small", r.in, 0, 0)}
         \cup {Result("success", r.in, r.out, total) : total \in {0, r.out}}

Fixed(r) ==
    CASE r.code \in {"22400", "CFDC2184", "clear trace", "clear stats"} -> {Accepts(0)}
      [] r.code \in {"CFDC212C", "CFDD219F"} -> {Refused("not implemented")}
      [] OTHER -> {Refused("invalid request")}

Handler(r) ==
    CASE r.code \in DOMAIN SetterBytes -> Setter(r)
      [] r.code = "23004" -> QueryA(r)
      [] r.code = "23040" -> QueryB(r)
      [] r.code \in {"23044", "CFDC2194", "CFDC21C8", "stats", "bars", "trace"} -> Getter(r)
      [] r.code = "pci" -> PciConfig(r)
      [] r.code \in {"23080", "23084"} -> Dallas(r)
      [] r.code \in {"CFDC21C0", "CFDC21C4"} -> Register(r)
      [] r.code \in {"CFDC2124", "CFDC2138"} -> TransferRequest(r)
      [] r.code = "CFDC2110" -> Batch(r)
      [] OTHER -> Fixed(r)

-----------------------------------------------------------------------------
\* The preview of the input is copied first: of user memory, if there is no buffer.
Arrive ==
    /\ dpPc = "arrive"
    /\ dpPc' = "handle"
    /\ previews' \in IF Neither THEN {<<0>>, <<AtMost(request.in, 256)>>}
                                ELSE {<<AtMost(request.in, 256)>>}
    /\ UNCHANGED <<request, dpStatus, information, readEnd, writeEnd>>

Handle ==
    /\ dpPc = "handle"
    /\ \E result \in Handler(request) :
          /\ dpStatus' = result.status
          /\ information' = result.info
          /\ readEnd' = result.reads /\ writeEnd' = result.writes
    /\ dpPc' = "record"
    /\ UNCHANGED <<request, previews>>

Private == {"stats", "clear stats", "bars", "trace", "clear trace", "pci"}

\* LecRecordIoctlTrace leaves the private requests out.
Record ==
    /\ dpPc = "record"
    /\ previews' =
          IF request.code \in Private THEN <<>>
          ELSE <<previews[1], IF dpStatus = "success" /\ ~Neither
                              THEN AtMost(information, 128) ELSE 0>>
    /\ dpPc' = "complete"
    /\ UNCHANGED <<request, dpStatus, information, readEnd, writeEnd>>

\* IoCompleteRequest
Complete ==
    /\ dpPc = "complete"
    /\ dpPc' = "done"
    /\ UNCHANGED <<request, dpStatus, information, readEnd, writeEnd, previews>>

DpNext == Arrive \/ Handle \/ Record \/ Complete

DpSpec == DpInit(Requests) /\ [][DpNext]_dpVars

-----------------------------------------------------------------------------
(* Properties.                                                              *)

\* Whatever code and lengths come: the handler reads no further than the caller wrote
\* and writes no further than the caller takes; the bytes that go back, and into the
\* trace, were written for this request, and are not input that lay in the shared
\* buffer.  A request that fails returns nothing, but for the acquisition, which says
\* how many bytes it was asked for.
BufferDiscipline ==
    /\ readEnd <= request.in /\ writeEnd <= request.out
    /\ information <= writeEnd
    /\ NoBuffer => information = 0
    /\ dpStatus # "success" => information = 0 \/ request.code = "CFDC2138"
    /\ dpPc \in {"complete", "done"} /\ request.code \notin Private =>
          previews[1] <= request.in /\ previews[2] <= writeEnd
=============================================================================
