-------------------------- MODULE Requests_proofs --------------------------
(* Proofs about what happens to a request: Dispatch, for requests of any    *)
(* code and of any lengths; Framing, for CFDC2110 buffers of any records,   *)
(* lengths and room; LecDiag, the tool that makes both, with any arguments; *)
(* and XStreamHook, the call with which XStream makes a request and the     *)
(* trace that the hooks write of it, for any threads.                       *)
EXTENDS LecDiag, XStreamHook, Induction, SequenceTheorems, TLAPS

-----------------------------------------------------------------------------
(* Dispatch.                                                                *)

\* What the tools may send.
ToolCodes ==
    {"stats", "pci", "bars", "trace", "clear trace", "23044", "23080", "23084", "CFDC2110",
     "CFDC2194", "CFDC21C0", "CFDC21C8"}
    \cup {c.code : c \in DiagCommands}

AnyRequest == [code : Codes \cup ToolCodes, in : Nat, out : Nat]

\* What a handler may do to the shared buffer.
Disciplined(r, result) ==
    /\ result.reads \in Nat /\ result.writes \in Nat /\ result.info \in Nat
    /\ result.reads <= r.in
    /\ result.writes <= r.out
    /\ result.info <= result.writes
    /\ result.status # "success" => result.info = 0 \/ r.code = "CFDC2138"

AllDisciplined(r, results) == \A result \in results : Disciplined(r, result)

-----------------------------------------------------------------------------
(* Handlers.                                                                *)

LEMMA ResultIs ==
    ASSUME NEW r \in AnyRequest, NEW status, NEW a \in Nat, NEW b \in Nat, NEW c \in Nat,
           a <= r.in, b <= r.out, c <= b,
           status # "success" => c = 0 \/ r.code = "CFDC2138"
    PROVE  Disciplined(r, Result(status, a, b, c))
BY DEF Disciplined, Result

\* Lengths are numbers, and a refusal of any kind is disciplined.
LEMMA RefusedIs ==
    ASSUME NEW r \in AnyRequest
    PROVE  /\ r.in \in Nat /\ r.out \in Nat
           /\ \A status : Disciplined(r, Refused(status))
<1>1. r.in \in Nat /\ r.out \in Nat
  BY DEF AnyRequest
<1>. QED
  BY <1>1, ResultIs DEF Refused

LEMMA OneIs ==
    ASSUME NEW r, NEW x, Disciplined(r, x)
    PROVE  AllDisciplined(r, {x})
BY DEF AllDisciplined

LEMMA TwoAre ==
    ASSUME NEW r, NEW x, NEW y, Disciplined(r, x), Disciplined(r, y)
    PROVE  AllDisciplined(r, {x, y})
BY DEF AllDisciplined

LEMMA ResolvedIs ==
    ASSUME NEW r \in AnyRequest, NEW a \in Nat, NEW b \in Nat, NEW c \in Nat,
           a <= r.in, b <= r.out, c <= b
    PROVE  /\ Disciplined(r, Result("success", a, b, c))
           /\ AllDisciplined(r, Resolved(Result("success", a, b, c)))
<1>1. Disciplined(r, Result("success", a, b, c)) /\ Disciplined(r, Result("refused", a, 0, 0))
  BY RefusedIs, ResultIs
<1>2. Result("success", a, b, c).reads = a
  BY DEF Result
<1>. QED
  BY <1>1, <1>2, TwoAre DEF Resolved

LEMMA AcceptsIs ==
    ASSUME NEW r \in AnyRequest
    PROVE  \A n \in Nat : n <= r.in =>
              Disciplined(r, Accepts(n)) /\ AllDisciplined(r, Resolved(Accepts(n)))
BY RefusedIs, ResolvedIs DEF Accepts

LEMMA ReturnsIs ==
    ASSUME NEW r \in AnyRequest
    PROVE  \A n \in Nat : n <= r.out =>
              Disciplined(r, Returns(n)) /\ AllDisciplined(r, Resolved(Returns(n)))
BY RefusedIs, ResolvedIs DEF Returns

LEMMA SetterIs ==
    ASSUME NEW r \in AnyRequest, r.code \in DOMAIN SetterBytes
    PROVE  AllDisciplined(r, Setter(r))
<1>1. CASE ~SetterAdmitted(r)
  BY <1>1, RefusedIs, OneIs DEF Setter
<1>2. CASE SetterAdmitted(r) /\ r.code = "22C00"
  <2>. DEFINE n == IF r.in = 5 THEN 5 ELSE 4
  <2>1. n \in Nat /\ n <= r.in
    BY <1>2, RefusedIs DEF SetterAdmitted
  <2>2. Setter(r) = {Accepts(n)}
    BY <1>2 DEF Setter
  <2>. HIDE DEF n
  <2>. QED
    BY <2>1, <2>2, AcceptsIs, OneIs
<1>3. CASE SetterAdmitted(r) /\ r.code # "22C00"
  <2>. DEFINE n == SetterBytes[r.code]
  <2>1. n = r.in
    BY <1>3 DEF SetterAdmitted
  <2>2. Setter(r) = {Accepts(n)} \/ Setter(r) = Resolved(Accepts(n))
    BY <1>3 DEF Setter
  <2>. HIDE DEF n
  <2>. QED
    BY <2>1, <2>2, RefusedIs, AcceptsIs, OneIs
<1>. QED
  BY <1>1, <1>2, <1>3

LEMMA QueriesAre ==
    ASSUME NEW r \in AnyRequest
    PROVE  AllDisciplined(r, QueryA(r)) /\ AllDisciplined(r, QueryB(r))
<1>1. AllDisciplined(r, QueryA(r))
  <2>1. Disciplined(r, Returns(r.out))
    BY RefusedIs, ReturnsIs
  <2>. QED
    BY <2>1, RefusedIs, OneIs DEF QueryA
<1>2. AllDisciplined(r, QueryB(r))
  <2>. DEFINE entry == Result("success", 4, RegisterEntryBytes, RegisterEntryBytes)
  <2>1. r.out = 4 => AllDisciplined(r, {Returns(4)})
    BY RefusedIs, ReturnsIs, OneIs
  <2>2. r.out = RegisterListBytes => AllDisciplined(r, {Returns(RegisterListBytes)})
    BY RefusedIs, ReturnsIs, OneIs
  <2>3. r.in = 4 /\ r.out = RegisterEntryBytes => AllDisciplined(r, Resolved(entry))
    BY ResolvedIs, RefusedIs DEF RegisterEntryBytes
  <2>4. AllDisciplined(r, {Refused("invalid size")})
    BY RefusedIs, OneIs
  <2>. QED
    BY <2>1, <2>2, <2>3, <2>4 DEF QueryB
<1>. QED
  BY <1>1, <1>2

LEMMA GetterIs == ASSUME NEW r \in AnyRequest PROVE AllDisciplined(r, Getter(r))
<1>1. ASSUME NEW n \in Nat, n <= r.out
      PROVE  AllDisciplined(r, {Returns(n)}) /\ AllDisciplined(r, Resolved(Returns(n)))
  BY <1>1, ReturnsIs, OneIs
<1>2. AllDisciplined(r, {Refused("invalid size")})
  BY RefusedIs, OneIs
<1>3. r.out = 4 => AllDisciplined(r, Resolved(Returns(4)))
  <2>1. r.out >= 4 => AllDisciplined(r, Resolved(Returns(4)))
    BY <1>1, RefusedIs
  <2>. QED
    BY <2>1
<1>4. r.out = 29 => AllDisciplined(r, {Returns(29)})
  BY <1>1, RefusedIs
<1>5. r.out >= 4 => AllDisciplined(r, {Returns(4)})
  BY <1>1, RefusedIs
<1>6. /\ r.out >= DebugBytes.stats => AllDisciplined(r, {Returns(DebugBytes.stats)})
      /\ r.out >= DebugBytes.bars => AllDisciplined(r, {Returns(DebugBytes.bars)})
      /\ r.out >= DebugBytes.trace => AllDisciplined(r, {Returns(DebugBytes.trace)})
  <2>1. {DebugBytes.stats, DebugBytes.bars, DebugBytes.trace} \subseteq Nat
    BY DEF DebugBytes
  <2>. QED
    BY <2>1, <1>1, RefusedIs
<1>. QED
  BY <1>2, <1>3, <1>4, <1>5, <1>6 DEF Getter

LEMMA ReadersAre ==
    ASSUME NEW r \in AnyRequest
    PROVE  AllDisciplined(r, PciConfig(r)) /\ AllDisciplined(r, Dallas(r))
<1>1. ASSUME NEW n \in Nat, n <= r.out
      PROVE  Disciplined(r, Returns(n)) /\ Disciplined(r, Result("failed", 0, n, 0))
  BY <1>1, RefusedIs, ReturnsIs, ResultIs
<1>2. DebugBytes.pci \in Nat
  BY DEF DebugBytes
<1>3. AllDisciplined(r, PciConfig(r))
  <2>. DEFINE n == DebugBytes.pci
  <2>1. AllDisciplined(r, {Refused("too small")})
    BY RefusedIs, OneIs
  <2>2. ~(r.out < n) => AllDisciplined(r, {Returns(n), Result("failed", 0, n, 0)})
    <3>. HIDE DEF n
    <3>. QED
      BY <1>1, <1>2, RefusedIs, TwoAre DEF n
  <2>. QED
    BY <2>1, <2>2 DEF PciConfig
<1>4. AllDisciplined(r, Dallas(r))
  <2>1. /\ Disciplined(r, Returns(r.out)) /\ Disciplined(r, Result("failed", 0, r.out, 0))
        /\ Disciplined(r, Refused("failed")) /\ Disciplined(r, Refused("invalid size"))
    <3>1. r.out <= r.out
      BY RefusedIs
    <3>. QED
      BY <3>1, <1>1, RefusedIs
  <2>. QED
    BY <2>1 DEF Dallas, AllDisciplined
<1>. QED
  BY <1>3, <1>4

LEMMA WritersAre ==
    ASSUME NEW r \in AnyRequest
    PROVE  /\ AllDisciplined(r, Register(r))
           /\ AllDisciplined(r, TransferRequest(r))
           /\ AllDisciplined(r, Batch(r))
           /\ AllDisciplined(r, Fixed(r))
<1>1. AllDisciplined(r, Register(r))
  <2>1. r.out >= 4 => AllDisciplined(r, Resolved(Result("success", r.in, 4, 4)))
    BY RefusedIs, ResolvedIs
  <2>2. AllDisciplined(r, Resolved(Accepts(r.in)))
    BY RefusedIs, AcceptsIs
  <2>. QED
    BY <2>1, <2>2, RefusedIs, OneIs DEF Register
<1>2. AllDisciplined(r, TransferRequest(r))
  <2>1. r.in = 12 /\ r.out >= 4 =>
          /\ Disciplined(r, Result("success", 12, 4, 4))
          /\ Disciplined(r, Result("failed", 12, 0, 0))
    BY RefusedIs, ResultIs
  <2>2. r.in = 15 /\ r.out = 4 =>
          /\ Disciplined(r, Result("success", 15, 4, 4))
          /\ r.code = "CFDC2138" => Disciplined(r, Result("failed", 15, 4, 4))
          /\ Disciplined(r, Result("refused", 15, 0, 0))
    BY RefusedIs, ResultIs
  <2>. QED
    BY <2>1, <2>2, RefusedIs DEF TransferRequest, AllDisciplined
<1>3. AllDisciplined(r, Batch(r))
  <2>1. /\ Disciplined(r, Result("too small", r.in, 0, 0))
        /\ Disciplined(r, Result("success", r.in, r.out, 0))
        /\ Disciplined(r, Result("success", r.in, r.out, r.out))
    <3>1. r.in \in Nat /\ r.out \in Nat /\ r.in <= r.in /\ r.out <= r.out /\ 0 <= r.out
      BY RefusedIs
    <3>2. Disciplined(r, Result("too small", r.in, 0, 0))
      BY <3>1 DEF Disciplined, Result
    <3>3. Disciplined(r, Result("success", r.in, r.out, 0))
      BY <3>1, ResultIs
    <3>4. Disciplined(r, Result("success", r.in, r.out, r.out))
      BY <3>1, ResultIs
    <3>. QED
      BY <3>2, <3>3, <3>4
  <2>. QED
    BY <2>1, RefusedIs DEF Batch, AllDisciplined
<1>4. AllDisciplined(r, Fixed(r))
  <2>1. Disciplined(r, Accepts(0))
    BY RefusedIs, AcceptsIs
  <2>. QED
    BY <2>1, RefusedIs, OneIs DEF Fixed
<1>. QED
  BY <1>1, <1>2, <1>3, <1>4

LEMMA HandlerIs == ASSUME NEW r \in AnyRequest PROVE AllDisciplined(r, Handler(r))
BY SetterIs, QueriesAre, GetterIs, ReadersAre, WritersAre DEF Handler

-----------------------------------------------------------------------------
(* The request.                                                             *)

OnePreview == \E n \in Nat : previews = <<n>> /\ n <= request.in
TwoPreviews == \E m, n \in Nat : previews = <<m, n>> /\ m <= request.in /\ n <= writeEnd

DpInv ==
    /\ dpPc \in {"arrive", "handle", "record", "complete", "done"}
    /\ request \in AnyRequest
    /\ {readEnd, writeEnd, information} \subseteq Nat
    /\ readEnd <= request.in /\ writeEnd <= request.out /\ information <= writeEnd
    /\ dpStatus # "success" => information = 0 \/ request.code = "CFDC2138"
    /\ dpPc \in {"handle", "record"} => OnePreview
    /\ dpPc \in {"complete", "done"} /\ request.code \notin Private => TwoPreviews

LEMMA DpKeeps == DpInv /\ [DpNext]_dpVars => DpInv'
<1>. SUFFICES ASSUME DpInv, [DpNext]_dpVars PROVE DpInv'
  OBVIOUS
<1>. USE DEF DpInv
<1>1. CASE Arrive
  <2>1. OnePreview'
    BY <1>1 DEF Arrive, AtMost, AnyRequest, OnePreview
  <2>. QED
    BY <1>1, <2>1 DEF Arrive
<1>2. CASE Handle
  <2>1. PICK result \in Handler(request) :
          /\ dpStatus' = result.status /\ information' = result.info
          /\ readEnd' = result.reads /\ writeEnd' = result.writes
    BY <1>2 DEF Handle
  <2>2. Disciplined(request, result)
    BY HandlerIs DEF AllDisciplined
  <2>3. OnePreview'
    BY <1>2 DEF Handle, OnePreview
  <2>. QED
    BY <1>2, <2>1, <2>2, <2>3 DEF Handle, Disciplined
<1>3. CASE Record
  <2>1. ASSUME request.code \notin Private PROVE TwoPreviews'
    <3>1. PICK m \in Nat : previews = <<m>> /\ m <= request.in
      BY <1>3 DEF Record, OnePreview
    <3>. DEFINE n == IF dpStatus = "success" /\ ~Neither THEN AtMost(information, 128) ELSE 0
    <3>2. n \in Nat /\ n <= writeEnd
      BY DEF AtMost
    <3>3. previews' = <<m, n>>
      BY <1>3, <2>1, <3>1 DEF Record
    <3>. HIDE DEF n
    <3>. QED
      BY <1>3, <3>1, <3>2, <3>3 DEF Record, TwoPreviews
  <2>. QED
    BY <1>3, <2>1 DEF Record
<1>4. CASE Complete
  <2>1. request.code \notin Private => TwoPreviews'
    BY <1>4 DEF Complete, TwoPreviews
  <2>. QED
    BY <1>4, <2>1 DEF Complete
<1>5. CASE UNCHANGED dpVars
  BY <1>5 DEF dpVars, OnePreview, TwoPreviews
<1>. QED
  BY <1>1, <1>2, <1>3, <1>4, <1>5 DEF DpNext

\* No request reads or writes past what its caller passed, or returns bytes that were not
\* written for it, whatever the code and the lengths are.
THEOREM BuffersAreDisciplined == DpSpec => []BufferDiscipline
<1>1. DpInit(Requests) => DpInv
  <2>. SUFFICES ASSUME DpInit(Requests) PROVE DpInv
    OBVIOUS
  <2>1. request \in AnyRequest
    BY LengthsAssumption DEF DpInit, Requests, AnyRequest
  <2>2. request.in \in Nat /\ request.out \in Nat
    BY <2>1, RefusedIs
  <2>3. dpPc = "arrive" /\ readEnd = 0 /\ writeEnd = 0 /\ information = 0
    BY DEF DpInit
  <2>. QED
    BY <2>1, <2>2, <2>3 DEF DpInv
<1>2. DpInv => BufferDiscipline
  <2>. SUFFICES ASSUME DpInv PROVE BufferDiscipline
    OBVIOUS
  <2>1. NoBuffer => information = 0
    BY DEF DpInv, NoBuffer, BufferBytes, AnyRequest
  <2>2. dpPc \in {"complete", "done"} /\ request.code \notin Private =>
          previews[1] <= request.in /\ previews[2] <= writeEnd
    BY DEF DpInv, TwoPreviews
  <2>. QED
    BY <2>1, <2>2 DEF DpInv, BufferDiscipline
<1>. QED
  BY <1>1, <1>2, DpKeeps, PTL DEF DpSpec

-----------------------------------------------------------------------------
(* Framing.                                                                 *)

FrSpec == FrInit(Buffers) /\ [][FrNext]_frVars

-----------------------------------------------------------------------------
(* Sums.                                                                    *)

\* f adds up the weights w from the first one on.
SumsOf(f, w, n) ==
    /\ f \in [1..n + 1 -> Nat]
    /\ f[1] = 0
    /\ \A i \in 1..n : f[i + 1] = f[i] + w[i]

\* There are such sums.
LEMMA SumsExist ==
    ASSUME NEW n \in Nat, NEW w \in [1..n -> Nat]
    PROVE  \E f : SumsOf(f, w, n)
<1>. DEFINE S == {m \in Nat : m <= n => \E f : SumsOf(f, w, m)}
<1>1. 0 \in S
  <2>1. SumsOf([i \in 1..0 + 1 |-> 0], w, 0)
    BY DEF SumsOf
  <2>. QED
    BY <2>1
<1>2. ASSUME NEW m \in Nat, m \in S PROVE m + 1 \in S
  <2>1. SUFFICES ASSUME m + 1 <= n PROVE \E f : SumsOf(f, w, m + 1)
    OBVIOUS
  <2>2. PICK f : SumsOf(f, w, m)
    BY <1>2, <2>1
  <2>. DEFINE h == [i \in 1..(m + 1) + 1 |-> IF i = m + 2 THEN f[m + 1] + w[m + 1] ELSE f[i]]
  <2>3. f[m + 1] \in Nat /\ w[m + 1] \in Nat
    BY <2>1, <2>2 DEF SumsOf
  <2>4. h \in [1..(m + 1) + 1 -> Nat]
    BY <2>2, <2>3 DEF SumsOf
  <2>5. ASSUME NEW i \in 1..m + 1 PROVE h[i + 1] = h[i] + w[i]
    BY <2>2 DEF SumsOf
  <2>6. h[1] = 0
    BY <2>2 DEF SumsOf
  <2>. QED
    BY <2>4, <2>5, <2>6 DEF SumsOf
<1>. HIDE DEF S
<1>3. n \in S
  BY <1>1, <1>2, AllNats
<1>. QED
  BY <1>3 DEF S

\* Sums do not fall.
LEMMA SumsRise ==
    ASSUME NEW n \in Nat, NEW w \in [1..n -> Nat], NEW f, SumsOf(f, w, n)
    PROVE  \A i, j \in 1..n + 1 : i <= j => f[i] <= f[j]
<1>. DEFINE S == {d \in Nat : \A i \in 1..n + 1 : i + d <= n + 1 => f[i] <= f[i + d]}
<1>1. 0 \in S
  BY DEF SumsOf
<1>2. ASSUME NEW d \in Nat, d \in S PROVE d + 1 \in S
  <2>1. ASSUME NEW i \in 1..n + 1, i + (d + 1) <= n + 1 PROVE f[i] <= f[i + (d + 1)]
    <3>1. i + d \in 1..n /\ i + d <= n + 1 /\ (i + d) + 1 = i + (d + 1)
      BY <2>1
    <3>2. f[i] <= f[i + d]
      BY <1>2, <3>1
    <3>3. f[i + (d + 1)] = f[i + d] + w[i + d]
      BY <3>1 DEF SumsOf
    <3>4. f[i] \in Nat /\ f[i + d] \in Nat /\ w[i + d] \in Nat
      BY <3>1 DEF SumsOf
    <3>. QED
      BY <3>2, <3>3, <3>4
  <2>. QED
    BY <2>1
<1>. HIDE DEF S
<1>3. \A d \in Nat : d \in S
  BY <1>1, <1>2, AllNats
<1>4. ASSUME NEW i \in 1..n + 1, NEW j \in 1..n + 1, i <= j PROVE f[i] <= f[j]
  <2>1. j - i \in Nat /\ i + (j - i) = j /\ i + (j - i) <= n + 1
    BY <1>4
  <2>2. j - i \in S
    BY <1>3, <2>1
  <2>3. f[i] <= f[i + (j - i)]
    BY <2>1, <2>2 DEF S
  <2>. QED
    BY <2>1, <2>3
<1>. QED
  BY <1>4

\* The bytes of each record, and the output that it asks for.
Spans(records) == [i \in 1..Len(records) |-> HeaderBytes + records[i].plen]
Rooms(records) == [i \in 1..Len(records) |-> records[i].out]

OutsOf(records) == CHOOSE f : SumsOf(f, Rooms(records), Len(records))

LEMMA RecordFields ==
    ASSUME NEW records \in Seq(FrRecord)
    PROVE  /\ Len(records) \in Nat
           /\ \A i \in 1..Len(records) : records[i] \in FrRecord
           /\ Spans(records) \in [1..Len(records) -> Nat]
           /\ Rooms(records) \in [1..Len(records) -> Nat]
<1>1. Len(records) \in Nat /\ \A i \in 1..Len(records) : records[i] \in FrRecord
  OBVIOUS
<1>2. \A r \in FrRecord : r.plen \in Nat /\ r.out \in Nat /\ HeaderBytes + r.plen \in Nat
  BY DEF FrRecord, HeaderBytes
<1>. QED
  BY <1>1, <1>2 DEF Spans, Rooms

LEMMA StartsAre ==
    ASSUME NEW records \in Seq(FrRecord)
    PROVE  SumsOf(StartsOf(records), Spans(records), Len(records))
<1>. DEFINE n == Len(records)
            Def(f) == f = [i \in 1..Len(records) + 1 |->
                             IF i = 1 THEN 0 ELSE f[i - 1] + (HeaderBytes + records[i - 1].plen)]
            start == CHOOSE f : Def(f)
<1>1. n \in Nat /\ Spans(records) \in [1..n -> Nat]
  BY RecordFields
<1>2. PICK f : SumsOf(f, Spans(records), n)
  BY <1>1, SumsExist
<1>3. Def(f)
  <2>1. ASSUME NEW i \in 1..n + 1, i # 1
        PROVE  f[i] = f[i - 1] + (HeaderBytes + records[i - 1].plen)
    <3>1. i - 1 \in 1..n /\ (i - 1) + 1 = i
      BY <1>1, <2>1
    <3>. QED
      BY <1>2, <3>1 DEF SumsOf, Spans
  <2>2. f[1] = 0 /\ f \in [1..n + 1 -> Nat]
    BY <1>2 DEF SumsOf
  <2>. QED
    BY <2>1, <2>2
<1>. HIDE DEF Def
<1>4. Def(start)
  BY <1>3
<1>5. StartsOf(records) = start
  BY DEF StartsOf, Def
<1>. HIDE DEF start
<1>6. start = f
  <2>. DEFINE S == {m \in Nat : m + 1 \in 1..n + 1 => start[m + 1] = f[m + 1]}
  <2>1. \A g : Def(g) => /\ g[1] = 0 /\ DOMAIN g = 1..n + 1
                         /\ g = [i \in 1..n + 1 |-> g[i]]
                         /\ \A i \in 1..n : g[i + 1] = g[i] + (HeaderBytes + records[i].plen)
    <3>. SUFFICES ASSUME NEW g, Def(g)
                  PROVE  /\ g[1] = 0 /\ DOMAIN g = 1..n + 1
                         /\ g = [i \in 1..n + 1 |-> g[i]]
                         /\ \A i \in 1..n : g[i + 1] = g[i] + (HeaderBytes + records[i].plen)
      OBVIOUS
    <3>1. g = [i \in 1..n + 1 |->
                  IF i = 1 THEN 0 ELSE g[i - 1] + (HeaderBytes + records[i - 1].plen)]
      BY DEF Def
    <3>2. g[1] = 0 /\ DOMAIN g = 1..n + 1 /\ g = [i \in 1..n + 1 |-> g[i]]
      BY <1>1, <3>1
    <3>3. ASSUME NEW i \in 1..n PROVE g[i + 1] = g[i] + (HeaderBytes + records[i].plen)
      <4>1. i + 1 \in 1..n + 1 /\ i + 1 # 1 /\ (i + 1) - 1 = i
        BY <1>1
      <4>. QED
        BY <3>1, <4>1
    <3>. QED
      BY <3>2, <3>3
  <2>2. 0 \in S
    BY <1>3, <1>4, <2>1
  <2>3. ASSUME NEW m \in Nat, m \in S PROVE m + 1 \in S
    <3>1. SUFFICES ASSUME (m + 1) + 1 \in 1..n + 1 PROVE start[(m + 1) + 1] = f[(m + 1) + 1]
      OBVIOUS
    <3>2. m + 1 \in 1..n
      BY <1>1, <3>1
    <3>. QED
      BY <1>3, <1>4, <2>1, <2>3, <3>2
  <2>. HIDE DEF S
  <2>4. \A m \in Nat : m \in S
    BY <2>2, <2>3, AllNats
  <2>5. ASSUME NEW i \in 1..n + 1 PROVE start[i] = f[i]
    <3>1. i - 1 \in Nat /\ (i - 1) + 1 = i
      OBVIOUS
    <3>. QED
      BY <2>4, <3>1 DEF S
  <2>. QED
    BY <1>3, <1>4, <2>1, <2>5
<1>. QED
  BY <1>2, <1>5, <1>6

LEMMA OutsAre ==
    ASSUME NEW records \in Seq(FrRecord)
    PROVE  SumsOf(OutsOf(records), Rooms(records), Len(records))
<1>1. \E f : SumsOf(f, Rooms(records), Len(records))
  BY RecordFields, SumsExist
<1>. QED
  BY <1>1 DEF OutsOf

-----------------------------------------------------------------------------
(* What holds of the three passes.                                          *)

Starts == StartsOf(buffer.records)
OutSums == OutsOf(buffer.records)
Listed == Len(buffer.records)

\* The first pass has admitted record i.
AdmittedAt(i) == Supported(buffer.records[i], buffer.length - Starts[i])

Behind == {"measure", "execute", "shift", "shiftWrite", "done", "ended"}
Executing == {"execute", "shift", "shiftWrite"}
Shifting == {"shift", "shiftWrite"}

\* A buffer of any records, of which each begins in it.
WellFramed(b) ==
    /\ b.length \in Nat /\ b.out \in Nat /\ b.records \in Seq(FrRecord)
    /\ \A i \in 1..Len(b.records) : StartsOf(b.records)[i] < b.length

FrTypeOK ==
    /\ WellFramed(buffer)
    /\ frPc \in {"admit", "refused"} \cup Behind
    /\ forwards \in BOOLEAN
    /\ totalOutput \in Nat /\ outputOffset \in Nat /\ readTo \in Nat
    /\ answers \in Seq(Nat)
    /\ shift \in [left : Nat, in : Nat, end : Nat, out : Nat, room : Nat, num : Nat,
                  shifted : Nat]

\* The offset is where the record begins; behind the first pass the records fill the
\* buffer, and each of them was admitted or all of them were captured.
FrPlace ==
    /\ frPos \in 1..Listed + 1 /\ frOffset = Starts[frPos]
    /\ frPc = "admit" => \A i \in 1..frPos - 1 : AdmittedAt(i)
    /\ frPc \in Behind =>
          /\ Starts[Listed + 1] = buffer.length
          /\ (\A i \in 1..Listed : AdmittedAt(i)) \/ buffer.records \in Captured
    /\ frPc \in Shifting => frPos <= Listed /\ Shifts(frRecord)
    /\ frPc = "shift" => frRecord.kind = "jtag"
    /\ frPc = "shiftWrite" => frRecord.kind = "jtagWrite"
    /\ frPc = "done" => frPos = Listed + 1

\* Nothing is done before the last pass, which writes what the second one has added up.
FrCounted ==
    /\ frPc \in {"admit", "measure", "refused"} =>
          answers = <<>> /\ readTo = 0 /\ outputOffset = 0
    /\ frPc \in {"admit", "refused"} => totalOutput = 0
    /\ frPc = "measure" => totalOutput = OutSums[frPos]
    /\ frPc \in Executing => totalOutput = OutSums[Listed + 1] /\ outputOffset = OutSums[frPos]
    /\ frPc \in Executing \cup {"done"} => Len(answers) = frPos - 1
    /\ outputOffset <= totalOutput /\ totalOutput <= buffer.out

FrEnded ==
    /\ Len(answers) <= Listed
    /\ frPc = "ended" /\ answers = <<>> /\ readTo = 0 =>
          frRecord.out > buffer.out - totalOutput

FrAnswers == \A i \in 1..Len(answers) : answers[i] \in {2, 4} => Excused(buffer.records[i])

\* A shift that has words and room for its bits keeps them.
FrShift ==
    frPc \in Shifting =>
        /\ shift.shifted + shift.left = frRecord.bits
        /\ shift.end <= buffer.length
        /\ \/ Excused(frRecord)
           \/ /\ shift.in + 4 * Words(shift.left) <= shift.end
              /\ frPc = "shift" => shift.out + 2 * Words(shift.left) <= shift.room

FrInv ==
    /\ FrTypeOK /\ FrPlace /\ FrCounted /\ FrEnded /\ FrAnswers /\ FrShift
    /\ readTo <= buffer.length

-----------------------------------------------------------------------------
\* The buffer, where its records begin and what they ask for.
LEMMA BufferIs ==
    ASSUME WellFramed(buffer)
    PROVE  /\ buffer.length \in Nat /\ buffer.out \in Nat
           /\ buffer.records \in Seq(FrRecord) /\ Listed \in Nat
           /\ \A i \in 1..Listed : buffer.records[i] \in FrRecord
           /\ Starts \in [1..Listed + 1 -> Nat] /\ OutSums \in [1..Listed + 1 -> Nat]
           /\ Starts[1] = 0 /\ OutSums[1] = 0
           /\ \A i \in 1..Listed :
                 /\ Starts[i] < buffer.length
                 /\ Starts[i + 1] = Starts[i] + (HeaderBytes + buffer.records[i].plen)
                 /\ Starts[i + 1] <= Starts[Listed + 1]
                 /\ OutSums[i + 1] = OutSums[i] + buffer.records[i].out
                 /\ OutSums[i + 1] <= OutSums[Listed + 1]
           /\ \A i \in 1..Listed + 1 : OutSums[i] <= OutSums[Listed + 1]
<1>. DEFINE records == buffer.records
            n == Len(records)
<1>1. /\ buffer.length \in Nat /\ buffer.out \in Nat /\ records \in Seq(FrRecord)
      /\ \A i \in 1..n : StartsOf(records)[i] < buffer.length
  BY DEF WellFramed
<1>. HIDE DEF records
<1>2. /\ n \in Nat /\ \A i \in 1..n : records[i] \in FrRecord
      /\ Spans(records) \in [1..n -> Nat] /\ Rooms(records) \in [1..n -> Nat]
  BY <1>1, RecordFields
<1>3. SumsOf(StartsOf(records), Spans(records), n)
  BY <1>1, StartsAre
<1>4. SumsOf(OutsOf(records), Rooms(records), n)
  BY <1>1, OutsAre
<1>5. \A i, j \in 1..n + 1 : i <= j => StartsOf(records)[i] <= StartsOf(records)[j]
  BY <1>2, <1>3, SumsRise
<1>6. \A i, j \in 1..n + 1 : i <= j => OutsOf(records)[i] <= OutsOf(records)[j]
  BY <1>2, <1>4, SumsRise
<1>7. ASSUME NEW i \in 1..n
      PROVE  /\ StartsOf(records)[i] < buffer.length
             /\ StartsOf(records)[i + 1] = StartsOf(records)[i] + (HeaderBytes + records[i].plen)
             /\ StartsOf(records)[i + 1] <= StartsOf(records)[n + 1]
             /\ OutsOf(records)[i + 1] = OutsOf(records)[i] + records[i].out
             /\ OutsOf(records)[i + 1] <= OutsOf(records)[n + 1]
  <2>1. i + 1 \in 1..n + 1 /\ n + 1 \in 1..n + 1 /\ i + 1 <= n + 1
    BY <1>2
  <2>. QED
    BY <1>1, <1>3, <1>4, <1>5, <1>6, <2>1 DEF SumsOf, Spans, Rooms
<1>8. ASSUME NEW i \in 1..n + 1 PROVE OutsOf(records)[i] <= OutsOf(records)[n + 1]
  <2>1. n + 1 \in 1..n + 1 /\ i <= n + 1
    BY <1>2
  <2>. QED
    BY <1>6, <2>1
<1>9. /\ StartsOf(records) \in [1..n + 1 -> Nat] /\ OutsOf(records) \in [1..n + 1 -> Nat]
      /\ StartsOf(records)[1] = 0 /\ OutsOf(records)[1] = 0
  BY <1>3, <1>4 DEF SumsOf
<1>. QED
  BY <1>1, <1>2, <1>7, <1>8, <1>9 DEF Starts, OutSums, Listed, records

\* The driver has the buffer and begins its first pass.
FrBegins ==
    /\ WellFramed(buffer)
    /\ frPc = "admit" /\ frPos = 1 /\ frOffset = 0 /\ forwards = FALSE
    /\ totalOutput = 0 /\ outputOffset = 0 /\ answers = <<>> /\ readTo = 0
    /\ shift = NoShift

LEMMA FrInitially == FrBegins => FrInv
<1>. SUFFICES ASSUME FrBegins PROVE FrInv
  OBVIOUS
<1>1. WellFramed(buffer)
  BY DEF FrBegins
<1>2. FrTypeOK
  <2>1. shift \in [left : Nat, in : Nat, end : Nat, out : Nat, room : Nat, num : Nat,
                  shifted : Nat]
    BY DEF FrBegins, NoShift
  <2>2. answers \in Seq(Nat)
    BY DEF FrBegins
  <2>. QED
    BY <2>1, <2>2 DEF FrBegins, FrTypeOK, Behind
<1>3. FrPlace
  BY <1>1, BufferIs DEF FrBegins, FrPlace, Behind, Shifting
<1>4. FrCounted /\ FrEnded /\ FrAnswers /\ FrShift /\ readTo <= buffer.length
  BY <1>1, BufferIs DEF FrBegins, FrCounted, FrEnded, FrAnswers, FrShift, Executing, Shifting
<1>. QED
  BY <1>2, <1>3, <1>4 DEF FrInv

-----------------------------------------------------------------------------
(* A record: what the last pass makes of one that the first has admitted.   *)

LEMMA WordsIs ==
    ASSUME NEW b \in Nat
    PROVE  /\ Words(b) \in Nat
           /\ b = 0 => Words(b) = 0
           /\ b > 0 => Words(b) >= 1
           /\ b >= 16 => Words(b - 16) = Words(b) - 1
BY DEF Words

\* Of a record that was admitted, the handler's own checks refuse no more, and it reads no
\* more than the payload.
LEMMA AdmittedIs ==
    ASSUME NEW r \in FrRecord, Rest \in Int, Supported(r, Rest)
    PROVE  /\ HeaderBytes + r.plen <= Rest
           /\ PayloadRead(r) \in Nat /\ PayloadRead(r) <= r.plen
           /\ TooSmall(r) => r.out < 6
           /\ Checked(r) \notin {2, 4}
<1>1. /\ r.kind \in Kinds /\ r.out \in Nat /\ r.plen \in Nat /\ r.arg \in Nat
      /\ r.bits \in Nat /\ r.room \in Nat /\ r.addr \in Nat
  BY DEF FrRecord
<1>2. /\ Rest >= HeaderBytes /\ HeaderBytes + r.plen <= Rest
      /\ r.kind \notin {"unknown", "reset", "status"}
      /\ r.plen >= Fewest[r.kind]
      /\ r.kind \in DOMAIN Exactly => r.plen = Exactly[r.kind]
      /\ ArgOk(r) /\ ShiftFits(r, Rest)
  BY DEF Supported
<1>3. Words(r.bits) \in Nat
  BY <1>1, WordsIs
<1>4. /\ r.kind \in {"jtagWrite", "arm", "spi"} => r.plen >= 8
      /\ r.kind = "mtt" => r.plen >= 4
      /\ r.kind = "led" => r.plen >= 5
      /\ r.kind \in {"enable", "mask", "pfreg"} => r.plen >= 6
      /\ r.kind = "jtag" => r.plen >= 12
      /\ r.kind = "fetch" => r.plen >= 2
      /\ r.kind \in {"reg", "launch", "itmode", "revision", "forward"} => r.plen >= 3
      /\ r.kind \in {"reg", "launch"} => r.plen = 10
  BY <1>1, <1>2 DEF Fewest, Exactly, Kinds
<1>5. PayloadRead(r) \in Nat /\ PayloadRead(r) <= r.plen
  BY <1>1, <1>2, <1>3, <1>4 DEF PayloadRead, ShiftFits, Kinds
<1>6. TooSmall(r) => r.out < 6
  BY <1>1, <1>2, <1>4 DEF TooSmall, IsA5fb, Kinds
<1>7. Checked(r) \notin {2, 4}
  <2>1. CASE r.kind = "spi"
    BY <1>1, <1>2, <1>3, <1>4, <2>1 DEF Checked, ArgOk, ShiftFits
  <2>2. CASE r.kind \in {"jtagWrite", "arm", "led", "mask", "launch"}
    BY <1>1, <1>2, <1>4, <2>2 DEF Checked, ArgOk
  <2>3. CASE r.kind \in {"enable", "pfreg", "reg"}
    BY <1>1, <1>2, <1>4, <2>3 DEF Checked, ArgOk
  <2>4. CASE r.kind = "jtag"
    BY <1>1, <1>2, <1>4, <2>4 DEF Checked, ArgOk, HeaderBytes, Furthest
  <2>5. CASE r.kind \in {"mam", "mtt", "itmode", "revision", "forward", "fetch"}
    BY <2>5 DEF Checked
  <2>. QED
    BY <1>1, <1>2, <2>1, <2>2, <2>3, <2>4, <2>5 DEF Kinds
<1>. QED
  BY <1>2, <1>5, <1>6, <1>7

-----------------------------------------------------------------------------
(* The record the walk is at.                                               *)

LEMMA PlaceIs ==
    ASSUME FrTypeOK, FrPlace
    PROVE  /\ frOffset \in Nat /\ frPos \in Nat /\ frPos >= 1
           /\ Rest \in Int
           /\ frPc \in Behind => Rest >= 0 /\ (Rest > 0 <=> frPos <= Listed)
           /\ frPos <= Listed =>
                 /\ frRecord \in FrRecord
                 /\ frRecord.plen \in Nat /\ frRecord.out \in Nat /\ frRecord.bits \in Nat
                 /\ frRecord.room \in Nat /\ frRecord.kind \in Kinds
                 /\ Rest > 0 /\ Span \in Nat
                 /\ frPos + 1 \in 1..Listed + 1
                 /\ frOffset + Span = Starts[frPos + 1]
                 /\ frPc \in Behind => Span <= Rest
                 /\ OutSums[frPos + 1] = OutSums[frPos] + frRecord.out
                 /\ OutSums[frPos + 1] <= OutSums[Listed + 1]
                 /\ OutSums[frPos] \in Nat /\ OutSums[Listed + 1] \in Nat
<1>1. /\ buffer.length \in Nat /\ Listed \in Nat
      /\ Starts \in [1..Listed + 1 -> Nat] /\ OutSums \in [1..Listed + 1 -> Nat]
      /\ \A i \in 1..Listed :
            /\ buffer.records[i] \in FrRecord
            /\ Starts[i] < buffer.length
            /\ Starts[i + 1] = Starts[i] + (HeaderBytes + buffer.records[i].plen)
            /\ Starts[i + 1] <= Starts[Listed + 1]
            /\ OutSums[i + 1] = OutSums[i] + buffer.records[i].out
            /\ OutSums[i + 1] <= OutSums[Listed + 1]
  BY BufferIs DEF FrTypeOK
<1>2. frPos \in 1..Listed + 1 /\ frOffset = Starts[frPos]
  BY DEF FrPlace
<1>3. frOffset \in Nat /\ Rest = buffer.length - frOffset /\ Rest \in Int
  BY <1>1, <1>2 DEF Rest
<1>4. frPc \in Behind => Starts[Listed + 1] = buffer.length
  BY DEF FrPlace
<1>5. ASSUME frPos <= Listed
      PROVE  /\ frRecord \in FrRecord
             /\ frRecord.plen \in Nat /\ frRecord.out \in Nat /\ frRecord.bits \in Nat
             /\ frRecord.room \in Nat /\ frRecord.kind \in Kinds
             /\ Rest > 0 /\ Span \in Nat
             /\ frPos + 1 \in 1..Listed + 1
             /\ frOffset + Span = Starts[frPos + 1]
             /\ frPc \in Behind => Span <= Rest
             /\ OutSums[frPos + 1] = OutSums[frPos] + frRecord.out
             /\ OutSums[frPos + 1] <= OutSums[Listed + 1]
             /\ OutSums[frPos] \in Nat /\ OutSums[Listed + 1] \in Nat
  <2>1. frPos \in 1..Listed /\ frPos + 1 \in 1..Listed + 1 /\ Listed + 1 \in 1..Listed + 1
    <3>1. Listed \in Nat /\ frPos \in 1..Listed + 1
      BY <1>1, <1>2
    <3>. HIDE DEF Listed
    <3>. QED
      BY <1>5, <3>1
  <2>2. frRecord \in FrRecord
    BY <1>1, <2>1 DEF frRecord
  <2>3. /\ frRecord.plen \in Nat /\ frRecord.out \in Nat /\ frRecord.bits \in Nat
        /\ frRecord.room \in Nat /\ frRecord.kind \in Kinds
    BY <2>2 DEF FrRecord
  <2>4. Span \in Nat /\ frOffset + Span = Starts[frPos + 1]
    <3>1. Starts[frPos + 1] = Starts[frPos] + (HeaderBytes + buffer.records[frPos].plen)
      BY <1>1, <2>1
    <3>2. Span = HeaderBytes + buffer.records[frPos].plen /\ Span \in Nat
      BY <2>3 DEF Span, frRecord, HeaderBytes
    <3>. QED
      BY <1>2, <3>1, <3>2
  <2>5. /\ Starts[frPos + 1] \in Nat /\ Starts[frPos + 1] <= Starts[Listed + 1]
        /\ Starts[frPos] < buffer.length
    BY <1>1, <2>1
  <2>6. Rest > 0 /\ (frPc \in Behind => Span <= Rest)
    <3>1. Rest > 0
      BY <1>1, <1>2, <1>3, <2>5
    <3>. QED
      BY <1>1, <1>3, <1>4, <2>4, <2>5, <3>1
  <2>7. /\ OutSums[frPos + 1] = OutSums[frPos] + frRecord.out
        /\ OutSums[frPos + 1] <= OutSums[Listed + 1]
        /\ OutSums[frPos] \in Nat /\ OutSums[Listed + 1] \in Nat
    BY <1>1, <1>2, <2>1 DEF frRecord
  <2>. QED
    BY <2>1, <2>2, <2>3, <2>4, <2>6, <2>7
<1>6. frPc \in Behind => Rest >= 0 /\ (Rest > 0 <=> frPos <= Listed)
  <2>1. CASE frPos <= Listed
    BY <1>3, <1>5, <2>1
  <2>2. CASE ~(frPos <= Listed)
    <3>1. frPos = Listed + 1
      BY <1>1, <1>2, <2>2
    <3>2. frPc \in Behind => Rest = 0
      BY <1>1, <1>2, <1>3, <1>4, <3>1
    <3>. QED
      BY <2>2, <3>2
  <2>. QED
    BY <2>1, <2>2
<1>. QED
  BY <1>2, <1>3, <1>5, <1>6

\* The last pass: what a record may be answered with, and how far it reads.
LEMMA ExecutedIs ==
    ASSUME FrTypeOK, FrPlace, frPc \in Behind, frPos <= Listed
    PROVE  /\ TooSmall(frRecord) => Excused(frRecord)
           /\ Checked(frRecord) \in {2, 4} => Excused(frRecord)
           /\ PayloadRead(frRecord) \in Nat
           /\ ~TooSmall(frRecord) /\ Checked(frRecord) = 0 =>
                 HeaderBytes + PayloadRead(frRecord) <= Rest
           /\ AdmittedAt(frPos) \/ \E c \in Captured : c = buffer.records
<1>. DEFINE r == frRecord
<1>1. /\ r \in FrRecord /\ Rest \in Int /\ Span <= Rest
      /\ r.plen \in Nat /\ r.out \in Nat /\ r.bits \in Nat /\ r.room \in Nat
      /\ frPos \in 1..Listed
  BY PlaceIs DEF FrPlace
<1>2. AdmittedAt(frPos) => Supported(r, Rest)
  BY DEF AdmittedAt, Rest, frRecord, FrPlace
<1>3. CASE AdmittedAt(frPos)
  <2>1. Supported(r, Rest)
    BY <1>2, <1>3
  <2>2. /\ HeaderBytes + r.plen <= Rest
        /\ PayloadRead(r) \in Nat /\ PayloadRead(r) <= r.plen
        /\ TooSmall(r) => r.out < 6
        /\ Checked(r) \notin {2, 4}
    BY <1>1, <2>1, AdmittedIs
  <2>3. HeaderBytes + PayloadRead(r) <= Rest
    BY <1>1, <2>2 DEF HeaderBytes
  <2>. QED
    BY <1>3, <2>2, <2>3 DEF Excused
<1>4. CASE buffer.records \in Captured
  <2>. DEFINE c == buffer.records
  <2>1. /\ Len(c) \in 1..2 /\ Listed = Len(c)
        /\ c[1].kind = "jtag"
           \/ (c[1].kind \in {"reset", "status", "mask"} /\ PayloadRead(c[1]) <= c[1].plen)
        /\ Len(c) = 2 => c[2].kind = "fetch" /\ PayloadRead(c[2]) <= c[2].plen
    BY <1>4, CapturedAssumption DEF Listed
  <2>2. CASE frPos = 1 /\ r.kind = "jtag"
    <3>1. Excused(r)
      BY <1>4, <2>2 DEF Excused, frRecord
    <3>2. PayloadRead(r) = 10
      BY <2>2 DEF PayloadRead
    <3>3. Checked(r) = 0 => Rest - HeaderBytes - 3 >= 9
      <4>1. Rest - HeaderBytes - 3 \in Int
        BY <1>1 DEF HeaderBytes
      <4>. QED
        BY <2>2, <4>1 DEF Checked
    <3>. QED
      BY <1>1, <1>4, <3>1, <3>2, <3>3 DEF HeaderBytes
  <2>3. CASE ~(frPos = 1 /\ r.kind = "jtag")
    <3>1. r.kind \in {"reset", "status", "mask", "fetch"} /\ PayloadRead(r) <= r.plen
      <4>1. frPos = 1 \/ (frPos = 2 /\ Len(c) = 2)
        <5>. DEFINE n == Len(c)
        <5>1. frPos \in 1..n /\ n \in 1..2
          BY <1>1, <2>1
        <5>. HIDE DEF n
        <5>2. frPos \in Int /\ n \in Int /\ 1 <= frPos /\ frPos <= n /\ n <= 2
          BY <5>1
        <5>3. n = 2 \/ n < 2
          BY <5>2
        <5>4. frPos = 1 \/ (frPos = 2 /\ n = 2)
          BY <5>2, <5>3
        <5>. QED
          BY <5>4 DEF n
      <4>2. r = c[frPos]
        BY DEF frRecord
      <4>. QED
        BY <2>1, <2>3, <4>1, <4>2
    <3>2. PayloadRead(r) \in {2, 3, 6} /\ (r.kind = "mask" => PayloadRead(r) = 6)
          /\ (r.kind = "reset" => PayloadRead(r) = 3)
      BY <3>1 DEF PayloadRead
    <3>3. Checked(r) \notin {2, 4}
      BY <1>1, <3>1, <3>2 DEF Checked
    <3>4. TooSmall(r) => r.out < 6
      BY <1>1, <3>1, <3>2 DEF TooSmall, IsA5fb
    <3>5. HeaderBytes + PayloadRead(r) <= Rest
      BY <1>1, <3>1, <3>2 DEF Span, HeaderBytes
    <3>. QED
      BY <1>4, <3>2, <3>3, <3>4, <3>5 DEF Excused
  <2>. QED
    BY <2>2, <2>3
<1>. QED
  BY <1>1, <1>3, <1>4 DEF FrPlace

-----------------------------------------------------------------------------
(* The first two passes.                                                    *)

LEMMA AdmitRecordKeeps == FrInv /\ AdmitRecord => FrInv'
<1>. SUFFICES ASSUME FrInv, AdmitRecord PROVE FrInv'
  OBVIOUS
<1>1. FrTypeOK /\ FrPlace /\ FrCounted /\ frPc = "admit" /\ frPos <= Listed
  BY DEF FrInv, AdmitRecord, Listed
<1>2. /\ frPos + 1 \in 1..Listed + 1 /\ frOffset + Span = Starts[frPos + 1]
      /\ frOffset \in Nat /\ frPos \in Nat /\ frPos >= 1
  BY <1>1, PlaceIs
<1>3. AdmittedAt(frPos)
  BY <1>1 DEF AdmitRecord, AdmittedAt, Rest, frRecord, FrPlace
<1>4. UNCHANGED <<buffer, frPc, totalOutput, outputOffset, answers, readTo, shift>>
  BY DEF AdmitRecord
<1>5. FrTypeOK'
  BY <1>1, <1>4 DEF FrTypeOK, AdmitRecord
<1>6. FrPlace'
  <2>1. \A i : AdmittedAt(i)' <=> AdmittedAt(i)
    BY <1>4 DEF AdmittedAt, Starts, Supported, ArgOk, ShiftFits
  <2>2. frPos' = frPos + 1 /\ frOffset' = frOffset + Span
    BY DEF AdmitRecord, Walk
  <2>3. \A i \in 1..frPos' - 1 : AdmittedAt(i)
    BY <1>1, <1>2, <1>3, <2>2 DEF FrPlace
  <2>4. Starts' = Starts /\ Listed' = Listed
    BY <1>4 DEF Starts, Listed
  <2>. QED
    BY <1>1, <1>2, <1>4, <2>1, <2>2, <2>3, <2>4 DEF FrPlace, Behind, Shifting
<1>7. FrCounted' /\ FrEnded' /\ FrAnswers' /\ FrShift' /\ (readTo <= buffer.length)'
  BY <1>1, <1>4 DEF FrInv, FrCounted, FrEnded, FrAnswers, FrShift, Executing, Shifting,
     Listed, OutSums
<1>. QED
  BY <1>5, <1>6, <1>7 DEF FrInv

\* The first pass ends at the end of the buffer, or the buffer is one of the captured.
LEMMA AdmitEndsKeeps == FrInv /\ AdmitEnds => FrInv'
<1>. SUFFICES ASSUME FrInv, AdmitEnds PROVE FrInv'
  OBVIOUS
<1>1. FrTypeOK /\ FrPlace /\ FrCounted /\ frPc = "admit"
  BY DEF FrInv, AdmitEnds
<1>2. /\ buffer.length \in Nat /\ Listed \in Nat /\ buffer.out \in Nat
      /\ Starts[1] = 0 /\ OutSums[1] = 0 /\ Starts \in [1..Listed + 1 -> Nat]
      /\ \A i \in 1..Listed :
            Starts[i + 1] = Starts[i] + (HeaderBytes + buffer.records[i].plen)
  BY <1>1, BufferIs DEF FrTypeOK
<1>3. /\ frPc' = IF Structural \/ IsCaptured THEN "measure" ELSE "refused"
      /\ frPos' = 1 /\ frOffset' = 0
      /\ UNCHANGED <<buffer, forwards, totalOutput, outputOffset, answers, readTo, shift>>
  BY DEF AdmitEnds, Rewind
<1>4. FrTypeOK'
  BY <1>1, <1>3 DEF FrTypeOK, Behind
<1>5. ASSUME Structural
      PROVE  Starts[Listed + 1] = buffer.length /\ \A i \in 1..Listed : AdmittedAt(i)
  <2>1. Rest = 0
    BY <1>5 DEF Structural
  <2>2. frPos \in 1..Listed + 1 /\ (frPos <= Listed => Rest > 0)
    BY <1>1, PlaceIs DEF FrPlace
  <2>3. frPos = Listed + 1
    BY <1>2, <2>1, <2>2
  <2>. QED
    BY <1>1, <1>2, <2>1, <2>3 DEF FrPlace, Rest
<1>6. ASSUME IsCaptured
      PROVE  Starts[Listed + 1] = buffer.length /\ buffer.records \in Captured
  <2>1. /\ buffer.records \in Captured
        /\ buffer.length = Listed * HeaderBytes + buffer.records[1].plen
                            + (IF Listed = 2 THEN buffer.records[2].plen ELSE 0)
    BY <1>6 DEF IsCaptured, Listed
  <2>2. Listed = 1 \/ Listed = 2
    BY <1>2, <2>1, CapturedAssumption DEF Listed
  <2>3. \A i \in 1..Listed : buffer.records[i].plen \in Nat
    BY <1>1, BufferIs DEF FrTypeOK, FrRecord
  <2>4. CASE Listed = 1
    <3>1. Starts[1 + 1] = Starts[1] + (HeaderBytes + buffer.records[1].plen)
      BY <1>2, <2>4
    <3>. QED
      BY <1>2, <2>1, <2>3, <2>4, <3>1 DEF HeaderBytes
  <2>5. CASE Listed = 2
    <3>1. /\ Starts[1 + 1] = Starts[1] + (HeaderBytes + buffer.records[1].plen)
          /\ Starts[2 + 1] = Starts[2] + (HeaderBytes + buffer.records[2].plen)
      BY <1>2, <2>5
    <3>. QED
      BY <1>2, <2>1, <2>3, <2>5, <3>1 DEF HeaderBytes
  <2>. QED
    BY <2>1, <2>2, <2>4, <2>5
<1>7. FrPlace'
  <2>1. Starts' = Starts /\ Listed' = Listed
    BY <1>3 DEF Starts, Listed
  <2>2. \A i : AdmittedAt(i)' <=> AdmittedAt(i)
    BY <1>3 DEF AdmittedAt, Starts, Supported, ArgOk, ShiftFits
  <2>3. frPc' \in {"measure", "refused"} /\ (frPc' = "measure" => Structural \/ IsCaptured)
    BY <1>3
  <2>4. frPos' \in 1..Listed + 1
    BY <1>2, <1>3
  <2>. QED
    BY <1>2, <1>3, <1>5, <1>6, <2>1, <2>2, <2>3, <2>4 DEF FrPlace, Behind, Shifting
<1>8. FrCounted' /\ FrEnded' /\ FrAnswers' /\ FrShift' /\ (readTo <= buffer.length)'
  <2>1. OutSums' = OutSums /\ Listed' = Listed /\ frPc' \in {"measure", "refused"}
    BY <1>3 DEF OutSums, Listed
  <2>. QED
    BY <1>1, <1>2, <1>3, <2>1 DEF FrInv, FrCounted, FrEnded, FrAnswers, FrShift, Executing,
       Shifting
<1>. QED
  BY <1>4, <1>7, <1>8 DEF FrInv

\* The second pass finds no fault with the framing of what was admitted.
LEMMA MeasureRecordKeeps == FrInv /\ MeasureRecord => FrInv'
<1>. SUFFICES ASSUME FrInv, MeasureRecord PROVE FrInv'
  OBVIOUS
<1>1. FrTypeOK /\ FrPlace /\ FrCounted /\ frPc = "measure" /\ frPc \in Behind /\ Rest > 0
  BY DEF FrInv, MeasureRecord, Behind
<1>2. /\ frPos <= Listed /\ frPos + 1 \in 1..Listed + 1
      /\ frRecord.plen \in Nat /\ frRecord.out \in Nat
      /\ frOffset + Span = Starts[frPos + 1] /\ Span <= Rest /\ Rest \in Int
      /\ OutSums[frPos + 1] = OutSums[frPos] + frRecord.out
  BY <1>1, PlaceIs
<1>3. buffer.out \in Nat
  BY <1>1, BufferIs DEF FrTypeOK
<1>4. ~(Rest < HeaderBytes \/ frRecord.plen > Rest - HeaderBytes)
  BY <1>2 DEF Span, HeaderBytes
<1>5. UNCHANGED <<buffer, forwards, outputOffset, answers, readTo, shift>>
  BY DEF MeasureRecord
<1>6. /\ Starts' = Starts /\ OutSums' = OutSums /\ Listed' = Listed
      /\ \A i : AdmittedAt(i)' <=> AdmittedAt(i)
  BY <1>5 DEF Starts, OutSums, Listed, AdmittedAt, Supported, ArgOk, ShiftFits
<1>7. CASE frRecord.out > buffer.out - totalOutput
  <2>1. frPc' = "ended" /\ UNCHANGED <<frPos, frOffset, totalOutput>>
    BY <1>7 DEF MeasureRecord, frWalk
  <2>2. FrTypeOK'
    BY <1>1, <1>5, <2>1 DEF FrTypeOK, Behind
  <2>3. FrPlace'
    BY <1>1, <1>5, <1>6, <2>1 DEF FrPlace, Behind, Shifting
  <2>4. (frRecord.out > buffer.out - totalOutput)'
    BY <1>5, <1>7, <2>1 DEF frRecord
  <2>5. FrCounted' /\ FrEnded' /\ FrAnswers' /\ FrShift' /\ (readTo <= buffer.length)'
    BY <1>1, <1>5, <1>6, <2>1, <2>4 DEF FrInv, FrCounted, FrEnded, FrAnswers, FrShift,
       Executing, Shifting
  <2>. QED
    BY <2>2, <2>3, <2>5 DEF FrInv
<1>8. CASE ~(frRecord.out > buffer.out - totalOutput)
  <2>1. /\ totalOutput' = totalOutput + frRecord.out
        /\ frPos' = frPos + 1 /\ frOffset' = frOffset + Span /\ frPc' = frPc
    BY <1>4, <1>8 DEF MeasureRecord, Walk
  <2>2. FrTypeOK'
    BY <1>1, <1>2, <1>5, <2>1 DEF FrTypeOK
  <2>3. FrPlace'
    BY <1>1, <1>2, <1>5, <1>6, <2>1 DEF FrPlace, Behind, Shifting
  <2>4. totalOutput' = OutSums[frPos'] /\ outputOffset = 0 /\ totalOutput' <= buffer.out
        /\ totalOutput' \in Nat
    <3>1. totalOutput = OutSums[frPos] /\ outputOffset = 0 /\ totalOutput \in Nat
      BY <1>1 DEF FrCounted, FrTypeOK
    <3>2. totalOutput' = OutSums[frPos + 1]
      BY <1>2, <2>1, <3>1
    <3>3. totalOutput' <= buffer.out /\ totalOutput' \in Nat
      BY <1>2, <1>3, <1>8, <2>1, <3>1
    <3>. QED
      BY <2>1, <3>1, <3>2, <3>3
  <2>5. FrCounted' /\ FrEnded' /\ FrAnswers' /\ FrShift' /\ (readTo <= buffer.length)'
    BY <1>1, <1>5, <1>6, <2>1, <2>4 DEF FrInv, FrCounted, FrEnded, FrAnswers, FrShift,
       Executing, Shifting
  <2>. QED
    BY <2>2, <2>3, <2>5 DEF FrInv
<1>. QED
  BY <1>7, <1>8

LEMMA MeasureEndsKeeps == FrInv /\ MeasureEnds => FrInv'
<1>. SUFFICES ASSUME FrInv, MeasureEnds PROVE FrInv'
  OBVIOUS
<1>1. FrTypeOK /\ FrPlace /\ FrCounted /\ frPc = "measure" /\ frPc \in Behind /\ Rest = 0
  BY DEF FrInv, MeasureEnds, Behind
<1>2. /\ Listed \in Nat /\ Starts[1] = 0 /\ OutSums[1] = 0
      /\ frPos \in 1..Listed + 1 /\ ~(frPos <= Listed)
  BY <1>1, PlaceIs, BufferIs DEF FrTypeOK, FrPlace
<1>3. /\ frPc' = "execute" /\ frPos' = 1 /\ frOffset' = 0
      /\ UNCHANGED <<buffer, forwards, totalOutput, outputOffset, answers, readTo, shift>>
  BY DEF MeasureEnds, Rewind
<1>4. /\ Starts' = Starts /\ OutSums' = OutSums /\ Listed' = Listed
      /\ \A i : AdmittedAt(i)' <=> AdmittedAt(i)
  BY <1>3 DEF Starts, OutSums, Listed, AdmittedAt, Supported, ArgOk, ShiftFits
<1>5. FrTypeOK'
  BY <1>1, <1>3 DEF FrTypeOK, Behind
<1>6. FrPlace'
  BY <1>1, <1>2, <1>3, <1>4 DEF FrPlace, Behind, Shifting
<1>7. frPos = Listed + 1
  BY <1>2
<1>8. FrCounted' /\ FrEnded' /\ FrAnswers' /\ FrShift' /\ (readTo <= buffer.length)'
  BY <1>1, <1>2, <1>3, <1>4, <1>7 DEF FrInv, FrCounted, FrEnded, FrAnswers, FrShift,
     Executing, Shifting
<1>. QED
  BY <1>5, <1>6, <1>8 DEF FrInv

-----------------------------------------------------------------------------
(* The last pass.                                                           *)

\* A record is answered, and the walk goes on behind it.
LEMMA AnsweredKeeps ==
    ASSUME FrInv, frPc \in Executing, frPos <= Listed, NEW a \in Nat, Answered(a),
           a \in {2, 4} => Excused(frRecord),
           frPc' = "execute", UNCHANGED <<buffer, totalOutput>>
    PROVE  /\ FrPlace' /\ FrCounted' /\ FrEnded' /\ FrAnswers' /\ FrShift'
           /\ answers' \in Seq(Nat) /\ outputOffset' \in Nat
<1>1. FrTypeOK /\ FrPlace /\ FrCounted /\ frPc \in Behind
  BY DEF FrInv, Executing, Behind
<1>2. /\ frPos \in Nat /\ frPos >= 1 /\ frPos + 1 \in 1..Listed + 1
      /\ frRecord.out \in Nat /\ frOffset + Span = Starts[frPos + 1]
      /\ OutSums[frPos + 1] = OutSums[frPos] + frRecord.out
      /\ OutSums[frPos + 1] <= OutSums[Listed + 1]
      /\ OutSums[frPos] \in Nat /\ OutSums[Listed + 1] \in Nat
  BY <1>1, PlaceIs
<1>3. /\ answers' = Append(answers, a) /\ outputOffset' = outputOffset + frRecord.out
      /\ frPos' = frPos + 1 /\ frOffset' = frOffset + Span
  BY DEF Answered, Walk
<1>4. /\ Starts' = Starts /\ OutSums' = OutSums /\ Listed' = Listed
      /\ \A i : AdmittedAt(i)' <=> AdmittedAt(i)
  BY DEF Starts, OutSums, Listed, AdmittedAt, Supported, ArgOk, ShiftFits
<1>5. /\ totalOutput = OutSums[Listed + 1] /\ outputOffset = OutSums[frPos]
      /\ Len(answers) = frPos - 1 /\ answers \in Seq(Nat) /\ totalOutput <= buffer.out
  BY <1>1 DEF FrCounted, FrTypeOK
<1>6. /\ answers' \in Seq(Nat) /\ Len(answers') = frPos
      /\ answers'[frPos] = a /\ \A i \in 1..frPos - 1 : answers'[i] = answers[i]
  BY <1>2, <1>3, <1>5
<1>7. outputOffset' = OutSums[frPos + 1] /\ outputOffset' <= totalOutput /\ outputOffset' \in Nat
  BY <1>2, <1>3, <1>5
<1>8. FrPlace'
  BY <1>1, <1>2, <1>3, <1>4 DEF FrPlace, Behind, Shifting
<1>9. FrCounted'
  BY <1>2, <1>3, <1>4, <1>5, <1>6, <1>7 DEF FrCounted, Executing
<1>10. FrEnded'
  BY <1>2, <1>4, <1>6 DEF FrEnded
<1>11. FrAnswers'
  <2>1. ASSUME NEW i \in 1..frPos, answers'[i] \in {2, 4} PROVE Excused(buffer.records[i])
    <3>1. CASE i = frPos
      BY <1>6, <2>1, <3>1 DEF frRecord
    <3>2. CASE i # frPos
      <4>1. i \in 1..frPos - 1
        BY <1>2, <3>2
      <4>. QED
        BY <1>5, <1>6, <2>1, <4>1 DEF FrInv, FrAnswers
    <3>. QED
      BY <3>1, <3>2
  <2>. QED
    BY <1>6, <2>1 DEF FrAnswers, Excused
<1>12. FrShift'
  BY DEF FrShift, Shifting
<1>. QED
  BY <1>6, <1>7, <1>8, <1>9, <1>10, <1>11, <1>12

LEMMA ExecuteRecordKeeps == FrInv /\ ExecuteRecord => FrInv'
<1>. SUFFICES ASSUME FrInv, ExecuteRecord PROVE FrInv'
  OBVIOUS
<1>1. /\ FrTypeOK /\ FrPlace /\ FrCounted /\ readTo <= buffer.length
      /\ frPc = "execute" /\ frPc \in Behind /\ frPc \in Executing /\ Rest > 0
  BY DEF FrInv, ExecuteRecord, Behind, Executing
<1>2. /\ frPos <= Listed /\ Rest \in Int /\ frOffset \in Nat
      /\ Span <= Rest /\ Span \in Nat /\ frRecord.plen \in Nat
  BY <1>1, PlaceIs
<1>3. /\ TooSmall(frRecord) => Excused(frRecord)
      /\ Checked(frRecord) \in {2, 4} => Excused(frRecord)
      /\ PayloadRead(frRecord) \in Nat
      /\ ~TooSmall(frRecord) /\ Checked(frRecord) = 0 =>
            HeaderBytes + PayloadRead(frRecord) <= Rest
  BY <1>1, <1>2, ExecutedIs
<1>4. buffer.length \in Nat /\ readTo \in Nat
  BY <1>1, BufferIs DEF FrTypeOK
<1>. DEFINE reads == IF TooSmall(frRecord) \/ Checked(frRecord) # 0 THEN 0
                     ELSE PayloadRead(frRecord)
<1>5. reads \in Nat /\ HeaderBytes + reads <= Rest
  BY <1>2, <1>3 DEF Span, HeaderBytes
<1>6. readTo' = Furthest(readTo, Payload + reads)
  BY DEF ExecuteRecord
<1>. HIDE DEF reads
<1>7. readTo' \in Nat /\ readTo' <= buffer.length /\ readTo' # 0
  BY <1>1, <1>2, <1>4, <1>5, <1>6 DEF Furthest, Payload, HeaderBytes, Rest
<1>8. UNCHANGED <<buffer, forwards, totalOutput, shift>>
  BY DEF ExecuteRecord
<1>9. CASE NoOutput(frRecord) /\ frPc' = "ended" /\ UNCHANGED <<frWalk, answers, outputOffset>>
  <2>1. frPc' = "ended" /\ UNCHANGED <<frPos, frOffset, answers, outputOffset>>
    BY <1>9 DEF frWalk
  <2>2. /\ Starts' = Starts /\ OutSums' = OutSums /\ Listed' = Listed
        /\ \A i : AdmittedAt(i)' <=> AdmittedAt(i)
    BY <1>8 DEF Starts, OutSums, Listed, AdmittedAt, Supported, ArgOk, ShiftFits
  <2>3. FrTypeOK'
    BY <1>1, <1>7, <1>8, <2>1 DEF FrTypeOK, Behind
  <2>4. FrPlace'
    BY <1>1, <1>8, <2>1, <2>2 DEF FrPlace, Behind, Shifting
  <2>5. FrCounted' /\ FrEnded' /\ FrShift'
    BY <1>1, <1>7, <1>8, <2>1, <2>2 DEF FrInv, FrCounted, FrEnded, FrShift, Executing, Shifting
  <2>6. FrAnswers'
    BY <1>8, <2>1 DEF FrInv, FrAnswers, Excused
  <2>. QED
    BY <1>7, <1>8, <2>3, <2>4, <2>5, <2>6 DEF FrInv
<1>10. CASE /\ Answered(IF TooSmall(frRecord) THEN 2 ELSE Checked(frRecord))
            /\ UNCHANGED frPc
  <2>. DEFINE a == IF TooSmall(frRecord) THEN 2 ELSE Checked(frRecord)
  <2>1. Checked(frRecord) \in {0, 2, 4, 8}
    BY DEF Checked
  <2>2. a \in Nat /\ (a \in {2, 4} => Excused(frRecord)) /\ Answered(a)
    BY <1>3, <1>10, <2>1
  <2>. HIDE DEF a
  <2>3. /\ FrPlace' /\ FrCounted' /\ FrEnded' /\ FrAnswers' /\ FrShift'
        /\ answers' \in Seq(Nat) /\ outputOffset' \in Nat
    BY <1>1, <1>2, <1>8, <1>10, <2>2, AnsweredKeeps
  <2>4. FrTypeOK'
    BY <1>1, <1>7, <1>8, <1>10, <2>3 DEF FrTypeOK
  <2>. QED
    BY <1>7, <1>8, <2>3, <2>4 DEF FrInv
<1>. QED
  BY <1>9, <1>10 DEF ExecuteRecord

LEMMA ExecuteEndsKeeps == FrInv /\ ExecuteEnds => FrInv'
<1>. SUFFICES ASSUME FrInv, ExecuteEnds PROVE FrInv'
  OBVIOUS
<1>1. FrTypeOK /\ FrPlace /\ FrCounted /\ frPc = "execute" /\ frPc \in Behind /\ Rest = 0
  BY DEF FrInv, ExecuteEnds, Behind
<1>2. Listed \in Nat /\ frPos \in 1..Listed + 1 /\ ~(frPos <= Listed)
  BY <1>1, PlaceIs, BufferIs DEF FrTypeOK, FrPlace
<1>3. /\ frPc' = "done"
      /\ UNCHANGED <<buffer, frPos, frOffset, forwards, totalOutput, outputOffset, answers,
                     readTo, shift>>
  BY DEF ExecuteEnds, frWalk
<1>4. /\ Starts' = Starts /\ OutSums' = OutSums /\ Listed' = Listed
      /\ \A i : AdmittedAt(i)' <=> AdmittedAt(i)
  BY <1>3 DEF Starts, OutSums, Listed, AdmittedAt, Supported, ArgOk, ShiftFits
<1>5. FrTypeOK'
  BY <1>1, <1>3 DEF FrTypeOK, Behind
<1>6. FrPlace'
  BY <1>1, <1>2, <1>3, <1>4 DEF FrPlace, Behind, Shifting
<1>7. FrCounted' /\ FrEnded' /\ FrShift' /\ (readTo <= buffer.length)'
  BY <1>1, <1>2, <1>3, <1>4 DEF FrInv, FrCounted, FrEnded, FrShift, Executing, Shifting
<1>8. FrAnswers'
  BY <1>3 DEF FrInv, FrAnswers, Excused
<1>. QED
  BY <1>5, <1>6, <1>7, <1>8 DEF FrInv

\* A shift begins with its words before it and, unless it is excused, room for its answer.
LEMMA BeginShiftKeeps == FrInv /\ BeginShift => FrInv'
<1>. SUFFICES ASSUME FrInv, BeginShift PROVE FrInv'
  OBVIOUS
<1>. DEFINE r == frRecord
<1>1. /\ FrTypeOK /\ FrPlace /\ FrCounted /\ readTo <= buffer.length
      /\ frPc = "execute" /\ frPc \in Behind /\ Rest > 0 /\ Shifts(r)
  BY DEF FrInv, BeginShift, Behind
<1>2. /\ frPos <= Listed /\ Rest \in Int /\ frOffset \in Nat /\ r \in FrRecord
      /\ Span <= Rest /\ r.plen \in Nat /\ r.bits \in Nat /\ r.room \in Nat /\ r.out \in Nat
  BY <1>1, PlaceIs
<1>3. /\ PayloadRead(r) \in Nat
      /\ ~TooSmall(r) /\ Checked(r) = 0 => HeaderBytes + PayloadRead(r) <= Rest
      /\ AdmittedAt(frPos) \/ \E c \in Captured : c = buffer.records
  BY <1>1, <1>2, ExecutedIs
<1>4. /\ r.kind \in {"jtag", "jtagWrite"} /\ ~TooSmall(r) /\ Checked(r) = 0
  BY <1>1 DEF Shifts
<1>5. buffer.length \in Nat /\ readTo \in Nat
  BY <1>1, BufferIs DEF FrTypeOK
<1>6. UNCHANGED <<buffer, frPos, frOffset, forwards, totalOutput, outputOffset, answers>>
  BY DEF BeginShift, frWalk
<1>7. /\ frPc' = (IF r.kind = "jtag" THEN "shift" ELSE "shiftWrite")
      /\ readTo' = Furthest(readTo, Payload + PayloadRead(r))
      /\ shift'.left = r.bits /\ shift'.shifted = 0 /\ shift'.out = 8
      /\ shift'.in = Payload + (IF r.kind = "jtag" THEN 12 ELSE 8)
      /\ shift'.end = (IF r.kind = "jtag" THEN buffer.length ELSE Payload + r.plen)
      /\ shift'.room = (IF r.kind = "jtag" THEN 8 + r.room ELSE 8)
  BY DEF BeginShift
<1>8. shift' \in [left : Nat, in : Nat, end : Nat, out : Nat, room : Nat, num : Nat,
                  shifted : Nat]
  <2>1. Payload \in Nat
    BY <1>2 DEF Payload, HeaderBytes
  <2>. QED
    BY <1>2, <1>5, <2>1 DEF BeginShift
<1>9. readTo' \in Nat /\ readTo' <= buffer.length
  BY <1>1, <1>2, <1>3, <1>4, <1>5, <1>7 DEF Furthest, Payload, HeaderBytes, Rest
<1>10. /\ Starts' = Starts /\ OutSums' = OutSums /\ Listed' = Listed
       /\ frRecord' = frRecord
       /\ \A i : AdmittedAt(i)' <=> AdmittedAt(i)
  BY <1>6 DEF Starts, OutSums, Listed, frRecord, AdmittedAt, Supported, ArgOk, ShiftFits
<1>11. FrTypeOK'
  BY <1>1, <1>6, <1>7, <1>8, <1>9 DEF FrTypeOK, Behind
<1>12. FrPlace'
  <2>1. Shifts(frRecord)'
    BY <1>1, <1>6 DEF Shifts, TooSmall, IsA5fb, Checked, Rest, frRecord
  <2>2. frPc' \in {"shift", "shiftWrite"}
    BY <1>7
  <2>. QED
    BY <1>1, <1>2, <1>4, <1>6, <1>7, <1>10, <2>1, <2>2 DEF FrPlace, Behind, Shifting
<1>13. FrCounted' /\ FrEnded'
  BY <1>1, <1>6, <1>7, <1>10 DEF FrInv, FrCounted, FrEnded, Executing
<1>14. FrAnswers'
  BY <1>6 DEF FrInv, FrAnswers, Excused
<1>15. FrShift'
  <2>1. shift'.shifted + shift'.left = r.bits
    BY <1>2, <1>7
  <2>2. shift'.end <= buffer.length
    BY <1>2, <1>5, <1>7 DEF Payload, Span, Rest, HeaderBytes
  <2>3. ASSUME ~Excused(r)
        PROVE  /\ shift'.in + 4 * Words(r.bits) <= shift'.end
               /\ r.kind = "jtag" => shift'.out + 2 * Words(r.bits) <= shift'.room
    <3>1. Words(r.bits) \in Nat
      BY <1>2, WordsIs
    <3>2. r.kind = "jtag" => r.room >= 2 * Words(r.bits)
      BY <1>2, <2>3, <3>1 DEF Excused
    <3>3. AdmittedAt(frPos)
      <4>1. SUFFICES ASSUME buffer.records \in Captured PROVE AdmittedAt(frPos)
        BY <1>3
      <4>2. /\ Len(buffer.records) \in 1..2
            /\ buffer.records[1].kind \in {"jtag", "reset", "status", "mask"}
            /\ Len(buffer.records) = 2 => buffer.records[2].kind = "fetch"
        BY <4>1, CapturedAssumption
      <4>3. frPos = 1 \/ (frPos = 2 /\ Len(buffer.records) = 2)
        <5>. DEFINE n == Len(buffer.records)
        <5>1. n = Listed /\ n \in 1..2
          BY <4>2 DEF Listed
        <5>2. frPos \in Nat /\ frPos >= 1 /\ frPos <= Listed
          BY <1>1, <1>2, PlaceIs
        <5>3. frPos \in Int /\ n \in Int /\ 1 <= frPos /\ frPos <= n /\ n <= 2
          BY <5>1, <5>2
        <5>. HIDE DEF n
        <5>4. frPos = 1 \/ (frPos = 2 /\ n = 2)
          BY <5>3
        <5>. QED
          BY <5>4 DEF n
      <4>4. frPos = 1 /\ r.kind = "jtag"
        BY <1>4, <4>2, <4>3 DEF frRecord
      <4>. QED
        BY <2>3, <4>1, <4>4 DEF Excused, frRecord
    <3>4. ShiftFits(r, Rest)
      BY <3>3 DEF AdmittedAt, Supported, frRecord, Rest, FrPlace, FrInv
    <3>. QED
      BY <1>2, <1>4, <1>5, <1>7, <3>1, <3>2, <3>4 DEF ShiftFits, Payload, Rest, HeaderBytes
  <2>4. Excused(frRecord)' <=> Excused(r)
    BY <1>10 DEF Excused
  <2>5. Words(shift.left)' = Words(r.bits) /\ (frPc' = "shift" <=> r.kind = "jtag")
    BY <1>4, <1>7 DEF Words
  <2>. QED
    BY <1>6, <1>10, <2>1, <2>2, <2>3, <2>4, <2>5 DEF FrShift
<1>. QED
  BY <1>6, <1>9, <1>11, <1>12, <1>13, <1>14, <1>15 DEF FrInv

\* A word is shifted: sixteen bits, or those that are left.
LEMMA ShiftWordKeeps == FrInv /\ ShiftWord => FrInv'
<1>. SUFFICES ASSUME FrInv, ShiftWord PROVE FrInv'
  OBVIOUS
<1>1. /\ FrTypeOK /\ FrPlace /\ FrCounted /\ FrShift /\ readTo <= buffer.length
      /\ frPc \in Shifting /\ frPc \in Behind /\ frPos <= Listed
      /\ shift.left > 0 /\ ~OutOfWords
  BY DEF FrInv, ShiftWord, Behind, Shifting, FrPlace
<1>2. /\ buffer.length \in Nat /\ readTo \in Nat
      /\ shift.left \in Nat /\ shift.in \in Nat /\ shift.end \in Nat /\ shift.out \in Nat
      /\ shift.room \in Nat /\ shift.shifted \in Nat
  BY <1>1, BufferIs DEF FrTypeOK
<1>3. UNCHANGED <<buffer, frPc, frPos, frOffset, forwards, totalOutput, outputOffset,
                  answers>>
  BY DEF ShiftWord, frWalk
<1>4. /\ shift'.in = shift.in + 4 /\ shift'.end = shift.end /\ shift'.room = shift.room
      /\ shift'.left = (IF shift.left >= 16 THEN shift.left - 16 ELSE 0)
      /\ shift'.shifted = shift.shifted + (IF shift.left >= 16 THEN 16 ELSE shift.left)
      /\ shift'.out = (IF frPc = "shift" THEN shift.out + 2 ELSE shift.out)
      /\ shift'.num = (IF shift.left >= 16 THEN 0 ELSE shift.left)
  BY <1>1, <1>2 DEF ShiftWord, Programmed, FrTypeOK
<1>5. shift' \in [left : Nat, in : Nat, end : Nat, out : Nat, room : Nat, num : Nat,
                  shifted : Nat]
  <2>1. shift' = [left |-> shift'.left, in |-> shift'.in, end |-> shift'.end,
                  out |-> shift'.out, room |-> shift'.room, num |-> shift'.num,
                  shifted |-> shift'.shifted]
    BY <1>1 DEF ShiftWord, FrTypeOK
  <2>2. /\ shift'.left \in Nat /\ shift'.in \in Nat /\ shift'.end \in Nat /\ shift'.out \in Nat
        /\ shift'.room \in Nat /\ shift'.num \in Nat /\ shift'.shifted \in Nat
    BY <1>2, <1>4
  <2>. QED
    BY <2>1, <2>2
<1>6. readTo' \in Nat /\ readTo' <= buffer.length
  <2>1. readTo' = Furthest(readTo, shift.in + 4)
    BY DEF ShiftWord
  <2>2. shift.in + 4 <= shift.end /\ shift.end <= buffer.length
    BY <1>1, <1>2 DEF OutOfWords, FrShift
  <2>. QED
    BY <1>1, <1>2, <2>1, <2>2 DEF Furthest
<1>7. /\ Starts' = Starts /\ OutSums' = OutSums /\ Listed' = Listed
      /\ frRecord' = frRecord
      /\ \A i : AdmittedAt(i)' <=> AdmittedAt(i)
  BY <1>3 DEF Starts, OutSums, Listed, frRecord, AdmittedAt, Supported, ArgOk, ShiftFits
<1>8. FrTypeOK'
  BY <1>1, <1>3, <1>5, <1>6 DEF FrTypeOK
<1>9. FrPlace'
  <2>1. Shifts(frRecord)'
    BY <1>1, <1>3 DEF FrPlace, Shifts, TooSmall, IsA5fb, Checked, Rest, frRecord
  <2>. QED
    BY <1>1, <1>3, <1>7, <2>1 DEF FrPlace
<1>10. FrCounted' /\ FrEnded'
  BY <1>1, <1>3, <1>7 DEF FrInv, FrCounted, FrEnded, Executing, Shifting
<1>11. FrAnswers'
  BY <1>3 DEF FrInv, FrAnswers, Excused
<1>12. FrShift'
  <2>1. /\ shift'.shifted + shift'.left = frRecord.bits /\ shift'.end <= buffer.length
    <3>1. shift.shifted + shift.left = frRecord.bits /\ shift.end <= buffer.length
      BY <1>1 DEF FrShift
    <3>. QED
      BY <1>2, <1>4, <3>1
  <2>2. ASSUME ~Excused(frRecord)
        PROVE  /\ shift'.in + 4 * Words(shift'.left) <= shift'.end
               /\ frPc = "shift" => shift'.out + 2 * Words(shift'.left) <= shift'.room
    <3>1. /\ shift.in + 4 * Words(shift.left) <= shift.end
          /\ frPc = "shift" => shift.out + 2 * Words(shift.left) <= shift.room
      BY <1>1, <2>2 DEF FrShift
    <3>2. /\ Words(shift.left) \in Nat /\ Words(shift'.left) \in Nat
          /\ Words(shift'.left) <= Words(shift.left) - 1
      <4>1. CASE shift.left >= 16
        BY <1>2, <1>4, <4>1, WordsIs
      <4>2. CASE ~(shift.left >= 16)
        <5>1. shift'.left = 0
          BY <1>4, <4>2
        <5>. QED
          BY <1>1, <1>2, <5>1, WordsIs
      <4>. QED
        BY <4>1, <4>2
    <3>. QED
      BY <1>2, <1>4, <3>1, <3>2
  <2>3. Excused(frRecord)' <=> Excused(frRecord)
    BY <1>7 DEF Excused
  <2>4. Words(shift.left)' = Words(shift'.left)
    BY DEF Words
  <2>. QED
    BY <1>3, <1>7, <2>1, <2>2, <2>3, <2>4 DEF FrShift
<1>. QED
  BY <1>3, <1>6, <1>8, <1>9, <1>10, <1>11, <1>12 DEF FrInv

LEMMA EndShiftKeeps == FrInv /\ EndShift => FrInv'
<1>. SUFFICES ASSUME FrInv, EndShift PROVE FrInv'
  OBVIOUS
<1>1. /\ FrTypeOK /\ FrPlace /\ FrShift /\ readTo <= buffer.length
      /\ frPc \in Shifting /\ frPc \in Executing /\ frPos <= Listed
  BY DEF FrInv, EndShift, Executing, Shifting, FrPlace
<1>2. /\ shift.left \in Nat /\ shift.in \in Nat /\ shift.end \in Nat /\ shift.out \in Nat
      /\ shift.room \in Nat
  BY <1>1 DEF FrTypeOK
<1>. DEFINE a == IF shift.left = 0 THEN 0 ELSE 4
<1>3. /\ Answered(a) /\ frPc' = "execute" /\ a \in Nat
      /\ UNCHANGED <<buffer, forwards, totalOutput, readTo, shift>>
  BY DEF EndShift
<1>4. ASSUME shift.left # 0 PROVE Excused(frRecord)
  <2>1. OutOfWords \/ OutOfRoom
    BY <1>4 DEF EndShift
  <2>2. SUFFICES ASSUME ~Excused(frRecord) PROVE FALSE
    OBVIOUS
  <2>3. /\ shift.in + 4 * Words(shift.left) <= shift.end
        /\ frPc = "shift" => shift.out + 2 * Words(shift.left) <= shift.room
    BY <1>1, <2>2 DEF FrShift
  <2>4. Words(shift.left) \in Nat /\ Words(shift.left) >= 1
    BY <1>2, <1>4, WordsIs
  <2>. QED
    BY <1>2, <2>1, <2>3, <2>4 DEF OutOfWords, OutOfRoom
<1>5. a \in {2, 4} => Excused(frRecord)
  BY <1>4
<1>. HIDE DEF a
<1>6. /\ FrPlace' /\ FrCounted' /\ FrEnded' /\ FrAnswers' /\ FrShift'
      /\ answers' \in Seq(Nat) /\ outputOffset' \in Nat
  BY <1>1, <1>3, <1>5, AnsweredKeeps
<1>7. FrTypeOK'
  BY <1>1, <1>3, <1>6 DEF FrTypeOK, Behind
<1>. QED
  BY <1>1, <1>3, <1>6, <1>7 DEF FrInv

-----------------------------------------------------------------------------
LEMMA FrKeeps == FrInv /\ [FrNext]_frVars => FrInv'
<1>. SUFFICES ASSUME FrInv, [FrNext]_frVars PROVE FrInv'
  OBVIOUS
<1>1. CASE UNCHANGED frVars
  <2>1. UNCHANGED <<buffer, frPc, frPos, frOffset, forwards, totalOutput, outputOffset,
                    answers, readTo, shift>>
    BY <1>1 DEF frVars
  <2>2. /\ Starts' = Starts /\ OutSums' = OutSums /\ Listed' = Listed
        /\ frRecord' = frRecord
        /\ \A i : AdmittedAt(i)' <=> AdmittedAt(i)
    BY <2>1 DEF Starts, OutSums, Listed, frRecord, AdmittedAt, Supported, ArgOk, ShiftFits
  <2>3. FrTypeOK' /\ FrCounted' /\ FrEnded'
    BY <2>1, <2>2 DEF FrInv, FrTypeOK, FrCounted, FrEnded
  <2>4. FrAnswers' /\ FrShift'
    BY <2>1, <2>2 DEF FrInv, FrAnswers, FrShift, Excused, Words
  <2>5. FrPlace'
    <3>1. Shifts(frRecord)' <=> Shifts(frRecord)
      BY <2>1 DEF Shifts, TooSmall, IsA5fb, Checked, Rest, frRecord
    <3>. QED
      BY <2>1, <2>2, <3>1 DEF FrInv, FrPlace
  <2>. QED
    BY <2>1, <2>3, <2>4, <2>5 DEF FrInv
<1>2. CASE AdmitRecord \/ AdmitEnds
  BY <1>2, AdmitRecordKeeps, AdmitEndsKeeps
<1>3. CASE MeasureRecord \/ MeasureEnds
  BY <1>3, MeasureRecordKeeps, MeasureEndsKeeps
<1>4. CASE ExecuteRecord \/ ExecuteEnds
  BY <1>4, ExecuteRecordKeeps, ExecuteEndsKeeps
<1>5. CASE BeginShift \/ ShiftWord \/ EndShift
  BY <1>5, BeginShiftKeeps, ShiftWordKeeps, EndShiftKeeps
<1>. QED
  BY <1>1, <1>2, <1>3, <1>4, <1>5 DEF FrNext

\* The three passes of CFDC2110 agree, for buffers of any number of records of any kinds,
\* lengths and arguments: what was admitted is executed as what it was admitted as, within
\* the buffer and the room for output.
THEOREM AdmittedIsExecutedAlways == FrSpec => []AdmittedIsExecuted
<1>1. FrInv => AdmittedIsExecuted
  <2>. SUFFICES ASSUME FrInv PROVE AdmittedIsExecuted
    OBVIOUS
  <2>1. answers \in Seq(Nat) /\ Listed \in Nat /\ frPos \in 1..Listed + 1
    BY BufferIs DEF FrInv, FrTypeOK, FrPlace
  <2>2. \A i \in DOMAIN answers : answers[i] \in {2, 4} => Excused(buffer.records[i])
    BY <2>1 DEF FrInv, FrAnswers
  <2>3. /\ frPc = "execute" => frPos = Len(answers) + 1
        /\ frPc = "done" => Len(answers) = Len(buffer.records)
    BY <2>1 DEF FrInv, FrCounted, FrPlace, Executing, Listed
  <2>4. frPc \in {"shift", "shiftWrite"} => shift.shifted + shift.left = frRecord.bits
    BY DEF FrInv, FrShift, Shifting
  <2>. QED
    BY <2>2, <2>3, <2>4 DEF FrInv, FrCounted, FrEnded, AdmittedIsExecuted
<1>2. FrInit(Buffers) => FrBegins
  BY BuffersAssumption DEF FrInit, FrBegins, WellFramed
<1>. QED
  BY <1>1, <1>2, FrInitially, FrKeeps, PTL DEF FrSpec

-----------------------------------------------------------------------------
(* lecdiag.                                                                 *)

DgSpec ==
    /\ DgInit(DiagCommands) /\ DpInit(Requests) /\ FrInit(Buffers)
    /\ [][DgNext]_<<dgVars, dpVars, frVars>>

-----------------------------------------------------------------------------
(* The packets that lecdiag replays.                                        *)

\* A record that is admitted wherever it stands, and has room for its answer.
GoodRecord(r) ==
    /\ r \in FrRecord /\ r.out >= 6
    /\ Supported(r, HeaderBytes + r.plen)
    /\ r.kind = "jtag" => r.room >= 2 * Words(r.bits)

GoodRecords(records, out) ==
    /\ records[1].kind # "fetch"
    /\ \A i \in 1..Len(records) :
          /\ GoodRecord(records[i])
          /\ records[i].kind = "jtag" => Furthest(out, 8) >= 8 + records[i].room

\* Its records fill the packet and ask for the output there is room for.
GoodPacket(q) ==
    /\ q.records \in Seq(FrRecord) /\ Len(q.records) \in 1..2
    /\ q.in \in Nat /\ q.out \in Nat /\ q.used \in Nat
    /\ q.in = StartsOf(q.records)[Len(q.records) + 1]
    /\ q.out = OutsOf(q.records)[Len(q.records) + 1]
    /\ GoodRecords(q.records, q.out)

LEMMA PlenIs ==
    ASSUME NEW r, GoodRecord(r)
    PROVE  r \in FrRecord /\ r.plen \in Nat /\ r.out \in Nat /\ r.bits \in Nat /\ r.room \in Nat
BY DEF GoodRecord, FrRecord

LEMMA SupportedIs ==
    ASSUME NEW r, GoodRecord(r), NEW rest \in Nat, HeaderBytes + r.plen <= rest
    PROVE  Supported(r, rest)
<1>1. /\ r.plen \in Nat /\ r.bits \in Nat /\ Words(r.bits) \in Nat
  BY PlenIs, WordsIs
<1>2. Supported(r, HeaderBytes + r.plen)
  BY DEF GoodRecord
<1>3. ShiftFits(r, rest)
  BY <1>1, <1>2 DEF Supported, ShiftFits, HeaderBytes
<1>. QED
  BY <1>1, <1>2, <1>3 DEF Supported, HeaderBytes

LEMMA GoodPacketIs ==
    ASSUME NEW q, NEW records \in Seq(FrRecord), NEW n \in 1..2, NEW in \in Nat, NEW out \in Nat,
           q.records = records, Len(records) = n, q.in = in, q.out = out, q.used \in Nat,
           StartsOf(records)[n + 1] = in, OutsOf(records)[n + 1] = out,
           GoodRecords(records, out)
    PROVE  GoodPacket(q)
BY DEF GoodPacket

LEMMA OneRecord ==
    ASSUME NEW r, GoodRecord(r), r.kind \notin {"fetch", "jtag"}, NEW used \in Nat
    PROVE  GoodPacket(Packet(<<r>>, r.out, used))
<1>. DEFINE records == <<r>>
            q == Packet(records, r.out, used)
<1>1. r \in FrRecord /\ r.plen \in Nat /\ r.out \in Nat
  BY PlenIs
<1>2. records \in Seq(FrRecord) /\ Len(records) = 1 /\ records[1] = r
  BY <1>1
<1>3. q.records = records /\ q.in = HeaderBytes + r.plen /\ q.out = r.out /\ q.used = used
  BY <1>1, <1>2 DEF Packet, PacketBytes, HeaderBytes
<1>. HIDE DEF records, q
<1>4. SumsOf(StartsOf(records), Spans(records), 1) /\ SumsOf(OutsOf(records), Rooms(records), 1)
  BY <1>2, StartsAre, OutsAre
<1>5. Spans(records)[1] = HeaderBytes + r.plen /\ Rooms(records)[1] = r.out
  BY <1>2 DEF Spans, Rooms
<1>6. StartsOf(records)[1 + 1] = HeaderBytes + r.plen /\ OutsOf(records)[1 + 1] = r.out
  <2>1. StartsOf(records)[1 + 1] = 0 + Spans(records)[1]
    BY <1>4 DEF SumsOf
  <2>2. OutsOf(records)[1 + 1] = 0 + Rooms(records)[1]
    BY <1>4 DEF SumsOf
  <2>. QED
    BY <1>1, <1>5, <2>1, <2>2 DEF HeaderBytes
<1>7. GoodRecords(records, r.out)
  BY <1>2 DEF GoodRecords
<1>8. q.in \in Nat
  BY <1>1, <1>3 DEF HeaderBytes
<1>9. GoodPacket(q)
  BY <1>1, <1>2, <1>3, <1>6, <1>7, <1>8, GoodPacketIs
<1>. QED
  BY <1>9 DEF q, records

LEMMA TwoRecords ==
    ASSUME NEW r, NEW f, GoodRecord(r), GoodRecord(f), r.kind # "fetch", f.kind = "fetch",
           NEW out, out = r.out + f.out, NEW used \in Nat,
           r.kind = "jtag" => Furthest(out, 8) >= 8 + r.room
    PROVE  GoodPacket(Packet(<<r, f>>, out, used))
<1>. DEFINE records == <<r, f>>
            q == Packet(records, out, used)
<1>1. /\ r \in FrRecord /\ r.plen \in Nat /\ r.out \in Nat
      /\ f \in FrRecord /\ f.plen \in Nat /\ f.out \in Nat /\ out \in Nat
  BY PlenIs
<1>2. records \in Seq(FrRecord) /\ Len(records) = 2 /\ records[1] = r /\ records[2] = f
  BY <1>1
<1>3. /\ q.records = records /\ q.out = out /\ q.used = used
      /\ q.in = (HeaderBytes + r.plen) + (HeaderBytes + f.plen)
  BY <1>1, <1>2 DEF Packet, PacketBytes, HeaderBytes
<1>. HIDE DEF records, q
<1>4. SumsOf(StartsOf(records), Spans(records), 2) /\ SumsOf(OutsOf(records), Rooms(records), 2)
  BY <1>2, StartsAre, OutsAre
<1>5. /\ Spans(records)[1] = HeaderBytes + r.plen /\ Rooms(records)[1] = r.out
      /\ Spans(records)[2] = HeaderBytes + f.plen /\ Rooms(records)[2] = f.out
  BY <1>2 DEF Spans, Rooms
<1>6. /\ StartsOf(records)[2 + 1] = (HeaderBytes + r.plen) + (HeaderBytes + f.plen)
      /\ OutsOf(records)[2 + 1] = r.out + f.out
  <2>1. /\ StartsOf(records)[1 + 1] = 0 + Spans(records)[1]
        /\ StartsOf(records)[2 + 1] = StartsOf(records)[2] + Spans(records)[2]
    BY <1>4 DEF SumsOf
  <2>2. /\ OutsOf(records)[1 + 1] = 0 + Rooms(records)[1]
        /\ OutsOf(records)[2 + 1] = OutsOf(records)[2] + Rooms(records)[2]
    BY <1>4 DEF SumsOf
  <2>. QED
    BY <1>1, <1>5, <2>1, <2>2 DEF HeaderBytes
<1>7. GoodRecords(records, out)
  BY <1>2 DEF GoodRecords
<1>8. q.in \in Nat
  BY <1>1, <1>3 DEF HeaderBytes
<1>9. GoodPacket(q)
  BY <1>1, <1>2, <1>3, <1>6, <1>7, <1>8, GoodPacketIs
<1>. QED
  BY <1>9 DEF q, records

\* A field of a kind that has no shift.
LEMMA FieldIs ==
    ASSUME NEW kind, NEW plen, NEW arg, NEW bits, NEW room, NEW addr
    PROVE  LET r == Field(kind, plen, arg, bits, room, addr) IN
           /\ r.kind = kind /\ r.plen = plen /\ r.arg = arg /\ r.bits = bits /\ r.room = room
           /\ r.addr = addr /\ r.out = 6
           /\ kind \in Kinds /\ {plen, arg, bits, room, addr} \subseteq Nat => r \in FrRecord
BY DEF Field, FrRecord

LEMMA FetchIs ==
    ASSUME NEW out \in Nat, out >= 6
    PROVE  GoodRecord(Fetch(out)) /\ Fetch(out).kind = "fetch" /\ Fetch(out).out = out
<1>. DEFINE r == Fetch(out)
<1>1. /\ r.kind = "fetch" /\ r.plen = 2 /\ r.arg = 0 /\ r.bits = 0 /\ r.room = 0 /\ r.addr = 0
      /\ r.out = out /\ r \in FrRecord
  BY DEF Fetch, Field, FrRecord, Kinds
<1>. HIDE DEF r
<1>2. GoodRecord(r)
  BY <1>1 DEF GoodRecord, Supported, ArgOk, ShiftFits, Fewest, Exactly, HeaderBytes, Kinds
<1>. QED
  BY <1>1, <1>2 DEF r

LEMMA FetchedIs ==
    ASSUME NEW r, GoodRecord(r), r.kind \notin {"fetch", "jtag"}, r.out = 6
    PROVE  GoodPacket(Fetched(r))
BY TwoRecords, FetchIs DEF Fetched

\* Every kind of step of the replay, and the probe.
LEMMA StepsAreGood ==
    /\ GoodRecord(Field("reg", 10, 1, 0, 0, 196))
    /\ GoodRecord(Field("spi", 14, 12, 40, 0, 0))
    /\ GoodRecord(Field("jtagWrite", 20, 1, 48, 0, 0))
    /\ GoodRecord(Field("arm", 8, 1, 0, 0, 0))
    /\ GoodRecord(Field("spi", 26, 14, 144, 0, 0))
    /\ \A i \in 1..5 : GoodRecord(Field("spi", 12, i - 1, 24, 0, 0))
    /\ GoodRecord(Field("mam", 42, 0, 0, 0, 0))
    /\ GoodRecord(Field("mtt", 6, 1, 0, 0, 0))
    /\ GoodRecord(Field("jtag", 32, 1, 76, 10, 0))
<1>. USE DEF GoodRecord, Supported, ArgOk, ShiftFits, Fewest, Exactly, HeaderBytes, Kinds, Words
<1>1. GoodRecord(Field("reg", 10, 1, 0, 0, 196))
  BY FieldIs
<1>2. GoodRecord(Field("spi", 14, 12, 40, 0, 0)) /\ GoodRecord(Field("spi", 26, 14, 144, 0, 0))
  BY FieldIs
<1>3. GoodRecord(Field("jtagWrite", 20, 1, 48, 0, 0))
  BY FieldIs
<1>4. GoodRecord(Field("arm", 8, 1, 0, 0, 0))
  BY FieldIs
<1>5. ASSUME NEW i \in 1..5 PROVE GoodRecord(Field("spi", 12, i - 1, 24, 0, 0))
  <2>1. i - 1 \in 0..4 /\ i - 1 \in Nat
    OBVIOUS
  <2>. DEFINE a == i - 1
  <2>. HIDE DEF a
  <2>2. a \in 0..4 /\ a \in Nat => GoodRecord(Field("spi", 12, a, 24, 0, 0))
    BY FieldIs
  <2>. QED
    BY <2>1, <2>2 DEF a
<1>6. GoodRecord(Field("mam", 42, 0, 0, 0, 0))
  BY FieldIs
<1>7. GoodRecord(Field("mtt", 6, 1, 0, 0, 0))
  BY FieldIs
<1>8. GoodRecord(Field("jtag", 32, 1, 76, 10, 0))
  BY FieldIs
<1>. HIDE DEF GoodRecord, Supported, ArgOk, ShiftFits, Fewest, Exactly, HeaderBytes, Kinds, Words
<1>. QED
  BY <1>1, <1>2, <1>3, <1>4, <1>5, <1>6, <1>7, <1>8

-----------------------------------------------------------------------------
(* What a command sends.                                                    *)

\* Answers that say that the request itself was wrong.
Rejections == {"invalid size", "invalid request", "too small", "not implemented"}

Arrived(q) == [code |-> q.code, in |-> q.in, out |-> q.out]

\* The answer is no rejection, unless the user chose the code and the lengths, and has what
\* the tool looks at.
Suits(c, q, status, info) ==
    /\ c.name # "raw-ioctl" => status \notin Rejections
    /\ status = "success" => q.used <= info

SuitedAll(c, q, results) == \A x \in results : Suits(c, q, x.status, x.info)

GoodRequest(c, q) ==
    /\ q.records = <<>> /\ q.used \in Nat
    /\ Arrived(q) \in AnyRequest
    /\ SuitedAll(c, q, Handler(Arrived(q)))

LEMMA AskIs ==
    ASSUME NEW code, NEW in, NEW out
    PROVE  /\ \A q \in {Ask(code, in, out), AskExactly(code, in, out), AskUpTo(code, in, out)} :
                 q.records = <<>> /\ Arrived(q) = [code |-> code, in |-> in, out |-> out]
           /\ Ask(code, in, out).used = out /\ AskExactly(code, in, out).used = out
           /\ AskUpTo(code, in, out).used = 0
BY DEF Ask, AskExactly, AskUpTo, Arrived

\* The requests that have no packet.
LEMMA AskedIs ==
    ASSUME NEW c
    PROVE  /\ GoodRequest(c, Ask("CFDC21C8", 0, 4))
           /\ GoodRequest(c, Ask("stats", 0, Room.stats))
           /\ GoodRequest(c, Ask("pci", 0, Room.pci))
           /\ GoodRequest(c, Ask("bars", 0, Room.bars))
           /\ GoodRequest(c, Ask("trace", 0, Room.trace))
           /\ GoodRequest(c, Ask("clear trace", 0, 0))
           /\ GoodRequest(c, Ask("23080", 0, 8))
           /\ GoodRequest(c, Ask("CFDC21C0", 5, 4))
           /\ GoodRequest(c, AskExactly("23044", 0, 4))
           /\ GoodRequest(c, AskExactly("CFDC21C0", 5, 4))
           /\ GoodRequest(c, AskExactly("CFDC2194", 0, 29))
<1>. DEFINE r(code, in, out) == [code |-> code, in |-> in, out |-> out]
<1>1. ASSUME NEW code \in ToolCodes, NEW in \in Nat, NEW out \in Nat
      PROVE  r(code, in, out) \in AnyRequest
  BY DEF AnyRequest
<1>2. Room.stats = 48 /\ Room.bars = 72 /\ Room.pci = 84 /\ Room.trace = 16 + (256 * 464)
  BY DEF Room, TraceEntryBytes
<1>3. /\ DebugBytes.stats = 48 /\ DebugBytes.bars = 72 /\ DebugBytes.pci = 84
      /\ DebugBytes.trace = 16 + (256 * 464)
  BY DEF DebugBytes
<1>4. /\ Handler(r("CFDC21C8", 0, 4)) = {Returns(4)}
      /\ Handler(r("stats", 0, 48)) = {Returns(48)}
      /\ Handler(r("bars", 0, 72)) = {Returns(72)}
      /\ Handler(r("trace", 0, 16 + (256 * 464))) = {Returns(16 + (256 * 464))}
      /\ Handler(r("23044", 0, 4)) = Resolved(Returns(4))
      /\ Handler(r("CFDC2194", 0, 29)) = {Returns(29)}
  BY <1>3 DEF Handler, SetterBytes, Getter
<1>5. Handler(r("pci", 0, 84)) = {Returns(84), Result("failed", 0, 84, 0)}
  BY <1>3 DEF Handler, SetterBytes, PciConfig
<1>6. Handler(r("clear trace", 0, 0)) = {Accepts(0)}
  BY DEF Handler, SetterBytes, Fixed
<1>7. Handler(r("23080", 0, 8)) = {Returns(8), Result("failed", 0, 8, 0), Refused("failed")}
  BY DEF Handler, SetterBytes, Dallas
<1>8. Handler(r("CFDC21C0", 5, 4)) = Resolved(Result("success", 5, 4, 4))
  BY DEF Handler, SetterBytes, Register
<1>. HIDE DEF r
<1>9. ASSUME NEW code \in ToolCodes, NEW in \in Nat, NEW out \in Nat,
             NEW q \in {Ask(code, in, out), AskExactly(code, in, out)},
             \A x \in Handler(r(code, in, out)) :
                x.status \notin Rejections /\ (x.status = "success" => out <= x.info)
      PROVE  GoodRequest(c, q)
  <2>1. q.records = <<>> /\ q.used = out /\ Arrived(q) = r(code, in, out)
    BY <1>9, AskIs DEF r
  <2>2. SuitedAll(c, q, Handler(r(code, in, out)))
    BY <1>9, <2>1 DEF SuitedAll, Suits
  <2>. QED
    BY <1>1, <2>1, <2>2 DEF GoodRequest
<1>10. ASSUME NEW n \in Nat
       PROVE  /\ \A x \in {Returns(n)} \cup Resolved(Returns(n)) :
                    x.status \notin Rejections /\ (x.status = "success" => n <= x.info)
              /\ \A x \in {Returns(n), Result("failed", 0, n, 0), Refused("failed")} :
                    x.status \notin Rejections /\ (x.status = "success" => n <= x.info)
  BY DEF Returns, Resolved, Result, Refused, Rejections
<1>11. /\ \A x \in Resolved(Result("success", 5, 4, 4)) :
             x.status \notin Rejections /\ (x.status = "success" => 4 <= x.info)
       /\ \A x \in {Accepts(0)} :
             x.status \notin Rejections /\ (x.status = "success" => 0 <= x.info)
  BY DEF Resolved, Result, Accepts, Rejections
<1>12. {"stats", "pci", "bars", "trace", "clear trace", "23044", "23080", "CFDC2194", "CFDC21C0",
        "CFDC21C8"} \subseteq ToolCodes
  BY DEF ToolCodes
<1>13. ASSUME NEW code \in ToolCodes, NEW n \in Nat,
              Handler(r(code, 0, n)) \in
                 {{Returns(n)}, Resolved(Returns(n)), {Returns(n), Result("failed", 0, n, 0)},
                  {Returns(n), Result("failed", 0, n, 0), Refused("failed")}}
       PROVE  GoodRequest(c, Ask(code, 0, n)) /\ GoodRequest(c, AskExactly(code, 0, n))
  <2>1. \A x \in Handler(r(code, 0, n)) :
           x.status \notin Rejections /\ (x.status = "success" => n <= x.info)
    BY <1>10, <1>13
  <2>. QED
    BY <1>9, <1>13, <2>1
<1>14. GoodRequest(c, Ask("CFDC21C8", 0, 4))
  BY <1>4, <1>12, <1>13
<1>15. GoodRequest(c, Ask("stats", 0, 48)) /\ GoodRequest(c, Ask("bars", 0, 72))
  BY <1>4, <1>12, <1>13
<1>16. GoodRequest(c, Ask("trace", 0, 16 + (256 * 464))) /\ GoodRequest(c, Ask("pci", 0, 84))
  <2>. DEFINE n == 16 + (256 * 464)
  <2>1. n \in Nat /\ Handler(r("trace", 0, n)) = {Returns(n)}
    BY <1>4
  <2>. HIDE DEF n
  <2>2. GoodRequest(c, Ask("trace", 0, n))
    BY <1>12, <1>13, <2>1
  <2>. QED
    BY <1>5, <1>12, <1>13, <2>2 DEF n
<1>17. GoodRequest(c, Ask("clear trace", 0, 0))
  BY <1>6, <1>9, <1>11, <1>12
<1>18. GoodRequest(c, Ask("23080", 0, 8))
  BY <1>7, <1>12, <1>13
<1>19. GoodRequest(c, Ask("CFDC21C0", 5, 4)) /\ GoodRequest(c, AskExactly("CFDC21C0", 5, 4))
  BY <1>8, <1>9, <1>11, <1>12
<1>20. GoodRequest(c, AskExactly("23044", 0, 4))
  BY <1>4, <1>12, <1>13
<1>21. GoodRequest(c, AskExactly("CFDC2194", 0, 29))
  BY <1>4, <1>12, <1>13
<1>. QED
  BY <1>2, <1>14, <1>15, <1>16, <1>17, <1>18, <1>19, <1>20, <1>21

LEMMA DallasAskedIs ==
    ASSUME NEW c, NEW length \in 1..512
    PROVE  GoodRequest(c, AskUpTo("23084", 0, length))
<1>. DEFINE q == AskUpTo("23084", 0, length)
            r == [code |-> "23084", in |-> 0, out |-> length]
<1>1. q.records = <<>> /\ q.used = 0 /\ Arrived(q) = r
  BY AskIs
<1>2. r \in AnyRequest
  BY DEF AnyRequest, ToolCodes
<1>3. Handler(r) = {Returns(length), Result("failed", 0, length, 0), Refused("failed")}
  BY DEF Handler, SetterBytes, Dallas
<1>. HIDE DEF q, r
<1>4. \A x \in Handler(r) : x.status \notin Rejections /\ 0 <= x.info
  <2>1. \A x \in {Returns(length), Result("failed", 0, length, 0), Refused("failed")} :
           x.status \in {"success", "failed"} /\ x.info \in {length, 0}
    BY DEF Returns, Refused, Result
  <2>2. 0 <= length /\ 0 <= 0
    OBVIOUS
  <2>. QED
    BY <1>3, <2>1, <2>2 DEF Rejections
<1>5. GoodRequest(c, q)
  BY <1>1, <1>2, <1>4 DEF GoodRequest, SuitedAll, Suits
<1>. QED
  BY <1>5 DEF q

LEMMA RawAskedIs ==
    ASSUME NEW c \in DiagCommands, c.name = "raw-ioctl"
    PROVE  GoodRequest(c, AskUpTo(c.code, c.in, c.out))
<1>. DEFINE q == AskUpTo(c.code, c.in, c.out)
            r == [code |-> c.code, in |-> c.in, out |-> c.out]
<1>1. q.records = <<>> /\ q.used = 0 /\ Arrived(q) = r
  BY AskIs
<1>2. r \in AnyRequest
  BY DiagAssumption DEF AnyRequest, ToolCodes
<1>. HIDE DEF q, r
<1>3. \A x \in Handler(r) : 0 <= x.info
  <2>1. AllDisciplined(r, Handler(r))
    BY <1>2, HandlerIs
  <2>2. \A x \in Handler(r) : x.info \in Nat
    BY <2>1 DEF AllDisciplined, Disciplined
  <2>. QED
    BY <2>2
<1>4. GoodRequest(c, q)
  BY <1>1, <1>2, <1>3 DEF GoodRequest, SuitedAll, Suits
<1>. QED
  BY <1>4 DEF q

\* A packet has records and a plain request has none.
Suited(c, q) == GoodRequest(c, q) \/ (q.records # <<>> /\ GoodPacket(q))

LEMMA PacketHasRecords == ASSUME NEW q, GoodPacket(q) PROVE q.records # <<>>
<1>1. Len(q.records) \in 1..2 /\ Len(<<>>) = 0
  BY DEF GoodPacket
<1>. QED
  BY <1>1

LEMMA ReplayIs ==
    /\ Len(Replayed) \in Nat
    /\ \A i \in 1..Len(Replayed) : GoodPacket(Replayed[i])
<1>. DEFINE P == {Fetched(Field("reg", 10, 1, 0, 0, 196)), Fetched(Field("spi", 14, 12, 40, 0, 0)),
                  Fetched(Field("jtagWrite", 20, 1, 48, 0, 0)), Fetched(Field("arm", 8, 1, 0, 0, 0)),
                  Fetched(Field("spi", 26, 14, 144, 0, 0)), Mam,
                  Fetched(Field("mtt", 6, 1, 0, 0, 0))}
                 \cup {Fetched(Field("spi", 12, i - 1, 24, 0, 0)) : i \in 1..5}
<1>1. ASSUME NEW n \in Nat, NEW q \in P PROVE Times(n, q) \in Seq(P)
  BY DEF Times
<1>2. \A q \in P : GoodPacket(q)
  <2>1. ASSUME NEW kind, NEW plen, NEW arg, NEW bits, NEW room, NEW addr,
               kind \notin {"fetch", "jtag"}, GoodRecord(Field(kind, plen, arg, bits, room, addr))
        PROVE  GoodPacket(Fetched(Field(kind, plen, arg, bits, room, addr)))
    BY <2>1, FetchedIs, FieldIs
  <2>2. GoodPacket(Mam)
    BY StepsAreGood, OneRecord, FieldIs DEF Mam
  <2>3. ASSUME NEW i \in 1..5 PROVE GoodPacket(Fetched(Field("spi", 12, i - 1, 24, 0, 0)))
    BY <2>1, StepsAreGood
  <2>. QED
    BY <2>1, <2>2, <2>3, StepsAreGood
<1>3. [i \in 1..5 |-> Fetched(Field("spi", 12, i - 1, 24, 0, 0))] \in Seq(P)
  <2>1. \A i \in 1..5 : Fetched(Field("spi", 12, i - 1, 24, 0, 0)) \in P
    OBVIOUS
  <2>. QED
    BY <2>1
<1>4. /\ Fetched(Field("reg", 10, 1, 0, 0, 196)) \in P
      /\ Fetched(Field("spi", 14, 12, 40, 0, 0)) \in P
      /\ Fetched(Field("jtagWrite", 20, 1, 48, 0, 0)) \in P
      /\ Fetched(Field("arm", 8, 1, 0, 0, 0)) \in P
      /\ Fetched(Field("spi", 26, 14, 144, 0, 0)) \in P
      /\ Mam \in P /\ Fetched(Field("mtt", 6, 1, 0, 0, 0)) \in P
  OBVIOUS
<1>. HIDE DEF P
<1>5. ASSUME NEW s \in Seq(P), NEW t \in Seq(P) PROVE s \o t \in Seq(P)
  OBVIOUS
<1>6. Replayed \in Seq(P)
  <2>1. /\ Times(6, Fetched(Field("reg", 10, 1, 0, 0, 196))) \in Seq(P)
        /\ Times(5, Fetched(Field("jtagWrite", 20, 1, 48, 0, 0))) \in Seq(P)
        /\ Times(12, Mam) \in Seq(P)
    BY <1>1, <1>4
  <2>2. /\ <<Fetched(Field("spi", 14, 12, 40, 0, 0))>> \in Seq(P)
        /\ <<Fetched(Field("arm", 8, 1, 0, 0, 0)), Fetched(Field("spi", 26, 14, 144, 0, 0))>>
              \in Seq(P)
        /\ <<Fetched(Field("arm", 8, 1, 0, 0, 0))>> \in Seq(P)
        /\ <<Fetched(Field("mtt", 6, 1, 0, 0, 0))>> \in Seq(P)
    BY <1>4
  <2>. QED
    BY <1>3, <1>5, <2>1, <2>2 DEF Replayed
<1>7. Len(Replayed) \in Nat /\ \A i \in 1..Len(Replayed) : Replayed[i] \in P
  BY <1>6
<1>. QED
  BY <1>2, <1>7

LEMMA RequestsAre ==
    ASSUME NEW c \in DiagCommands
    PROVE  /\ Len(RequestsOf(c)) \in Nat /\ Len(RequestsOf(c)) >= 1
           /\ Accepted(c) => \A i \in 1..Len(RequestsOf(c)) : Suited(c, RequestsOf(c)[i])
<1>1. c.name \in CommandNames
  BY DiagAssumption
<1>2. ASSUME NEW q, RequestsOf(c) = <<q>>, Accepted(c) => Suited(c, q)
      PROVE  /\ Len(RequestsOf(c)) \in Nat /\ Len(RequestsOf(c)) >= 1
             /\ Accepted(c) => \A i \in 1..Len(RequestsOf(c)) : Suited(c, RequestsOf(c)[i])
  <2>1. Len(RequestsOf(c)) = 1 /\ RequestsOf(c)[1] = q
    BY <1>2
  <2>. QED
    BY <1>2, <2>1
<1>3. GoodPacket(JtagPoll)
  <2>1. /\ GoodRecord(Field("jtag", 32, 1, 76, 10, 0)) /\ GoodRecord(Fetch(18))
        /\ Field("jtag", 32, 1, 76, 10, 0).out = 6 /\ Field("jtag", 32, 1, 76, 10, 0).room = 10
        /\ Fetch(18).out = 18 /\ Fetch(18).kind = "fetch"
        /\ Field("jtag", 32, 1, 76, 10, 0).kind = "jtag"
    BY StepsAreGood, FetchIs, FieldIs
  <2>2. Furthest(24, 8) >= 8 + 10 /\ 24 = 6 + 18
    BY DEF Furthest
  <2>. QED
    BY <2>1, <2>2, TwoRecords DEF JtagPoll
<1>4. CASE c.name = "build"
  BY <1>2, <1>4, AskedIs DEF RequestsOf, QueryBuild, Suited
<1>5. CASE c.name = "stats"
  BY <1>2, <1>5, AskedIs DEF RequestsOf, QueryStats, Suited
<1>6. CASE c.name = "pci"
  BY <1>2, <1>6, AskedIs DEF RequestsOf, QueryPci, Suited
<1>7. CASE c.name = "bars"
  BY <1>2, <1>7, AskedIs DEF RequestsOf, QueryBars, Suited
<1>8. CASE c.name = "trace"
  BY <1>2, <1>8, AskedIs DEF RequestsOf, QueryTrace, Suited
<1>9. CASE c.name = "trace-clear"
  BY <1>2, <1>9, AskedIs DEF RequestsOf, ClearTheTrace, Suited
<1>10. CASE c.name = "dallas-id"
  BY <1>2, <1>10, AskedIs DEF RequestsOf, QueryDallasId, Suited
<1>11. CASE c.name = "dallas-read"
  <2>1. Accepted(c) => c.out \in 1..512
    BY <1>11 DEF Accepted
  <2>2. RequestsOf(c) = <<AskUpTo("23084", 0, c.out)>>
    BY <1>11 DEF RequestsOf, ReadDallasMemory
  <2>3. Accepted(c) => Suited(c, AskUpTo("23084", 0, c.out))
    BY <2>1, DallasAskedIs DEF Suited
  <2>. QED
    BY <1>2, <2>2, <2>3
<1>12. CASE c.name = "start-register"
  <2>1. RequestsOf(c) = <<AskExactly("23044", 0, 4), AskExactly("CFDC21C0", 5, 4)>>
    BY <1>12 DEF RequestsOf, QueryLegacyStartRegister
  <2>2. /\ Len(RequestsOf(c)) = 2 /\ RequestsOf(c)[1] = AskExactly("23044", 0, 4)
        /\ RequestsOf(c)[2] = AskExactly("CFDC21C0", 5, 4)
    BY <2>1
  <2>3. Suited(c, RequestsOf(c)[1]) /\ Suited(c, RequestsOf(c)[2])
    BY <2>2, AskedIs DEF Suited
  <2>. QED
    BY <2>2, <2>3
<1>13. CASE c.name = "error-status"
  BY <1>2, <1>13, AskedIs DEF RequestsOf, QueryLegacyErrorStatus, Suited
<1>14. CASE c.name = "read"
  BY <1>2, <1>14, AskedIs DEF RequestsOf, ReadRegister, Suited
<1>15. CASE c.name = "raw-ioctl"
  BY <1>2, <1>15, RawAskedIs DEF RequestsOf, RawIoctl, Suited
<1>16. CASE c.name = "legacy-jtag-poll"
  BY <1>2, <1>3, <1>16, PacketHasRecords DEF RequestsOf, Suited
<1>17. CASE c.name = "legacy-prepoll-replay"
  <2>. DEFINE m == Len(Replayed)
              n == (2 * m) + 1
  <2>1. RequestsOf(c) = [i \in 1..n |-> IF i % 2 = 1 THEN JtagPoll ELSE Replayed[i \div 2]]
    BY <1>17 DEF RequestsOf, PrepollReplay
  <2>2. m \in Nat /\ \A i \in 1..m : GoodPacket(Replayed[i])
    BY ReplayIs
  <2>3. ASSUME NEW i \in 1..n, i % 2 # 1 PROVE i \div 2 \in 1..m
    <3>. HIDE DEF m
    <3>. QED
      BY <2>2, <2>3
  <2>. HIDE DEF m
  <2>4. n \in Nat /\ n >= 1
    BY <2>2
  <2>5. \A i \in 1..n : GoodPacket(RequestsOf(c)[i])
    BY <1>3, <2>1, <2>2, <2>3
  <2>6. Len(RequestsOf(c)) = n
    BY <2>1, <2>4
  <2>. QED
    BY <2>4, <2>5, <2>6, PacketHasRecords DEF Suited
<1>. QED
  BY <1>1, <1>4, <1>5, <1>6, <1>7, <1>8, <1>9, <1>10, <1>11, <1>12, <1>13, <1>14, <1>15, <1>16,
     <1>17 DEF CommandNames
-----------------------------------------------------------------------------
(* The driver walks a packet.                                               *)

GoodBuffer ==
    /\ Listed >= 1
    /\ buffer.length = Starts[Listed + 1] /\ buffer.out = OutSums[Listed + 1]
    /\ GoodRecords(buffer.records, buffer.out)

\* It is not refused, and no record of it fails.
WalkIsGood ==
    /\ frPc \notin {"refused", "ended"}
    /\ frPc = "admit" /\ frPos > 1 => forwards
    /\ \A i \in DOMAIN answers : answers[i] = 0
    /\ frPc \in Shifting =>
          /\ shift.in + 4 * Words(shift.left) <= shift.end
          /\ frPc = "shift" => shift.out + 2 * Words(shift.left) <= shift.room

\* The walk is at a good record.
LEMMA RecordIsGood ==
    ASSUME FrTypeOK, FrPlace, GoodBuffer, frPos <= Listed
    PROVE  /\ GoodRecord(frRecord) /\ frRecord \in FrRecord
           /\ Rest \in Nat /\ Span <= Rest /\ Supported(frRecord, Rest)
           /\ frPos = 1 => frRecord.kind # "fetch"
           /\ ~TooSmall(frRecord) /\ Checked(frRecord) = 0 /\ ~NoOutput(frRecord)
<1>1. /\ frRecord \in FrRecord /\ Rest \in Int /\ Rest > 0 /\ Span \in Nat
      /\ frPos >= 1 /\ frPos \in Nat /\ frOffset \in Nat
      /\ frOffset + Span = Starts[frPos + 1]
      /\ frRecord.plen \in Nat /\ frRecord.kind \in Kinds /\ frRecord.out \in Nat
      /\ frRecord.room \in Nat
  BY PlaceIs
<1>2. /\ Listed \in Nat /\ Starts \in [1..Listed + 1 -> Nat]
      /\ \A i \in 1..Listed : Starts[i + 1] <= Starts[Listed + 1]
      /\ buffer.length \in Nat /\ buffer.out \in Nat
  BY BufferIs DEF FrTypeOK
<1>3. frPos \in 1..Listed
  BY <1>1, <1>2
<1>4. /\ GoodRecord(frRecord)
      /\ frRecord.kind = "jtag" => Furthest(buffer.out, 8) >= 8 + frRecord.room
      /\ frPos = 1 => frRecord.kind # "fetch"
  BY <1>3 DEF GoodBuffer, GoodRecords, frRecord, Listed
<1>5. Span <= Rest
  <2>1. Starts[frPos + 1] <= buffer.length
    BY <1>2, <1>3 DEF GoodBuffer
  <2>. QED
    BY <1>1, <1>2, <2>1 DEF Rest
<1>6. Supported(frRecord, Rest)
  BY <1>1, <1>4, <1>5, SupportedIs DEF Span
<1>7. TooSmall(frRecord) => frRecord.out < 6
  BY <1>1, <1>6, AdmittedIs
<1>8. Checked(frRecord) \notin {2, 4} /\ Checked(frRecord) \in {0, 2, 4, 8}
  <2>1. Checked(frRecord) \in {0, 2, 4, 8}
    BY DEF Checked
  <2>. QED
    BY <1>1, <1>6, <2>1, AdmittedIs
<1>9. frRecord.out >= 6
  BY <1>4 DEF GoodRecord
<1>10. frRecord.kind \notin {"unknown", "status", "reset"}
  BY <1>6 DEF Supported
<1>11. Checked(frRecord) # 8
  <2>1. frRecord.kind = "reg" => frRecord.addr % 4 = 0
    BY <1>6 DEF Supported, ArgOk
  <2>2. frRecord.kind \in {"enable", "pfreg"} => frRecord.plen >= 6
    BY <1>1, <1>6 DEF Supported, Fewest
  <2>3. Furthest(buffer.out, 8) \in Nat
    BY <1>2 DEF Furthest
  <2>4. frRecord.kind = "jtag" => ~(Furthest(buffer.out, 8) < 8 + frRecord.room)
    BY <1>1, <1>4, <2>3
  <2>. QED
    BY <1>1, <2>1, <2>2, <2>4 DEF Checked
<1>12. ~NoOutput(frRecord)
  BY <1>1, <1>9, <1>10 DEF NoOutput
<1>. QED
  BY <1>1, <1>4, <1>5, <1>6, <1>7, <1>8, <1>9, <1>11, <1>12

LEMMA GoodBufferStays == GoodBuffer /\ FrNext => GoodBuffer' /\ UNCHANGED buffer
<1>1. FrNext => UNCHANGED buffer
  BY DEF FrNext, AdmitRecord, AdmitEnds, MeasureRecord, MeasureEnds, ExecuteRecord, ExecuteEnds,
     BeginShift, ShiftWord, EndShift
<1>. QED
  BY <1>1 DEF GoodBuffer, Listed, Starts, OutSums

LEMMA WalkStaysGood == FrInv /\ GoodBuffer /\ WalkIsGood /\ FrNext => WalkIsGood'
<1>. SUFFICES ASSUME FrInv, GoodBuffer, WalkIsGood, FrNext PROVE WalkIsGood'
  OBVIOUS
<1>1. FrTypeOK /\ FrPlace /\ FrCounted
  BY DEF FrInv
<1>2. /\ frOffset \in Nat /\ frPos \in Nat /\ frPos >= 1 /\ Rest \in Int
      /\ frPc \in Behind => Rest >= 0 /\ (Rest > 0 <=> frPos <= Listed)
      /\ frPos <= Listed => Rest > 0
      /\ answers \in Seq(Nat)
  BY <1>1, PlaceIs DEF FrTypeOK
<1>3. CASE AdmitRecord
  <2>1. frPc = "admit" /\ frPos <= Listed /\ forwards' = (forwards \/ frRecord.kind # "fetch")
        /\ UNCHANGED <<frPc, answers>>
    BY <1>3 DEF AdmitRecord, Listed
  <2>2. frRecord.kind # "fetch" \/ forwards
    <3>1. frPos = 1 => frRecord.kind # "fetch"
      BY <1>1, <2>1, RecordIsGood
    <3>2. frPos = 1 \/ frPos > 1
      BY <1>2
    <3>. QED
      BY <2>1, <3>1, <3>2 DEF WalkIsGood
  <2>3. forwards'
    BY <2>1, <2>2
  <2>. QED
    BY <2>1, <2>3 DEF WalkIsGood, Shifting
<1>4. CASE AdmitEnds
  <2>1. frPc = "admit" /\ Stops /\ frPc' = (IF Structural \/ IsCaptured THEN "measure" ELSE "refused")
        /\ UNCHANGED answers
    BY <1>4 DEF AdmitEnds
  <2>2. ~(frPos <= Listed)
    <3>1. SUFFICES ASSUME frPos <= Listed PROVE FALSE
      OBVIOUS
    <3>2. Rest > 0 /\ Supported(frRecord, Rest)
      BY <1>1, <1>2, <3>1, RecordIsGood
    <3>. QED
      BY <1>2, <2>1, <3>1, <3>2 DEF Stops, Listed
  <2>3. frPos = Listed + 1 /\ Listed \in Nat /\ frOffset = Starts[Listed + 1]
    BY <1>1, <2>2, BufferIs DEF FrPlace, FrTypeOK
  <2>4. Rest = 0 /\ frPos > 1
    BY <1>1, <1>2, <2>3, BufferIs DEF GoodBuffer, Rest, FrTypeOK
  <2>5. Structural
    BY <2>1, <2>4 DEF WalkIsGood, Structural
  <2>. QED
    BY <2>1, <2>5 DEF WalkIsGood, Shifting
<1>5. CASE MeasureRecord
  <2>1. frPc = "measure" /\ Rest > 0 /\ UNCHANGED answers
    BY <1>5 DEF MeasureRecord
  <2>2. frPos <= Listed
    BY <1>2, <2>1 DEF Behind
  <2>3. /\ Span <= Rest /\ frRecord.plen \in Nat /\ frRecord.out \in Nat
        /\ OutSums[frPos + 1] = OutSums[frPos] + frRecord.out
        /\ OutSums[frPos + 1] <= OutSums[Listed + 1]
        /\ OutSums[frPos] \in Nat /\ OutSums[Listed + 1] \in Nat
    BY <1>1, <2>1, <2>2, PlaceIs DEF Behind
  <2>4. ~(Rest < HeaderBytes \/ frRecord.plen > Rest - HeaderBytes)
    BY <1>2, <2>3 DEF Span, HeaderBytes
  <2>5. totalOutput = OutSums[frPos] /\ buffer.out = OutSums[Listed + 1]
    BY <1>1, <2>1 DEF FrCounted, GoodBuffer
  <2>6. ~(frRecord.out > buffer.out - totalOutput)
    BY <2>3, <2>5
  <2>7. frPc' = frPc
    BY <1>5, <2>4, <2>6 DEF MeasureRecord
  <2>. QED
    BY <2>1, <2>7 DEF WalkIsGood, Shifting
<1>6. CASE MeasureEnds
  BY <1>6 DEF MeasureEnds, WalkIsGood, Shifting
<1>7. CASE ExecuteRecord
  <2>1. frPc = "execute" /\ Rest > 0 /\ frPos <= Listed
    BY <1>2, <1>7 DEF ExecuteRecord, Behind
  <2>2. ~TooSmall(frRecord) /\ Checked(frRecord) = 0 /\ ~NoOutput(frRecord)
    BY <1>1, <2>1, RecordIsGood
  <2>3. frPc' = "execute" /\ answers' = Append(answers, 0)
    BY <1>7, <2>1, <2>2 DEF ExecuteRecord, Answered
  <2>4. \A i \in DOMAIN answers' : answers'[i] = 0
    BY <1>2, <2>3 DEF WalkIsGood
  <2>. QED
    BY <2>3, <2>4 DEF WalkIsGood, Shifting
<1>8. CASE ExecuteEnds
  BY <1>8 DEF ExecuteEnds, WalkIsGood, Shifting
<1>9. CASE BeginShift
  <2>. DEFINE r == frRecord
  <2>1. frPc = "execute" /\ Rest > 0 /\ frPos <= Listed /\ Shifts(r) /\ UNCHANGED answers
    BY <1>2, <1>9 DEF BeginShift, Behind
  <2>2. GoodRecord(r) /\ Supported(r, Rest) /\ Rest \in Nat
    BY <1>1, <2>1, RecordIsGood
  <2>3. r.plen \in Nat /\ r.bits \in Nat /\ r.room \in Nat /\ Words(r.bits) \in Nat
    BY <2>2, PlenIs, WordsIs
  <2>4. r.kind \in {"jtag", "jtagWrite"}
    BY <2>1 DEF Shifts
  <2>5. /\ frPc' = (IF r.kind = "jtag" THEN "shift" ELSE "shiftWrite")
        /\ shift'.left = r.bits /\ shift'.out = 8
        /\ shift'.in = Payload + (IF r.kind = "jtag" THEN 12 ELSE 8)
        /\ shift'.end = (IF r.kind = "jtag" THEN buffer.length ELSE Payload + r.plen)
        /\ shift'.room = (IF r.kind = "jtag" THEN 8 + r.room ELSE 8)
    BY <1>9 DEF BeginShift
  <2>6. ShiftFits(r, Rest) /\ (r.kind = "jtag" => r.room >= 2 * Words(r.bits))
    BY <2>2 DEF Supported, GoodRecord
  <2>7. buffer.length \in Nat
    BY <1>1, BufferIs DEF FrTypeOK
  <2>8. /\ shift'.in + 4 * Words(r.bits) <= shift'.end
        /\ r.kind = "jtag" => shift'.out + 2 * Words(r.bits) <= shift'.room
    <3>. DEFINE w == Words(r.bits)
    <3>1. Payload = frOffset + 8 /\ Payload \in Nat /\ Rest = buffer.length - frOffset
      BY <1>2 DEF Payload, Rest, HeaderBytes
    <3>2. w \in Nat
      BY <2>3
    <3>3. CASE r.kind = "jtag"
      <4>1. Rest - 8 - 3 >= 9 + 4 * w /\ r.room >= 2 * w
        BY <2>6, <3>3 DEF ShiftFits, HeaderBytes
      <4>2. /\ shift'.in = Payload + 12 /\ shift'.end = buffer.length
            /\ shift'.out = 8 /\ shift'.room = 8 + r.room
        BY <2>5, <3>3
      <4>. HIDE DEF w
      <4>3. shift'.in + 4 * w <= shift'.end /\ shift'.out + 2 * w <= shift'.room
          <5>1. frOffset \in Int /\ w \in Int /\ r.room \in Int /\ buffer.length \in Int
            BY <1>2, <2>3, <2>7, <3>2
          <5>2. shift'.in = frOffset + 8 + 12 /\ buffer.length - frOffset - 8 - 3 >= 9 + 4 * w
            BY <3>1, <4>1, <4>2
          <5>3. frOffset + 8 + 12 + 4 * w <= buffer.length /\ 8 + 2 * w <= 8 + r.room
            BY <4>1, <5>1, <5>2
          <5>. QED
            BY <4>2, <5>2, <5>3
      <4>. QED
        BY <4>3 DEF w
    <3>4. CASE r.kind = "jtagWrite"
      <4>1. r.plen - 3 >= 5 + 4 * w
        BY <2>6, <3>4 DEF ShiftFits
      <4>2. shift'.in = Payload + 8 /\ shift'.end = Payload + r.plen
        BY <2>5, <3>4
      <4>. HIDE DEF w
      <4>3. shift'.in + 4 * w <= shift'.end
        BY <2>3, <3>1, <3>2, <4>1, <4>2
      <4>. QED
        BY <3>4, <4>3 DEF w
    <3>. QED
      BY <2>4, <3>3, <3>4
  <2>9. Words(shift.left)' = Words(r.bits) /\ (frPc' = "shift" <=> r.kind = "jtag")
        /\ frPc' \in {"shift", "shiftWrite"}
    BY <2>4, <2>5 DEF Words
  <2>. QED
    BY <2>1, <2>8, <2>9 DEF WalkIsGood
<1>10. CASE ShiftWord
  <2>1. frPc \in Shifting /\ shift.left > 0 /\ UNCHANGED <<frPc, answers>>
    BY <1>10 DEF ShiftWord, Shifting
  <2>2. /\ shift.left \in Nat /\ shift.in \in Nat /\ shift.end \in Nat /\ shift.out \in Nat
        /\ shift.room \in Nat
    BY <1>1 DEF FrTypeOK
  <2>3. /\ shift'.in = shift.in + 4 /\ shift'.end = shift.end /\ shift'.room = shift.room
        /\ shift'.left = (IF shift.left >= 16 THEN shift.left - 16 ELSE 0)
        /\ shift'.out = (IF frPc = "shift" THEN shift.out + 2 ELSE shift.out)
    BY <1>1, <1>10 DEF ShiftWord, FrTypeOK
  <2>4. /\ Words(shift.left) \in Nat /\ Words(shift'.left) \in Nat
        /\ Words(shift'.left) <= Words(shift.left) - 1
    <3>1. CASE shift.left >= 16
      BY <2>2, <2>3, <3>1, WordsIs
    <3>2. CASE ~(shift.left >= 16)
      <4>1. shift'.left = 0
        BY <2>3, <3>2
      <4>. QED
        BY <2>1, <2>2, <4>1, WordsIs
    <3>. QED
      BY <3>1, <3>2
  <2>5. /\ shift'.in + 4 * Words(shift'.left) <= shift'.end
        /\ frPc = "shift" => shift'.out + 2 * Words(shift'.left) <= shift'.room
    BY <2>1, <2>2, <2>3, <2>4 DEF WalkIsGood
  <2>6. Words(shift.left)' = Words(shift'.left)
    BY DEF Words
  <2>7. frPc' \notin {"refused", "ended", "admit"}
    BY <2>1 DEF Shifting
  <2>. QED
    BY <2>1, <2>5, <2>6, <2>7 DEF WalkIsGood
<1>11. CASE EndShift
  <2>1. /\ frPc \in Shifting /\ frPc' = "execute"
        /\ shift.left = 0 \/ OutOfWords \/ OutOfRoom
        /\ answers' = Append(answers, IF shift.left = 0 THEN 0 ELSE 4)
    BY <1>11 DEF EndShift, Answered, Shifting
  <2>2. /\ shift.left \in Nat /\ shift.in \in Nat /\ shift.end \in Nat /\ shift.out \in Nat
        /\ shift.room \in Nat
    BY <1>1 DEF FrTypeOK
  <2>3. shift.left = 0
    <3>1. SUFFICES ASSUME shift.left # 0 PROVE FALSE
      OBVIOUS
    <3>2. Words(shift.left) \in Nat /\ Words(shift.left) >= 1
      BY <2>2, <3>1, WordsIs
    <3>3. /\ shift.in + 4 * Words(shift.left) <= shift.end
          /\ frPc = "shift" => shift.out + 2 * Words(shift.left) <= shift.room
      BY <2>1 DEF WalkIsGood
    <3>4. ~(shift.in + 4 > shift.end) /\ (frPc = "shift" => ~(shift.out + 2 > shift.room))
      BY <2>2, <3>2, <3>3
    <3>. QED
      BY <2>1, <3>1, <3>4 DEF OutOfWords, OutOfRoom
  <2>4. \A i \in DOMAIN answers' : answers'[i] = 0
    BY <1>2, <2>1, <2>3 DEF WalkIsGood
  <2>. QED
    BY <2>1, <2>4 DEF WalkIsGood, Shifting
<1>. QED
  BY <1>3, <1>4, <1>5, <1>6, <1>7, <1>8, <1>9, <1>10, <1>11 DEF FrNext
-----------------------------------------------------------------------------
(* A command.                                                               *)

Sends == Len(RequestsOf(command))

DgPlace ==
    /\ dgPc \in {"open", "send", "await", "exit"}
    /\ command \in DiagCommands
    /\ dgHandle <=> dgPc \in {"send", "await"}
    /\ dgPc # "exit" => dgExit = -1 /\ Len(dgAnswers) < Sends
    /\ dgExit = 0 => Len(dgAnswers) = Sends
    /\ dgPc = "await" => Accepted(command)

\* What the tool looks at was returned, and as long as it goes on nothing has failed.
GoodAnswer(a) ==
    /\ command.name # "raw-ioctl" => a.status \notin Rejections
    /\ a.used <= a.returned

DgAnswers ==
    /\ \E S : dgAnswers \in Seq(S)
    /\ \A i \in 1..Len(dgAnswers) : GoodAnswer(dgAnswers[i])
    /\ dgPc # "exit" \/ dgExit = 0 =>
          \A i \in 1..Len(dgAnswers) : dgAnswers[i].status = "success"

\* The driver is at the request that the tool waits for.
PacketIsServed == FrInv /\ GoodBuffer /\ WalkIsGood

RequestIsServed ==
    /\ DpInv /\ request = Arrived(Current)
    /\ dpPc \in {"record", "complete", "done"} =>
          Suits(command, Current, dpStatus, information)

DgDriver ==
    dgPc = "await" => IF IsPacket THEN PacketIsServed ELSE RequestIsServed

DgInv == DgPlace /\ DgAnswers /\ DgDriver

LEMMA CurrentIs ==
    ASSUME DgPlace, DgAnswers, dgPc \in {"send", "await"}, Accepted(command)
    PROVE  /\ Len(dgAnswers) \in Nat
           /\ IsPacket => GoodPacket(Current)
           /\ ~IsPacket => GoodRequest(command, Current)
<1>1. /\ command \in DiagCommands /\ Len(dgAnswers) < Sends
  BY DEF DgPlace
<1>2. Len(dgAnswers) \in Nat
  BY DEF DgAnswers
<1>3. Sends \in Nat /\ \A i \in 1..Sends : Suited(command, RequestsOf(command)[i])
  BY <1>1, RequestsAre DEF Sends
<1>4. Len(dgAnswers) + 1 \in 1..Sends
  BY <1>1, <1>2, <1>3
<1>5. Suited(command, Current)
  BY <1>3, <1>4 DEF Current
<1>. QED
  BY <1>2, <1>5 DEF Suited, IsPacket, GoodRequest

\* The records of a good packet begin in it.
LEMMA PacketIsFramed ==
    ASSUME NEW q, GoodPacket(q)
    PROVE  WellFramed([records |-> q.records, length |-> q.in, out |-> q.out])
<1>. DEFINE records == q.records
            n == Len(records)
<1>1. /\ records \in Seq(FrRecord) /\ n \in Nat /\ q.in \in Nat /\ q.out \in Nat
      /\ q.in = StartsOf(records)[n + 1]
  BY DEF GoodPacket
<1>. HIDE DEF records
<1>2. SumsOf(StartsOf(records), Spans(records), n)
  BY <1>1, StartsAre
<1>3. Spans(records) \in [1..n -> Nat] /\ \A i \in 1..n : records[i] \in FrRecord
  BY <1>1, RecordFields
<1>4. \A i, j \in 1..n + 1 : i <= j => StartsOf(records)[i] <= StartsOf(records)[j]
  BY <1>1, <1>2, <1>3, SumsRise
<1>5. ASSUME NEW i \in 1..n PROVE StartsOf(records)[i] < q.in
  <2>1. i + 1 \in 1..n + 1 /\ n + 1 \in 1..n + 1 /\ i + 1 <= n + 1 /\ i \in 1..n + 1
    BY <1>1
  <2>2. StartsOf(records)[i + 1] <= q.in
    BY <1>1, <1>4, <2>1
  <2>3. StartsOf(records)[i + 1] = StartsOf(records)[i] + (HeaderBytes + records[i].plen)
    BY <1>2 DEF SumsOf, Spans
  <2>4. StartsOf(records)[i] \in Nat /\ records[i].plen \in Nat
    BY <1>2, <1>3, <2>1 DEF SumsOf, FrRecord
  <2>. QED
    BY <1>1, <2>2, <2>3, <2>4 DEF HeaderBytes
<1>. QED
  BY <1>1, <1>5 DEF WellFramed, records

LEMMA OpenKeeps == DgInv /\ (OpenDriver \/ RefuseArguments) => DgInv'
<1>. SUFFICES ASSUME DgInv, OpenDriver \/ RefuseArguments PROVE DgInv'
  OBVIOUS
<1>1. /\ dgPc \in {"open", "send"} /\ dgPc' \in {"send", "exit"}
      /\ UNCHANGED <<command, dgAnswers>>
      /\ dgPc' = "exit" => ~dgHandle' /\ dgExit' \in {1, 2}
      /\ dgPc' = "send" => dgHandle' /\ dgExit' = dgExit
  BY DEF OpenDriver, RefuseArguments, Leave
<1>2. DgPlace'
  BY <1>1 DEF DgInv, DgPlace, Sends
<1>3. DgAnswers'
  BY <1>1 DEF DgInv, DgAnswers, GoodAnswer
<1>. QED
  BY <1>1, <1>2, <1>3 DEF DgInv, DgDriver

LEMMA SendRequestKeeps == DgInv /\ SendRequest => DgInv'
<1>. SUFFICES ASSUME DgInv, SendRequest PROVE DgInv'
  OBVIOUS
<1>1. /\ dgPc = "send" /\ dgPc' = "await" /\ Accepted(command) /\ ~IsPacket
      /\ UNCHANGED <<command, dgHandle, dgAnswers, dgExit>>
      /\ dpPc' = "arrive" /\ request' = Arrived(Current)
      /\ dpStatus' = "invalid request" /\ information' = 0 /\ readEnd' = 0 /\ writeEnd' = 0
  BY DEF SendRequest, Arrived
<1>2. DgPlace /\ DgAnswers
  BY DEF DgInv
<1>3. DgPlace' /\ DgAnswers'
  BY <1>1, <1>2 DEF DgPlace, DgAnswers, Sends, GoodAnswer
<1>4. Arrived(Current) \in AnyRequest
  BY <1>1, <1>2, CurrentIs DEF GoodRequest
<1>5. Arrived(Current).in \in Nat /\ Arrived(Current).out \in Nat
  BY <1>4, RefusedIs
<1>6. DpInv'
  <2>1. /\ request' \in AnyRequest /\ request'.in \in Nat /\ request'.out \in Nat
        /\ information' = 0 /\ readEnd' = 0 /\ writeEnd' = 0 /\ dpPc' = "arrive"
    BY <1>1, <1>4, <1>5
  <2>2. readEnd' <= request'.in /\ writeEnd' <= request'.out /\ information' <= writeEnd'
    BY <2>1
  <2>. QED
    BY <2>1, <2>2 DEF DpInv
<1>7. Current' = Current /\ (IsPacket' <=> IsPacket)
  BY <1>1 DEF Current, IsPacket
<1>8. RequestIsServed'
  BY <1>1, <1>6, <1>7 DEF RequestIsServed
<1>. QED
  BY <1>1, <1>3, <1>7, <1>8 DEF DgInv, DgDriver

LEMMA SendPacketKeeps == DgInv /\ SendPacket => DgInv'
<1>. SUFFICES ASSUME DgInv, SendPacket PROVE DgInv'
  OBVIOUS
<1>1. /\ dgPc = "send" /\ dgPc' = "await" /\ Accepted(command) /\ IsPacket
      /\ UNCHANGED <<command, dgHandle, dgAnswers, dgExit>>
      /\ buffer' = [records |-> Current.records, length |-> Current.in, out |-> Current.out]
      /\ frPc' = "admit" /\ frPos' = 1 /\ frOffset' = 0 /\ forwards' = FALSE
      /\ totalOutput' = 0 /\ outputOffset' = 0 /\ answers' = <<>> /\ readTo' = 0
      /\ shift' = NoShift
  BY DEF SendPacket
<1>2. DgPlace /\ DgAnswers
  BY DEF DgInv
<1>3. DgPlace' /\ DgAnswers'
  BY <1>1, <1>2 DEF DgPlace, DgAnswers, Sends, GoodAnswer
<1>4. GoodPacket(Current)
  BY <1>1, <1>2, CurrentIs
<1>5. FrBegins'
  <2>1. WellFramed(buffer')
    BY <1>1, <1>4, PacketIsFramed
  <2>. QED
    BY <1>1, <2>1 DEF FrBegins
<1>6. FrInv'
  BY <1>5, FrInitially, PTL
<1>7. GoodBuffer'
  <2>1. /\ buffer'.records = Current.records /\ buffer'.length = Current.in
        /\ buffer'.out = Current.out
    BY <1>1
  <2>. QED
    <3>1. /\ Listed' = Len(Current.records) /\ Starts' = StartsOf(Current.records)
          /\ OutSums' = OutsOf(Current.records)
      BY <2>1 DEF Listed, Starts, OutSums
    <3>2. /\ Len(Current.records) \in 1..2
          /\ Current.in = StartsOf(Current.records)[Len(Current.records) + 1]
          /\ Current.out = OutsOf(Current.records)[Len(Current.records) + 1]
          /\ GoodRecords(Current.records, Current.out)
      BY <1>4 DEF GoodPacket
    <3>3. Listed' >= 1
      <4>. DEFINE k == Len(Current.records)
      <4>1. k \in 1..2 /\ Listed' = k
        BY <3>1, <3>2
      <4>. HIDE DEF k
      <4>2. k >= 1
        BY <4>1
      <4>. QED
        BY <4>1, <4>2
    <3>4. buffer'.length = Starts'[Listed' + 1] /\ buffer'.out = OutSums'[Listed' + 1]
      BY <2>1, <3>1, <3>2
    <3>5. GoodRecords(buffer'.records, buffer'.out)
      BY <2>1, <3>2
    <3>. QED
      BY <3>3, <3>4, <3>5 DEF GoodBuffer
<1>8. WalkIsGood'
  BY <1>1 DEF WalkIsGood, Shifting
<1>9. IsPacket' <=> IsPacket
  BY <1>1 DEF Current, IsPacket
<1>. QED
  BY <1>1, <1>3, <1>6, <1>7, <1>8, <1>9 DEF DgInv, DgDriver, PacketIsServed

LEMMA DriverWorksKeeps == DgInv /\ DriverWorks => DgInv'
<1>. SUFFICES ASSUME DgInv, DriverWorks PROVE DgInv'
  OBVIOUS
<1>1. /\ dgPc = "await" /\ UNCHANGED <<dgPc, command, dgHandle, dgAnswers, dgExit>>
      /\ IF IsPacket THEN FrNext ELSE DpNext
  BY DEF DriverWorks, dgVars
<1>2. DgPlace /\ DgAnswers /\ Accepted(command)
  BY <1>1 DEF DgInv, DgPlace
<1>3. DgPlace' /\ DgAnswers'
  BY <1>1, <1>2 DEF DgPlace, DgAnswers, Sends, GoodAnswer
<1>4. Current' = Current /\ (IsPacket' <=> IsPacket)
  BY <1>1 DEF Current, IsPacket
<1>5. ASSUME IsPacket PROVE PacketIsServed'
  BY <1>1, <1>5, FrKeeps, GoodBufferStays, WalkStaysGood DEF DgInv, DgDriver, PacketIsServed
<1>6. ASSUME ~IsPacket PROVE RequestIsServed'
  <2>1. /\ DpInv /\ request = Arrived(Current) /\ DpNext
        /\ dpPc \in {"record", "complete", "done"} =>
              Suits(command, Current, dpStatus, information)
    BY <1>1, <1>6 DEF DgInv, DgDriver, RequestIsServed
  <2>2. DpInv'
    BY <2>1, DpKeeps
  <2>3. GoodRequest(command, Current)
    BY <1>1, <1>2, <1>6, CurrentIs
  <2>4. request' = request
    BY <2>1 DEF DpNext, Arrive, Handle, Record, Complete
  <2>5. ASSUME dpPc' \in {"record", "complete", "done"}
        PROVE  Suits(command, Current, dpStatus', information')
    <3>1. CASE Handle
      <4>1. PICK x \in Handler(request) : dpStatus' = x.status /\ information' = x.info
        BY <3>1 DEF Handle
      <4>. QED
        BY <2>1, <2>3, <4>1 DEF GoodRequest, SuitedAll
    <3>2. CASE Record \/ Complete
      BY <2>1, <3>2 DEF Record, Complete
    <3>3. CASE Arrive
      BY <2>5, <3>3 DEF Arrive
    <3>. QED
      BY <2>1, <3>1, <3>2, <3>3 DEF DpNext
  <2>. QED
    BY <1>1, <1>4, <2>1, <2>2, <2>4, <2>5 DEF RequestIsServed, Suits
<1>. QED
  BY <1>1, <1>3, <1>4, <1>5, <1>6 DEF DgInv, DgDriver

\* The answer the tool gets.
LEMMA AnswerIs ==
    ASSUME DgInv, dgPc = "await",
           IF IsPacket THEN frPc \in {"done", "refused", "ended"} ELSE dpPc = "done"
    PROVE  GoodAnswer(Answer)
<1>1. DgPlace /\ DgAnswers /\ Accepted(command)
  BY DEF DgInv, DgPlace
<1>2. CASE IsPacket
  <2>1. frPc = "done" /\ totalOutput \in Nat
    BY <1>2 DEF DgInv, DgDriver, PacketIsServed, WalkIsGood, FrInv, FrTypeOK
  <2>2. Current.used \in Nat
    BY <1>1, <1>2, CurrentIs DEF GoodPacket
  <2>3. /\ Answer.status = "success" /\ Answer.returned = totalOutput
        /\ Answer.used = IF totalOutput >= Current.used THEN Current.used ELSE 0
    BY <1>2, <2>1 DEF Answer
  <2>4. Answer.used <= Answer.returned
    BY <2>1, <2>2, <2>3
  <2>. QED
    BY <2>3, <2>4 DEF GoodAnswer, Rejections
<1>3. CASE ~IsPacket
  <2>1. information \in Nat /\ Suits(command, Current, dpStatus, information)
    BY <1>3 DEF DgInv, DgDriver, RequestIsServed, DpInv
  <2>2. /\ Answer.status = dpStatus /\ Answer.returned = information
        /\ Answer.used = IF dpStatus # "success" THEN 0
                         ELSE IF Current.used = 0 THEN information ELSE Current.used
    BY <1>3 DEF Answer
  <2>3. Answer.used <= Answer.returned
    BY <2>1, <2>2 DEF Suits
  <2>. QED
    BY <2>1, <2>2, <2>3 DEF GoodAnswer, Suits
<1>. QED
  BY <1>2, <1>3

LEMMA TakeAnswerKeeps == DgInv /\ TakeAnswer => DgInv'
<1>. SUFFICES ASSUME DgInv, TakeAnswer PROVE DgInv'
  OBVIOUS
<1>. DEFINE n == Len(dgAnswers)
<1>1. /\ dgPc = "await" /\ dgAnswers' = Append(dgAnswers, Answer) /\ command' = command
      /\ IF IsPacket THEN frPc \in {"done", "refused", "ended"} ELSE dpPc = "done"
  BY DEF TakeAnswer
<1>2. DgPlace /\ DgAnswers
  BY DEF DgInv
<1>3. GoodAnswer(Answer)
  BY <1>1, AnswerIs
<1>4. PICK S : dgAnswers \in Seq(S)
  BY <1>2 DEF DgAnswers
<1>5. /\ dgAnswers' \in Seq(S \cup {Answer}) /\ n \in Nat /\ Len(dgAnswers') = n + 1
      /\ dgAnswers'[n + 1] = Answer /\ \A i \in 1..n : dgAnswers'[i] = dgAnswers[i]
  BY <1>1, <1>4
<1>6. Sends \in Nat /\ Sends' = Sends /\ n < Sends /\ dgExit = -1 /\ command \in DiagCommands
      /\ dgHandle
  BY <1>1, <1>2, RequestsAre DEF DgPlace, Sends
<1>7. \A i \in 1..n : GoodAnswer(dgAnswers[i]) /\ dgAnswers[i].status = "success"
  BY <1>1, <1>2 DEF DgAnswers
<1>. HIDE DEF n
<1>8. /\ dgPc' \in {"exit", "send"}
      /\ dgPc' = "exit" => ~dgHandle' /\ dgExit' \in {0, 1}
      /\ dgPc' = "exit" /\ dgExit' = 0 => Answer.status = "success" /\ Len(dgAnswers') = Sends
      /\ dgPc' = "send" => /\ Answer.status = "success" /\ Len(dgAnswers') < Sends
                           /\ dgHandle' = dgHandle /\ dgExit' = dgExit
  BY DEF TakeAnswer, Leave, Refusal, Sends
<1>9. DgPlace'
  <2>1. CASE dgPc' = "exit"
    BY <1>1, <1>6, <1>8, <2>1 DEF DgPlace
  <2>2. CASE dgPc' = "send"
    <3>1. /\ dgHandle' = dgHandle /\ dgExit' = -1 /\ Len(dgAnswers') < Sends'
          /\ command' \in DiagCommands
      BY <1>1, <1>6, <1>8, <2>2
    <3>2. dgHandle'
      BY <1>6, <3>1
    <3>. QED
      BY <2>2, <3>1, <3>2 DEF DgPlace
  <2>. QED
    BY <1>8, <2>1, <2>2
<1>10. DgAnswers'
  <2>1. \A i \in 1..n + 1 : i \in 1..n \/ i = n + 1
    BY <1>5
  <2>2. \A i \in 1..Len(dgAnswers') : GoodAnswer(dgAnswers'[i])
    BY <1>3, <1>5, <1>7, <2>1
  <2>3. dgPc' # "exit" \/ dgExit' = 0 =>
           \A i \in 1..Len(dgAnswers') : dgAnswers'[i].status = "success"
    BY <1>5, <1>7, <1>8, <2>1
  <2>. QED
    BY <1>1, <1>5, <2>2, <2>3 DEF DgAnswers, GoodAnswer
<1>. QED
  BY <1>8, <1>9, <1>10 DEF DgInv, DgDriver

\* Tool and driver share no header and yet agree, for every command with any arguments:
\* the driver admits the lengths of every request the tool makes of its own accord, and
\* executes each record of every packet that is replayed; the tool looks at no byte that
\* was not returned, and exits with 0 only if all it asked for has succeeded.
THEOREM DiagIsTruthful == DgSpec => []DiagTruthful
<1>1. DgInit(DiagCommands) => DgInv
  <2>. SUFFICES ASSUME DgInit(DiagCommands) PROVE DgInv
    OBVIOUS
  <2>1. /\ dgPc = "open" /\ command \in DiagCommands /\ dgHandle = FALSE /\ dgAnswers = <<>>
        /\ dgExit = -1
    BY DEF DgInit
  <2>2. Sends \in Nat /\ Sends >= 1
    BY <2>1, RequestsAre DEF Sends
  <2>3. dgAnswers \in Seq({}) /\ Len(dgAnswers) = 0
    BY <2>1
  <2>. QED
    BY <2>1, <2>2, <2>3 DEF DgInv, DgPlace, DgAnswers, DgDriver
<1>2. DgInv /\ [DgNext]_<<dgVars, dpVars, frVars>> => DgInv'
  <2>. SUFFICES ASSUME DgInv, [DgNext]_<<dgVars, dpVars, frVars>> PROVE DgInv'
    OBVIOUS
  <2>1. CASE UNCHANGED <<dgVars, dpVars, frVars>>
    <3>1. UNCHANGED <<dgPc, command, dgHandle, dgAnswers, dgExit>> /\ UNCHANGED <<dpVars, frVars>>
      BY <2>1 DEF dgVars
    <3>2. DgPlace' /\ DgAnswers'
      BY <3>1 DEF DgInv, DgPlace, DgAnswers, Sends, GoodAnswer
    <3>3. Current' = Current /\ (IsPacket' <=> IsPacket)
      BY <3>1 DEF Current, IsPacket
    <3>4. PacketIsServed => PacketIsServed'
      <4>1. FrInv => FrInv'
        BY <3>1, FrKeeps
      <4>2. GoodBuffer => GoodBuffer'
        BY <3>1 DEF frVars, GoodBuffer, Listed, Starts, OutSums
      <4>3. WalkIsGood => WalkIsGood'
        BY <3>1 DEF frVars, WalkIsGood
      <4>. QED
        BY <4>1, <4>2, <4>3 DEF PacketIsServed
    <3>5. RequestIsServed => RequestIsServed'
      <4>1. DpInv => DpInv'
        BY <3>1, DpKeeps
      <4>. QED
        BY <3>1, <3>3, <4>1 DEF RequestIsServed, dpVars
    <3>. QED
      BY <3>1, <3>2, <3>3, <3>4, <3>5 DEF DgInv, DgDriver
  <2>. QED
    BY <2>1, OpenKeeps, SendRequestKeeps, SendPacketKeeps, DriverWorksKeeps, TakeAnswerKeeps
    DEF DgNext
<1>3. DgInv => DiagTruthful
  <2>. SUFFICES ASSUME DgInv PROVE DiagTruthful
    OBVIOUS
  <2>1. DOMAIN dgAnswers = 1..Len(dgAnswers)
    BY DEF DgInv, DgAnswers
  <2>2. dgPc = "await" /\ IsPacket => \A i \in DOMAIN answers : answers[i] = 0
    BY DEF DgInv, DgDriver, PacketIsServed, WalkIsGood
  <2>3. \A i \in 1..Len(dgAnswers) : GoodAnswer(dgAnswers[i])
    BY DEF DgInv, DgAnswers
  <2>4. dgExit = 0 => /\ Len(dgAnswers) = Len(RequestsOf(command))
                      /\ \A i \in DOMAIN dgAnswers : dgAnswers[i].status = "success"
    BY <2>1 DEF DgInv, DgPlace, DgAnswers, Sends
  <2>5. dgHandle <=> dgPc \in {"send", "await"}
    BY DEF DgInv, DgPlace
  <2>. QED
    BY <2>1, <2>2, <2>3, <2>4, <2>5 DEF DiagTruthful, GoodAnswer, Rejections
<1>. QED
  BY <1>1, <1>2, <1>3, PTL DEF DgSpec

-----------------------------------------------------------------------------
(* The hooks of XStream.                                                    *)

HkSpec == HookInit /\ [][HookNext]_hookVars

Apis == {"ioctl", "nt_ioctl", "create", "nt_create", "close"}
Ends == {"done", "warning", "failed", "pending"}
Contents == {"none", "sent", "answer"}
OnTop == {"entered", "returned", "numbered", "writing"}
Call == [thread : Threads, outcome : {"none", "loaded"} \cup Ends]
HookFrame ==
    [api : Apis, id : Nat, step : OnTop \cup {"inside"}, input : Contents, output : Contents,
     seq : Nat, error : {"other", "call"}]
Half == [id : Nat, api : Apis \cup {"header"}, seq : Nat, input : Contents, output : Contents,
         half : {"head", "tail"}]
WalkAt == [slot : 1..Imports, step : {"look", "write", "restore"}, old : BOOLEAN]

\* The frames of a thread: none, a hook, or a hook and that of its Nt function.
Nested(s) ==
    \/ s = <<>>
    \/ Len(s) = 1 /\ s[1].step \in OnTop
    \/ /\ Len(s) = 2 /\ s[1].step = "inside" /\ s[1].api \in {"ioctl", "create"}
       /\ s[1].id = s[2].id /\ s[1].input = "sent" /\ s[2].step \in OnTop
       /\ s[2].api \in {"nt_ioctl", "nt_create"}

HkTypeOK ==
    /\ calls \in Seq(Call)
    /\ frames \in [Threads -> Seq(HookFrame)] /\ \A t \in Threads : Nested(frames[t])
    /\ ioBuffer \in [Threads -> Contents]
    /\ lastError \in [Threads -> {"other", "call"}]
    /\ logSequence \in Nat /\ logLock \in Threads \cup {NoThread}
    /\ traceFile \in Seq(Half)
    /\ unflushed \in 0..FlushEvery - 1

\* Nothing is hooked before XStream runs, and it runs with a log.
HkLaunch ==
    /\ process = "running" => launch = "wait"
    /\ launch \in {"create", "inject", "initialise"} => traceFile = <<>>
    /\ launch \in {"create", "inject", "initialise", "resume"} =>
          /\ calls = <<>> /\ logSequence = 0 /\ logLock = NoThread
          /\ \A t \in Threads : frames[t] = <<>>
    /\ launch \in {"resume", "wait"} \/ calls # <<>> => Len(traceFile) >= 2

In(t) == frames[t] # <<>>

\* Half a record is the one the owner of the lock writes.
HkFile ==
    /\ \A i \in 1..Len(traceFile) :
          /\ traceFile[i].half = HalfAt(i)
          /\ (traceFile[i].api = "header") <=> i \in 1..2
          /\ HalfAt(i) = "tail" => traceFile[i].seq = traceFile[i - 1].seq
    /\ logLock = NoThread => Len(traceFile) % 2 = 0
    /\ logLock # NoThread =>
          /\ Len(traceFile) % 2 = 1 /\ Len(traceFile) > 2
          /\ traceFile[Len(traceFile)] = RecordOf(Top(logLock))
    /\ \A t \in Threads : (In(t) /\ Top(t).step = "writing") <=> logLock = t

\* What a record says of its call.
Truthful(api, output, outcome) ==
    /\ outcome \in FillsBuffer /\ api \notin {"ioctl", "close"} => output = "answer"
    /\ outcome \in FillsBuffer => output # "sent"
    /\ outcome = "failed" => output # "answer"
    /\ outcome = "failed" /\ api = "create" => output = "none"
    /\ outcome = "pending" /\ api = "nt_ioctl" => output = "none"

\* A thread is in the last of its calls.
ThreadAt(t) ==
    LET f == Top(t)  outcome == calls[f.id].outcome IN
    /\ f.id \in 1..Len(calls) /\ calls[f.id].thread = t
    /\ \A n \in 1..Len(calls) : calls[n].thread = t => n <= f.id
    /\ f.input = "sent" /\ outcome # "loaded"
    /\ f.step = "entered" <=> outcome = "none"
    /\ f.step = "entered" => ioBuffer[t] = "sent"
    /\ outcome # "none" => (ioBuffer[t] = "answer" <=> outcome \in FillsBuffer)
    /\ f.step \in {"numbered", "writing"} =>
          f.seq \in 1..logSequence /\ Truthful(f.api, f.output, outcome)
    /\ Len(frames[t]) = 1 /\ f.api \in Win32 /\ outcome \in {"warning", "failed", "pending"} =>
          f.error = "call"

HkThreads == \A t \in Threads : In(t) => ThreadAt(t)

Recorded == {i \in 1..Len(traceFile) : RecordAt(i)}

\* Each record is of a call that has returned.
HkRecords ==
    \A i \in Recorded :
        LET r == traceFile[i] IN
        /\ r.id \in 1..Len(calls) /\ calls[r.id].outcome \in Ends
        /\ r.seq \in 1..logSequence /\ r.api # "header" /\ r.input = "sent"
        /\ Truthful(r.api, r.output, calls[r.id].outcome)

\* A thread that is about to write has a number of its own, and the call has a record
\* only from the function inside.
Numbered(t) == In(t) /\ Top(t).step = "numbered"
OwnAt(t) ==
    \A i \in Recorded :
        /\ Numbered(t) =>
              /\ traceFile[i].seq # Top(t).seq
              /\ calls[traceFile[i].id].thread = t => traceFile[i].seq < Top(t).seq
        /\ In(t) /\ traceFile[i].id = Top(t).id /\ ~(logLock = t /\ i = Len(traceFile)) =>
              /\ Len(frames[t]) = 1 /\ Top(t).api \in {"ioctl", "create"}
              /\ Top(t).step # "entered"

HkOwn == \A t \in Threads : OwnAt(t)

HkApart ==
    \A t, u \in Threads : t # u /\ Numbered(t) /\ Numbered(u) => Top(t).seq # Top(u).seq

HkOrdered ==
    \A i, j \in Recorded : i < j =>
        LET r == traceFile[i]  s == traceFile[j] IN
        /\ r.seq # s.seq
        /\ calls[r.id].thread = calls[s.id].thread => r.seq < s.seq /\ r.id <= s.id
        /\ r.id = s.id => s.api \in {"ioctl", "create"}

HkNumbers ==
    \A n \in 1..logSequence :
        \/ \E i \in 1..Len(traceFile) : traceFile[i].seq = n
        \/ \E t \in Threads : Numbered(t) /\ Top(t).seq = n

\* ErrorForwarded, for a thread behind its last call.
HkErrors ==
    \A n \in 1..Len(calls) :
        LET t == calls[n].thread IN
        /\ calls[n].outcome \in {"warning", "failed", "pending"} /\ ~In(t)
        /\ \A m \in 1..Len(calls) : calls[m].thread = t => m <= n
        /\ \E i \in Recorded : traceFile[i].id = n /\ traceFile[i].api \in Win32
        => lastError[t] = "call"

LogInv ==
    /\ HkTypeOK /\ HkLaunch /\ HkFile /\ HkThreads /\ HkRecords /\ HkOwn /\ HkApart
    /\ HkOrdered /\ HkNumbers /\ HkErrors

\* While a module is half patched, a thread patches it and will not fault, unless
\* another, which does not either, gets ahead of it.
Guides(t) == walk[t].step = "write" => writable
HkPatch ==
    /\ slots \in [1..Imports -> BOOLEAN] /\ writable \in BOOLEAN
    /\ walk \in [Threads -> WalkAt \cup {<<>>}]
    /\ \A t \in Threads : walk[t] # <<>> =>
          /\ \A i \in 1..walk[t].slot - 1 : slots[i]
          /\ walk[t].step = "restore" => slots[walk[t].slot]
    /\ (\E i \in 1..Imports : slots[i]) /\ (\E i \in 1..Imports : ~slots[i]) =>
          \E t \in Threads : walk[t] # <<>> /\ Guides(t)

-----------------------------------------------------------------------------
LEMMA NoWalk == \A w \in WalkAt : w # <<>>
BY DEF WalkAt

LEMMA OnwardIs ==
    ASSUME NEW t \in Threads, walk[t].slot # Imports, Onward(t)
    PROVE  walk' = [walk EXCEPT ![t] = [walk[t] EXCEPT !.slot = @ + 1, !.step = "look"]]
<1>. DEFINE w == [walk[t] EXCEPT !.slot = @ + 1, !.step = "look"]
<1>1. walk' = [walk EXCEPT ![t] = IF walk[t].slot = Imports THEN <<>> ELSE w]
  BY DEF Onward
<1>. HIDE DEF w
<1>2. (IF walk[t].slot = Imports THEN <<>> ELSE w) = w
  OBVIOUS
<1>3. walk' = [walk EXCEPT ![t] = w]
  BY <1>1, <1>2, Zenon
<1>. QED
  BY <1>3 DEF w

LEMMA PatchInit == HookInit => HkPatch
BY DEF HookInit, HkPatch

LEMMA PatchStays ==
    ASSUME HkPatch, UNCHANGED patchVars
    PROVE  HkPatch'
BY DEF HkPatch, patchVars, Guides

LEMMA PatchStep == HkPatch /\ [HookNext]_hookVars => HkPatch'
<1>. SUFFICES ASSUME HkPatch, [HookNext]_hookVars PROVE HkPatch'
  OBVIOUS
<1>1. CASE UNCHANGED patchVars
  BY <1>1, PatchStays
<1>2. ASSUME NEW t \in Threads, LoadLibrary(t) PROVE HkPatch'
  <2>1. 1 \in 1..Imports
    BY HookAssumption
  <2>. QED
    BY <1>2, <2>1 DEF LoadLibrary, HkPatch, WalkAt, Guides
<1>3. ASSUME NEW t \in Threads, LookSlot(t) PROVE HkPatch'
  <2>1. /\ walk[t] \in WalkAt /\ walk[t].step = "look" /\ walk[t].slot \in 1..Imports
        /\ slots' = slots
    BY <1>3 DEF LookSlot, Walking, HkPatch, WalkAt
  <2>2. CASE slots[walk[t].slot] /\ walk[t].slot = Imports
    <3>1. \A i \in 1..Imports : slots[i]
      BY <1>3, <2>1, <2>2, HookAssumption DEF HkPatch, LookSlot, Walking
    <3>. QED
      BY <1>3, <2>1, <2>2, <3>1 DEF LookSlot, Onward, HkPatch
  <2>3. CASE slots[walk[t].slot] /\ walk[t].slot # Imports
    <3>. DEFINE w == [walk[t] EXCEPT !.slot = @ + 1, !.step = "look"]
    <3>0. walk[t].slot + 1 \in 1..Imports
      BY <2>1, <2>3, HookAssumption
    <3>1. /\ w \in WalkAt /\ w.slot = walk[t].slot + 1 /\ w.step = "look"
      BY <2>1, <3>0 DEF WalkAt
    <3>2. walk' = [walk EXCEPT ![t] = w] /\ writable' = writable
      BY <1>3, <2>1, <2>3, OnwardIs DEF LookSlot
    <3>3. \A i \in 1..w.slot - 1 : slots[i]
      BY <1>3, <2>1, <2>3, <3>1 DEF HkPatch, LookSlot, Walking
    <3>. HIDE DEF w
    <3>4. walk'[t] = w /\ \A u \in Threads : u # t => walk'[u] = walk[u]
      BY <3>2 DEF HkPatch
    <3>5. w # <<>>
      BY <3>1, NoWalk
    <3>6. walk' \in [Threads -> WalkAt \cup {<<>>}]
      BY <3>1, <3>2 DEF HkPatch
    <3>. QED
      BY <2>1, <3>1, <3>2, <3>3, <3>4, <3>5, <3>6 DEF HkPatch, Guides
  <2>4. CASE ~slots[walk[t].slot]
    <3>. DEFINE w == [walk[t] EXCEPT !.step = "write", !.old = writable]
    <3>1. w \in WalkAt /\ w.slot = walk[t].slot /\ w.step = "write"
      BY <2>1 DEF WalkAt, HkPatch
    <3>2. walk' = [walk EXCEPT ![t] = w] /\ writable' = TRUE
      BY <1>3, <2>4 DEF LookSlot, HkPatch
    <3>3. \A i \in 1..w.slot - 1 : slots[i]
      BY <1>3, <3>1 DEF HkPatch, LookSlot, Walking
    <3>. HIDE DEF w
    <3>4. walk'[t] = w /\ \A u \in Threads : u # t => walk'[u] = walk[u]
      BY <3>2 DEF HkPatch
    <3>5. w # <<>>
      BY <3>1, NoWalk
    <3>6. walk' \in [Threads -> WalkAt \cup {<<>>}]
      BY <3>1, <3>2 DEF HkPatch
    <3>. QED
      BY <2>1, <3>1, <3>2, <3>3, <3>4, <3>5, <3>6 DEF HkPatch, Guides
  <2>. QED
    BY <2>2, <2>3, <2>4
<1>4. ASSUME NEW t \in Threads, WriteSlot(t) PROVE HkPatch'
  <2>1. /\ walk[t] \in WalkAt /\ walk[t] # <<>> /\ walk[t].step = "write"
        /\ walk[t].slot \in 1..Imports /\ writable' = writable
    BY <1>4 DEF WriteSlot, Walking, HkPatch, WalkAt
  <2>2. CASE writable
    <3>. DEFINE w == [walk[t] EXCEPT !.step = "restore"]
    <3>1. w \in WalkAt /\ w.slot = walk[t].slot /\ w.step = "restore"
      BY <2>1 DEF WalkAt
    <3>2. walk' = [walk EXCEPT ![t] = w] /\ slots' = [slots EXCEPT ![w.slot] = TRUE]
      BY <1>4, <2>2, <3>1 DEF WriteSlot
    <3>3. \A i \in 1..w.slot - 1 : slots[i]
      BY <2>1, <3>1 DEF HkPatch
    <3>. HIDE DEF w
    <3>4. walk'[t] = w /\ \A u \in Threads : u # t => walk'[u] = walk[u]
      BY <3>2 DEF HkPatch
    <3>5. w # <<>> /\ w.slot \in 1..Imports
      BY <2>1, <3>1, NoWalk
    <3>6. walk' \in [Threads -> WalkAt \cup {<<>>}]
      BY <3>1, <3>2 DEF HkPatch
    <3>7. /\ slots' \in [1..Imports -> BOOLEAN] /\ slots'[w.slot]
          /\ \A i \in 1..Imports : slots[i] => slots'[i]
      BY <3>2, <3>5 DEF HkPatch
    <3>8. ASSUME NEW u \in Threads, walk'[u] # <<>>
          PROVE  /\ \A i \in 1..walk'[u].slot - 1 : slots'[i]
                 /\ walk'[u].step = "restore" => slots'[walk'[u].slot]
      <4>1. walk'[u] \in WalkAt /\ walk'[u].slot \in 1..Imports
        BY <3>6, <3>8 DEF WalkAt
      <4>. QED
        BY <3>1, <3>3, <3>4, <3>5, <3>7, <3>8, <4>1, HookAssumption DEF HkPatch
    <3>. QED
      BY <2>1, <3>1, <3>4, <3>5, <3>6, <3>7, <3>8 DEF HkPatch, Guides
  <2>3. CASE ~writable
    <3>1. walk' = [walk EXCEPT ![t] = <<>>] /\ slots' = slots
      BY <1>4, <2>3 DEF WriteSlot
    <3>. QED
      BY <2>1, <2>3, <3>1 DEF HkPatch, Guides
  <2>. QED
    BY <2>2, <2>3
<1>5. ASSUME NEW t \in Threads, RestorePage(t) PROVE HkPatch'
  <2>1. /\ walk[t] \in WalkAt /\ walk[t] # <<>> /\ walk[t].step = "restore"
        /\ walk[t].slot \in 1..Imports /\ slots' = slots
        /\ writable' = walk[t].old /\ writable' \in BOOLEAN
    BY <1>5 DEF RestorePage, Walking, HkPatch, WalkAt
  <2>2. CASE walk[t].slot = Imports
    <3>1. \A i \in 1..Imports : slots[i]
      BY <2>1, <2>2, HookAssumption DEF HkPatch
    <3>2. walk' = [walk EXCEPT ![t] = <<>>]
      BY <1>5, <2>2 DEF RestorePage, Onward
    <3>. QED
      BY <2>1, <3>1, <3>2 DEF HkPatch
  <2>3. CASE walk[t].slot # Imports
    <3>. DEFINE w == [walk[t] EXCEPT !.slot = @ + 1, !.step = "look"]
    <3>0. walk[t].slot + 1 \in 1..Imports
      BY <2>1, <2>3, HookAssumption
    <3>1. w \in WalkAt /\ w.slot = walk[t].slot + 1 /\ w.step = "look"
      BY <2>1, <3>0 DEF WalkAt
    <3>2. walk' = [walk EXCEPT ![t] = w]
      BY <1>5, <2>1, <2>3, OnwardIs DEF RestorePage
    <3>3. \A i \in 1..w.slot - 1 : slots[i]
      BY <2>1, <3>1 DEF HkPatch
    <3>. HIDE DEF w
    <3>4. walk'[t] = w /\ \A u \in Threads : u # t => walk'[u] = walk[u]
      BY <3>2 DEF HkPatch
    <3>5. w # <<>>
      BY <3>1, NoWalk
    <3>6. walk' \in [Threads -> WalkAt \cup {<<>>}]
      BY <3>1, <3>2 DEF HkPatch
    <3>. QED
      BY <2>1, <3>1, <3>2, <3>3, <3>4, <3>5, <3>6 DEF HkPatch, Guides
  <2>. QED
    BY <2>2, <2>3
<1>. QED
  BY <1>1, <1>2, <1>3, <1>4, <1>5 DEF HookNext, hookVars, Launcher, LauncherFails,
     CreateSuspended, LoadHook, InitializeXStreamTrace, Resume, Collect, HookedCall, Enter,
     EnterInside, RealCall, NumberRecord, EnterLog, LeaveLog, PatchModule, Exit

-----------------------------------------------------------------------------
LEMMA Parity ==
    ASSUME NEW n \in Nat
    PROVE  /\ n % 2 \in {0, 1}
           /\ n % 2 = 0 => (n + 1) % 2 = 1
           /\ n % 2 = 1 => (n + 1) % 2 = 0
OBVIOUS

\* What the file is like with another half of a record.
LEMMA FileGrows ==
    ASSUME traceFile \in Seq(Half), NEW h \in Half, traceFile' = Append(traceFile, h)
    PROVE  /\ traceFile' \in Seq(Half)
           /\ Len(traceFile) \in Nat /\ Len(traceFile') = Len(traceFile) + 1
           /\ \A i \in 1..Len(traceFile) : traceFile'[i] = traceFile[i]
           /\ traceFile'[Len(traceFile')] = h
           /\ Len(traceFile) % 2 = 1 => Recorded' = Recorded /\ Len(traceFile') % 2 = 0
           /\ Len(traceFile) % 2 = 0 /\ Len(traceFile) >= 2 =>
                 Recorded' = Recorded \cup {Len(traceFile')} /\ Len(traceFile') % 2 = 1
<1>1. /\ Len(traceFile) \in Nat /\ Len(traceFile') = Len(traceFile) + 1
      /\ traceFile' \in Seq(Half)
      /\ \A i \in 1..Len(traceFile) : traceFile'[i] = traceFile[i]
      /\ traceFile'[Len(traceFile) + 1] = h
  OBVIOUS
<1>. DEFINE n == Len(traceFile)
<1>2. Recorded = {i \in 1..n : i % 2 = 1 /\ i > 1}
  BY DEF Recorded, RecordAt
<1>3. Recorded' = {i \in 1..n + 1 : i % 2 = 1 /\ i > 1}
  BY <1>1 DEF Recorded, RecordAt
<1>4. n \in Nat
  BY <1>1
<1>. HIDE DEF n
<1>5. CASE n % 2 = 1
  BY <1>2, <1>3, <1>4, <1>5, Parity, <1>1 DEF n
<1>6. CASE n % 2 = 0 /\ n >= 2
  <2>1. (n + 1) % 2 = 1
    BY <1>4, <1>6, Parity
  <2>2. Recorded' = Recorded \cup {n + 1}
    BY <1>2, <1>3, <1>4, <1>6, <2>1
  <2>. QED
    BY <1>1, <1>6, <2>1, <2>2, Parity DEF n
<1>. QED
  BY <1>1, <1>5, <1>6, Parity DEF n

\* The frames of the other threads.
Others(t) == \A u \in Threads : u # t => frames'[u] = frames[u]

LEMMA TopIs ==
    ASSUME HkTypeOK, NEW t \in Threads, In(t)
    PROVE  /\ frames[t] \in Seq(HookFrame) /\ Top(t) \in HookFrame /\ Top(t).step \in OnTop
           /\ Len(frames[t]) \in {1, 2}
           /\ Len(frames[t]) = 1 => frames[t] = <<Top(t)>>
           /\ Len(frames[t]) = 2 => frames[t][2] = Top(t)
<1>1. frames[t] \in Seq(HookFrame) /\ Nested(frames[t]) /\ frames[t] # <<>>
  BY DEF HkTypeOK, In
<1>2. CASE Len(frames[t]) = 1
  BY <1>1, <1>2 DEF Nested, Top
<1>3. CASE Len(frames[t]) = 2
  BY <1>1, <1>3 DEF Nested, Top
<1>. QED
  BY <1>1, <1>2, <1>3 DEF Nested

LEMMA TopSet ==
    ASSUME HkTypeOK, NEW t \in Threads, In(t), NEW f \in HookFrame, SetTop(t, f),
           f.step \in OnTop, f.id = Top(t).id, f.api = Top(t).api
    PROVE  /\ frames' \in [Threads -> Seq(HookFrame)] /\ \A u \in Threads : Nested(frames'[u])
           /\ Others(t) /\ In(t)' /\ Top(t)' = f /\ Len(frames'[t]) = Len(frames[t])
<1>. DEFINE n == Len(frames[t])
            s == [frames[t] EXCEPT ![n] = f]
<1>1. /\ frames[t] \in Seq(HookFrame) /\ n \in {1, 2} /\ Nested(frames[t])
  BY TopIs DEF HkTypeOK
<1>2. frames' = [frames EXCEPT ![t] = s]
  BY DEF SetTop
<1>0. n \in Nat /\ n \in 1..n
  <2>. HIDE DEF n
  <2>. QED
    BY <1>1
<1>3. s \in Seq(HookFrame) /\ Len(s) = n /\ s[n] = f /\ (n = 2 => s[1] = frames[t][1])
  <2>. DEFINE q == frames[t]
  <2>0. q \in Seq(HookFrame) /\ n = Len(q)
    BY <1>1
  <2>. HIDE DEF q, n
  <2>1. q \in Seq(HookFrame) /\ q \in [1..n -> HookFrame] /\ n \in 1..n /\ n \in Nat
        /\ n = Len(q)
    BY <1>0, <2>0
  <2>2. [q EXCEPT ![n] = f] \in Seq(HookFrame) /\ Len([q EXCEPT ![n] = f]) = n
    BY <2>1, ExceptSeq
  <2>3. [q EXCEPT ![n] = f][n] = f /\ (n = 2 => [q EXCEPT ![n] = f][1] = q[1])
    BY <2>1, <1>1
  <2>. QED
    BY <2>2, <2>3 DEF q
<1>. HIDE DEF s
<1>4. frames'[t] = s /\ \A u \in Threads : u # t => frames'[u] = frames[u]
  BY <1>2 DEF HkTypeOK
<1>5. frames' \in [Threads -> Seq(HookFrame)]
  BY <1>2, <1>3 DEF HkTypeOK
<1>6. Nested(s)
  BY <1>1, <1>3, TopIs DEF Nested, Top
<1>7. Top(t)' = f /\ In(t)' /\ Len(frames'[t]) = n
  BY <1>1, <1>3, <1>4 DEF Top, In
<1>. QED
  BY <1>4, <1>5, <1>6, <1>7 DEF HkTypeOK, Others

-----------------------------------------------------------------------------
(* What no step undoes.                                                     *)

\* A call that has returned stays as it is, and nothing happens to a thread by what another
\* does.
CallsGrow ==
    /\ Len(calls) <= Len(calls')
    /\ \A n \in 1..Len(calls) :
          /\ calls'[n].thread = calls[n].thread
          /\ calls[n].outcome \in Ends => calls'[n] = calls[n]
LeftAlone(t) ==
    \A u \in Threads : u # t =>
        /\ frames'[u] = frames[u] /\ ioBuffer'[u] = ioBuffer[u] /\ lastError'[u] = lastError[u]
        /\ \A n \in 1..Len(calls') : calls'[n].thread = u =>
              n \in 1..Len(calls) /\ calls'[n] = calls[n]
Acts(t) ==
    /\ HkTypeOK' /\ CallsGrow /\ LeftAlone(t) /\ logSequence <= logSequence'

LEMMA OthersKeep ==
    ASSUME LogInv, NEW t \in Threads, Acts(t)
    PROVE  \A u \in Threads : u # t /\ In(u)' => In(u) /\ Top(u)' = Top(u) /\ ThreadAt(u)'
<1>. SUFFICES ASSUME NEW u \in Threads, u # t, In(u)'
              PROVE  In(u) /\ Top(u)' = Top(u) /\ ThreadAt(u)'
  OBVIOUS
<1>1. In(u) /\ Top(u)' = Top(u) /\ Len(frames'[u]) = Len(frames[u]) /\ ThreadAt(u)
  BY DEF In, Top, Acts, LeftAlone, LogInv, HkThreads
<1>2. ioBuffer'[u] = ioBuffer[u] /\ \A n \in 1..Len(calls') : calls'[n].thread = u =>
         n \in 1..Len(calls) /\ calls'[n] = calls[n]
  BY DEF Acts, LeftAlone
<1>3. Len(calls) \in Nat /\ Len(calls') \in Nat /\ logSequence \in Nat /\ logSequence' \in Nat
      /\ logSequence <= logSequence' /\ Len(calls) <= Len(calls')
  BY DEF Acts, CallsGrow, LogInv, HkTypeOK
<1>. DEFINE f == Top(u)
<1>4. f.id \in 1..Len(calls) /\ f.id \in 1..Len(calls') /\ calls[f.id].thread = u
  BY <1>1, <1>3 DEF ThreadAt
<1>5. calls'[f.id].thread = u
  BY <1>4 DEF Acts, CallsGrow
<1>6. calls'[f.id] = calls[f.id]
  BY <1>2, <1>4, <1>5
<1>7. \A n \in 1..Len(calls') : calls'[n].thread = u => n <= f.id
  BY <1>1, <1>2 DEF ThreadAt
<1>. QED
  BY <1>1, <1>2, <1>3, <1>4, <1>6, <1>7 DEF ThreadAt

LEMMA RecordsKeep ==
    ASSUME LogInv, NEW t \in Threads, Acts(t), NEW i \in Recorded
    PROVE  LET r == traceFile[i] IN
           /\ r.id \in 1..Len(calls) /\ r.id \in 1..Len(calls') /\ calls'[r.id] = calls[r.id]
           /\ calls'[r.id].outcome \in Ends
           /\ r.seq \in 1..logSequence /\ r.seq \in 1..logSequence'
           /\ r.api # "header" /\ r.input = "sent"
           /\ Truthful(r.api, r.output, calls'[r.id].outcome)
<1>. DEFINE r == traceFile[i]
<1>1. /\ r.id \in 1..Len(calls) /\ calls[r.id].outcome \in Ends
      /\ r.seq \in 1..logSequence /\ r.api # "header" /\ r.input = "sent"
      /\ Truthful(r.api, r.output, calls[r.id].outcome)
  BY DEF LogInv, HkRecords
<1>2. Len(calls) \in Nat /\ Len(calls') \in Nat /\ logSequence \in Nat /\ logSequence' \in Nat
      /\ logSequence <= logSequence' /\ Len(calls) <= Len(calls')
  BY DEF Acts, CallsGrow, LogInv, HkTypeOK
<1>. HIDE DEF r
<1>3. calls'[r.id] = calls[r.id]
  BY <1>1 DEF Acts, CallsGrow
<1>4. r.id \in 1..Len(calls') /\ r.seq \in 1..logSequence'
  BY <1>1, <1>2
<1>. QED
  BY <1>1, <1>3, <1>4 DEF r

\* A step of a thread that leaves the file alone.
LEMMA Unwritten ==
    ASSUME LogInv, NEW t \in Threads, Acts(t), launch = "wait",
           UNCHANGED <<launch, process, traceFile, logLock>>,
           In(t) => Top(t).step # "writing",
           In(t)' => Top(t)'.step # "writing" /\ ThreadAt(t)' /\ OwnAt(t)',
           ~Numbered(t),
           \/ logSequence' = logSequence /\ ~Numbered(t)'
           \/ /\ logSequence' = logSequence + 1 /\ Numbered(t)'
              /\ Top(t)'.seq = logSequence + 1,
           \/ In(t)'
           \/ calls'[Len(calls')].thread = t /\ calls'[Len(calls')].outcome = "loaded"
    PROVE  LogInv'
<1>1. HkTypeOK' /\ Others(t)
  BY DEF Acts, LeftAlone, Others
<1>2. /\ Len(calls) \in Nat /\ Len(calls') \in Nat /\ logSequence \in Nat /\ logSequence' \in Nat
      /\ logSequence <= logSequence' /\ Len(calls) <= Len(calls')
  BY DEF Acts, CallsGrow, LogInv, HkTypeOK
<1>3. \A u \in Threads : u # t =>
         (In(u)' <=> In(u)) /\ Top(u)' = Top(u) /\ (Numbered(u)' <=> Numbered(u))
  BY <1>1 DEF Others, In, Top, Numbered
<1>4. HkLaunch'
  BY DEF LogInv, HkLaunch
<1>5. logLock # t /\ Recorded' = Recorded
  BY DEF LogInv, HkFile, Recorded
<1>6. HkFile'
  <2>1. logLock # NoThread => logLock \in Threads /\ Top(logLock)' = Top(logLock)
    BY <1>3, <1>5 DEF LogInv, HkTypeOK
  <2>2. logLock # NoThread => RecordOf(Top(logLock))' = RecordOf(Top(logLock))
    BY <2>1 DEF RecordOf
  <2>3. \A u \in Threads : (In(u)' /\ Top(u)'.step = "writing") <=> logLock = u
    BY <1>3, <1>5 DEF LogInv, HkFile
  <2>. QED
    BY <2>2, <2>3 DEF LogInv, HkFile
<1>7. HkThreads'
  BY OthersKeep DEF HkThreads
<1>8. HkRecords'
  BY <1>5, RecordsKeep DEF HkRecords
<1>9. HkOwn'
  <2>1. OwnAt(t)'
    <3>1. CASE In(t)'
      BY <3>1
    <3>2. CASE ~In(t)'
      BY <3>2 DEF OwnAt, Numbered
    <3>. QED
      BY <3>1, <3>2
  <2>2. ASSUME NEW u \in Threads, u # t PROVE OwnAt(u)'
    <3>1. OwnAt(u) /\ (In(u)' <=> In(u)) /\ Top(u)' = Top(u) /\ (Numbered(u)' <=> Numbered(u))
          /\ frames'[u] = frames[u]
      BY <1>1, <1>3, <2>2 DEF LogInv, HkOwn, Others
    <3>2. \A i \in Recorded : calls'[traceFile[i].id] = calls[traceFile[i].id]
      BY RecordsKeep
    <3>. QED
      BY <1>5, <3>1, <3>2 DEF OwnAt
  <2>. QED
    BY <2>1, <2>2 DEF HkOwn
<1>10. HkApart'
  <2>1. ASSUME NEW u \in Threads, u # t, Numbered(u)' PROVE Top(u)'.seq <= logSequence
    <3>1. In(u) /\ Top(u)' = Top(u) /\ Top(u).step = "numbered"
      BY <1>3, <2>1 DEF Numbered
    <3>2. Top(u).seq \in 1..logSequence
      BY <3>1 DEF LogInv, HkThreads, ThreadAt
    <3>. QED
      BY <1>2, <3>1, <3>2
  <2>2. ASSUME NEW u \in Threads, u # t, Numbered(t)', Numbered(u)'
        PROVE  Top(u)'.seq # Top(t)'.seq
    <3>1. Top(t)'.seq = logSequence + 1
      BY <2>2
    <3>2. Top(u)'.seq \in Nat /\ Top(u)'.seq <= logSequence
      BY <1>1, <2>1, <2>2, <1>3, TopIs DEF Numbered, LogInv, HookFrame
    <3>. QED
      BY <1>2, <3>1, <3>2
  <2>3. ASSUME NEW u \in Threads, NEW v \in Threads, u # t, v # t, u # v, Numbered(u)', Numbered(v)'
        PROVE  Top(u)'.seq # Top(v)'.seq
    BY <1>3, <2>3 DEF LogInv, HkApart
  <2>. QED
    BY <2>2, <2>3 DEF HkApart
<1>11. HkOrdered'
  <2>1. \A i \in Recorded : calls'[traceFile[i].id] = calls[traceFile[i].id]
    BY RecordsKeep
  <2>. QED
    BY <1>5, <2>1 DEF LogInv, HkOrdered
<1>12. HkNumbers'
  <2>. SUFFICES ASSUME NEW n \in 1..logSequence'
                PROVE  \/ \E i \in 1..Len(traceFile') : traceFile'[i].seq = n
                       \/ \E u \in Threads : Numbered(u)' /\ Top(u)'.seq = n
    BY DEF HkNumbers
  <2>1. CASE n \in 1..logSequence
    <3>1. CASE \E i \in 1..Len(traceFile) : traceFile[i].seq = n
      BY <3>1
    <3>2. CASE \E u \in Threads : Numbered(u) /\ Top(u).seq = n
      BY <1>3, <3>2
    <3>. QED
      BY <2>1, <3>1, <3>2 DEF LogInv, HkNumbers
  <2>2. CASE n \notin 1..logSequence
    <3>1. n = logSequence + 1 /\ Numbered(t)' /\ Top(t)'.seq = n
      BY <1>2, <2>2
    <3>. QED
      BY <3>1
  <2>. QED
    BY <2>1, <2>2
<1>13. HkErrors'
  <2>. SUFFICES
         ASSUME NEW n \in 1..Len(calls'), NEW u \in Threads, u = calls'[n].thread,
                calls'[n].outcome \in {"warning", "failed", "pending"}, ~In(u)',
                \A m \in 1..Len(calls') : calls'[m].thread = u => m <= n,
                NEW i \in Recorded, traceFile[i].id = n, traceFile[i].api \in Win32
         PROVE  lastError'[u] = "call"
    <3>1. \A m \in 1..Len(calls') : calls'[m].thread \in Threads
      <4>1. calls' \in Seq(Call)
        BY <1>1 DEF HkTypeOK
      <4>2. \A m \in 1..Len(calls') : calls'[m] \in Call
        BY <4>1
      <4>. QED
        BY <4>2 DEF Call
    <3>. QED
      BY <1>5, <3>1 DEF HkErrors
  <2>1. u # t
    <3>1. SUFFICES ASSUME u = t PROVE FALSE
      OBVIOUS
    <3>2. calls'[Len(calls')].thread = u /\ calls'[Len(calls')].outcome = "loaded"
      BY <3>1
    <3>3. Len(calls') \in 1..Len(calls') /\ n <= Len(calls') /\ n \in Nat
      BY <1>2
    <3>4. n = Len(calls')
      BY <1>2, <3>2, <3>3
    <3>. QED
      BY <3>2, <3>4
  <2>2. n \in 1..Len(calls) /\ calls'[n] = calls[n] /\ lastError'[u] = lastError[u] /\ ~In(u)
    BY <2>1, <1>3 DEF Acts, LeftAlone
  <2>3. \A m \in 1..Len(calls) : calls[m].thread = u => m <= n
    BY <1>2 DEF Acts, CallsGrow
  <2>. QED
    BY <2>2, <2>3 DEF LogInv, HkErrors
<1>. QED
  BY <1>1, <1>4, <1>6, <1>7, <1>8, <1>9, <1>10, <1>11, <1>12, <1>13 DEF LogInv

-----------------------------------------------------------------------------
(* The steps of a call, up to its record.                                   *)

\* The call a thread is in.
LEMMA CallIs ==
    ASSUME LogInv, NEW t \in Threads, In(t)
    PROVE  /\ Top(t).id \in 1..Len(calls) /\ calls[Top(t).id] \in Call
           /\ Len(calls) \in Nat /\ ThreadAt(t) /\ OwnAt(t)
<1>1. calls \in Seq(Call) /\ Len(calls) \in Nat /\ ThreadAt(t) /\ OwnAt(t)
  BY DEF LogInv, HkTypeOK, HkThreads, HkOwn
<1>2. Top(t).id \in 1..Len(calls)
  BY <1>1 DEF ThreadAt
<1>. QED
  BY <1>1, <1>2

\* A call that begins is the last one.
LEMMA CallBegins ==
    ASSUME calls \in Seq(Call), NEW c \in Call, calls' = Append(calls, c)
    PROVE  /\ calls' \in Seq(Call) /\ Len(calls) \in Nat /\ Len(calls') = Len(calls) + 1
           /\ calls'[Len(calls')] = c
           /\ \A n \in 1..Len(calls) : calls'[n] = calls[n]
           /\ \A n \in 1..Len(calls') : n \in 1..Len(calls) \/ n = Len(calls')
           /\ CallsGrow
<1>1. /\ calls' \in Seq(Call) /\ Len(calls) \in Nat /\ Len(calls') = Len(calls) + 1
      /\ calls'[Len(calls')] = c /\ \A n \in 1..Len(calls) : calls'[n] = calls[n]
  OBVIOUS
<1>2. \A n \in 1..Len(calls') : n \in 1..Len(calls) \/ n = Len(calls')
  BY <1>1
<1>. QED
  BY <1>1, <1>2 DEF CallsGrow

LEMMA EnterKeeps ==
    ASSUME LogInv, NEW t \in Threads, NEW api \in {"ioctl", "nt_ioctl", "create", "close"},
           Enter(t, api)
    PROVE  LogInv'
<1>. DEFINE c == [thread |-> t, outcome |-> "none"]
            n == Len(calls) + 1
            f == Frame(api, n, "sent")
<1>1. /\ calls \in Seq(Call) /\ c \in Call /\ calls' = Append(calls, c)
      /\ frames[t] = <<>> /\ frames' = [frames EXCEPT ![t] = <<f>>]
      /\ UNCHANGED <<launch, process, lastError, logSequence, logLock, traceFile, unflushed>>
  BY DEF Enter, Outside, LogInv, HkTypeOK, Call, launchVars, logVars
<1>2. /\ calls' \in Seq(Call) /\ Len(calls) \in Nat /\ Len(calls') = n /\ CallsGrow
      /\ calls'[n] = c /\ \A m \in 1..Len(calls) : calls'[m] = calls[m]
      /\ \A m \in 1..Len(calls') : m \in 1..Len(calls) \/ m = n
  BY <1>1, CallBegins
<1>3. f \in HookFrame /\ f.api = api /\ f.id = n /\ f.step = "entered" /\ f.input = "sent"
  BY <1>2 DEF Frame, HookFrame, Apis, OnTop, Contents
<1>. HIDE DEF f
<1>4. /\ frames' \in [Threads -> Seq(HookFrame)] /\ frames'[t] = <<f>>
      /\ \A u \in Threads : u # t => frames'[u] = frames[u]
  BY <1>1, <1>3 DEF LogInv, HkTypeOK
<1>5. \A u \in Threads : Nested(frames'[u])
  <2>1. Nested(<<f>>)
    BY <1>3 DEF Nested, OnTop
  <2>. QED
    BY <1>4, <2>1 DEF LogInv, HkTypeOK
<1>6. ioBuffer' = [ioBuffer EXCEPT ![t] = "sent"] /\ ioBuffer' \in [Threads -> Contents]
  BY DEF Enter, LogInv, HkTypeOK, Contents
<1>7. ioBuffer'[t] = "sent" /\ \A u \in Threads : u # t => ioBuffer'[u] = ioBuffer[u]
  BY <1>6 DEF LogInv, HkTypeOK
<1>8. Acts(t)
  <2>1. HkTypeOK'
    BY <1>1, <1>2, <1>4, <1>5, <1>6 DEF LogInv, HkTypeOK
  <2>2. LeftAlone(t)
    BY <1>1, <1>2, <1>4, <1>7 DEF LeftAlone
  <2>3. logSequence <= logSequence'
    BY <1>1 DEF LogInv, HkTypeOK
  <2>. QED
    BY <1>2, <2>1, <2>2, <2>3 DEF Acts
<1>9. In(t)' /\ Top(t)' = f /\ Len(frames'[t]) = 1 /\ ~In(t)
  BY <1>1, <1>4 DEF In, Top
<1>10. ThreadAt(t)'
  <2>1. n \in 1..Len(calls') /\ \A m \in 1..Len(calls') : m <= n
    BY <1>2
  <2>. QED
    BY <1>2, <1>3, <1>7, <1>9, <2>1 DEF ThreadAt
<1>11. OwnAt(t)'
  <2>1. \A i \in Recorded : traceFile[i].id \in 1..Len(calls)
    BY DEF LogInv, HkRecords
  <2>2. \A i \in Recorded : traceFile[i].id # n
    BY <1>2, <2>1
  <2>. QED
    BY <1>1, <1>3, <1>9, <2>2 DEF OwnAt, Numbered, Recorded
<1>12. launch = "wait"
  BY DEF Enter, Outside, LogInv, HkLaunch
<1>. QED
  BY <1>1, <1>3, <1>8, <1>9, <1>10, <1>11, <1>12, Unwritten DEF Numbered

LEMMA LoadLibraryKeeps ==
    ASSUME LogInv, NEW t \in Threads, LoadLibrary(t)
    PROVE  LogInv'
<1>. DEFINE c == [thread |-> t, outcome |-> "loaded"]
<1>1. /\ calls \in Seq(Call) /\ c \in Call /\ calls' = Append(calls, c)
      /\ UNCHANGED <<launch, process, frames, ioBuffer, lastError, logSequence, logLock,
                     traceFile, unflushed>>
  BY DEF LoadLibrary, LogInv, HkTypeOK, Call, launchVars, logVars
<1>2. /\ calls' \in Seq(Call) /\ Len(calls) \in Nat /\ Len(calls') = Len(calls) + 1 /\ CallsGrow
      /\ calls'[Len(calls')] = c /\ \A m \in 1..Len(calls) : calls'[m] = calls[m]
      /\ \A m \in 1..Len(calls') : m \in 1..Len(calls) \/ m = Len(calls')
  BY <1>1, CallBegins
<1>3. Acts(t)
  <2>1. HkTypeOK'
    BY <1>1, <1>2 DEF LogInv, HkTypeOK
  <2>2. LeftAlone(t)
    BY <1>1, <1>2 DEF LeftAlone
  <2>3. logSequence <= logSequence'
    BY <1>1 DEF LogInv, HkTypeOK
  <2>. QED
    BY <1>2, <2>1, <2>2, <2>3 DEF Acts
<1>4. ~In(t) /\ ~In(t)' /\ launch = "wait"
  BY <1>1 DEF LoadLibrary, Outside, In, LogInv, HkLaunch
<1>. QED
  BY <1>1, <1>2, <1>3, <1>4, Unwritten DEF Numbered

LEMMA EnterInsideKeeps ==
    ASSUME LogInv, NEW t \in Threads, EnterInside(t)
    PROVE  LogInv'
<1>. DEFINE f == Top(t)
            outer == [f EXCEPT !.step = "inside"]
            inner == Frame(InsideOf[f.api], f.id, ioBuffer[t])
<1>1. /\ In(t) /\ f.step = "entered" /\ f.api \in {"ioctl", "create"} /\ launch = "wait"
      /\ frames' = [frames EXCEPT ![t] = <<outer, inner>>]
      /\ UNCHANGED <<launch, process, calls, ioBuffer, lastError, logSequence, logLock,
                     traceFile, unflushed>>
  BY DEF EnterInside, At, In, InsideOf, LogInv, HkLaunch, launchVars, logVars
<1>2. ThreadAt(t) /\ OwnAt(t) /\ f \in HookFrame /\ HkTypeOK
  BY <1>1, CallIs, TopIs DEF LogInv
<1>3. f.input = "sent" /\ ioBuffer[t] = "sent"
  BY <1>1, <1>2 DEF ThreadAt
<1>4. InsideOf[f.api] \in {"nt_ioctl", "nt_create"}
  BY <1>1 DEF InsideOf
<1>5. /\ outer \in HookFrame /\ outer.step = "inside" /\ outer.api = f.api /\ outer.id = f.id
      /\ outer.input = "sent"
  BY <1>2, <1>3 DEF HookFrame
<1>6. /\ inner \in HookFrame /\ inner.step = "entered" /\ inner.api \in {"nt_ioctl", "nt_create"}
      /\ inner.id = f.id /\ inner.input = "sent"
  BY <1>2, <1>3, <1>4 DEF HookFrame, Frame, Apis, OnTop, Contents
<1>. HIDE DEF outer, inner
<1>7. /\ frames' \in [Threads -> Seq(HookFrame)] /\ frames'[t] = <<outer, inner>>
      /\ \A u \in Threads : u # t => frames'[u] = frames[u]
  BY <1>1, <1>2, <1>5, <1>6 DEF HkTypeOK
<1>8. \A u \in Threads : Nested(frames'[u])
  BY <1>1, <1>2, <1>5, <1>6, <1>7 DEF HkTypeOK, Nested, OnTop
<1>9. Acts(t)
  <2>1. HkTypeOK'
    BY <1>1, <1>2, <1>7, <1>8 DEF HkTypeOK
  <2>2. LeftAlone(t) /\ CallsGrow
    BY <1>1, <1>2, <1>7 DEF LeftAlone, CallsGrow, HkTypeOK
  <2>3. logSequence <= logSequence'
    BY <1>1, <1>2 DEF HkTypeOK
  <2>. QED
    BY <2>1, <2>2, <2>3 DEF Acts
<1>10. In(t)' /\ Top(t)' = inner /\ Len(frames'[t]) = 2
  BY <1>7 DEF In, Top
<1>11. ThreadAt(t)'
  BY <1>1, <1>2, <1>3, <1>6, <1>10 DEF ThreadAt
<1>12. OwnAt(t)'
  <2>1. logLock # t
    BY <1>1 DEF LogInv, HkFile
  <2>. QED
    BY <1>1, <1>2, <1>6, <1>10, <2>1 DEF OwnAt, Numbered, Recorded
<1>. QED
  BY <1>1, <1>6, <1>9, <1>10, <1>11, <1>12, Unwritten DEF Numbered

LEMMA RealCallKeeps ==
    ASSUME LogInv, NEW t \in Threads, RealCall(t)
    PROVE  LogInv'
<1>. DEFINE f == Top(t)
<1>1. /\ In(t) /\ f.step = "entered" /\ f.api \notin {"ioctl", "create"} /\ launch = "wait"
      /\ UNCHANGED <<launch, process, logSequence, logLock, traceFile, unflushed>>
  BY DEF RealCall, At, In, InsideOf, LogInv, HkLaunch, launchVars, logVars
<1>2. PICK o \in Ends, error \in {"other", "call"} :
         /\ f.api # "nt_ioctl" => o \notin {"warning", "pending"}
         /\ f.api = "close" /\ o = "failed" => error = "call"
         /\ calls' = [calls EXCEPT ![f.id].outcome = o]
         /\ ioBuffer' = [ioBuffer EXCEPT ![t] = IF o \in FillsBuffer THEN "answer" ELSE @]
         /\ lastError' = [lastError EXCEPT ![t] = error]
         /\ SetTop(t, [f EXCEPT !.step = "returned", !.error = error])
  <2>. DEFINE e(o) == IF f.api = "close" /\ o = "failed" THEN "call" ELSE lastError[t]
  <2>1. PICK o \in Ends :
           /\ f.api # "nt_ioctl" => o \notin {"warning", "pending"}
           /\ calls' = [calls EXCEPT ![f.id].outcome = o]
           /\ ioBuffer' = [ioBuffer EXCEPT ![t] = IF o \in FillsBuffer THEN "answer" ELSE @]
           /\ lastError' = [lastError EXCEPT ![t] = e(o)]
           /\ SetTop(t, [f EXCEPT !.step = "returned", !.error = e(o)])
    BY DEF RealCall, Ends
  <2>2. e(o) \in {"other", "call"} /\ (f.api = "close" /\ o = "failed" => e(o) = "call")
    BY DEF LogInv, HkTypeOK
  <2>. HIDE DEF e
  <2>. QED
    BY <2>1, <2>2
<1>3. /\ ThreadAt(t) /\ OwnAt(t) /\ f \in HookFrame /\ HkTypeOK /\ f.id \in 1..Len(calls)
      /\ calls[f.id] \in Call /\ calls \in Seq(Call) /\ Len(calls) \in Nat
  BY <1>1, CallIs, TopIs DEF LogInv, HkTypeOK
<1>. DEFINE g == [f EXCEPT !.step = "returned", !.error = error]
            c == [calls[f.id] EXCEPT !.outcome = o]
<1>4. /\ g \in HookFrame /\ g.step = "returned" /\ g.error = error /\ g.api = f.api
      /\ g.id = f.id /\ g.input = f.input
  BY <1>2, <1>3 DEF HookFrame, OnTop
<1>5. c \in Call /\ c.outcome = o /\ c.thread = t
  BY <1>2, <1>3 DEF Call, Ends, ThreadAt
<1>6. calls' = [calls EXCEPT ![f.id] = c]
  BY <1>2
<1>7. SetTop(t, g)
  BY <1>2
<1>. HIDE DEF g, c
<1>8. /\ calls' \in Seq(Call) /\ Len(calls') = Len(calls) /\ calls'[f.id] = c
      /\ \A n \in 1..Len(calls) : n # f.id => calls'[n] = calls[n]
  BY <1>3, <1>5, <1>6
<1>9. /\ frames' \in [Threads -> Seq(HookFrame)] /\ \A u \in Threads : Nested(frames'[u])
      /\ Others(t) /\ In(t)' /\ Top(t)' = g /\ Len(frames'[t]) = Len(frames[t])
  BY <1>1, <1>3, <1>4, <1>7, TopSet DEF OnTop
<1>10. /\ ioBuffer' \in [Threads -> Contents] /\ lastError' \in [Threads -> {"other", "call"}]
       /\ ioBuffer'[t] = "answer" <=> o \in FillsBuffer
       /\ \A u \in Threads : u # t => ioBuffer'[u] = ioBuffer[u] /\ lastError'[u] = lastError[u]
  <2>1. ioBuffer[t] = "sent"
    BY <1>1, <1>3 DEF ThreadAt
  <2>. QED
    BY <1>2, <1>3, <2>1 DEF HkTypeOK, Contents
<1>11. Acts(t)
  <2>1. HkTypeOK'
    BY <1>1, <1>3, <1>8, <1>9, <1>10 DEF HkTypeOK
  <2>2. CallsGrow
    <3>1. calls[f.id].thread = t /\ calls[f.id].outcome = "none"
      BY <1>1, <1>3 DEF ThreadAt
    <3>. QED
      BY <1>3, <1>5, <1>8, <3>1 DEF CallsGrow, Ends
  <2>3. LeftAlone(t)
    BY <1>3, <1>5, <1>8, <1>9, <1>10 DEF LeftAlone, Others
  <2>4. logSequence <= logSequence'
    BY <1>1, <1>3 DEF HkTypeOK
  <2>. QED
    BY <2>1, <2>2, <2>3, <2>4 DEF Acts
<1>12. ThreadAt(t)'
  <2>1. \A n \in 1..Len(calls') : calls'[n].thread = t => n <= f.id
    <3>1. calls[f.id].thread = t
      BY <1>3 DEF ThreadAt
    <3>. QED
      BY <1>3, <1>8, <3>1 DEF ThreadAt
  <2>2. g.input = "sent" /\ o \notin {"loaded", "none"}
    BY <1>2, <1>3, <1>4 DEF ThreadAt, Ends
  <2>3. g.api \in Win32 /\ o \in {"warning", "failed", "pending"} => g.error = "call"
    BY <1>1, <1>2, <1>4 DEF Win32
  <2>. QED
    BY <1>3, <1>4, <1>5, <1>8, <1>9, <1>10, <2>1, <2>2, <2>3 DEF ThreadAt
<1>13. OwnAt(t)'
  <2>1. logLock # t
    BY <1>1 DEF LogInv, HkFile
  <2>2. \A i \in Recorded : traceFile[i].id # f.id
    BY <1>1, <1>3, <2>1 DEF OwnAt
  <2>. QED
    BY <1>1, <1>4, <1>9, <2>2 DEF OwnAt, Numbered, Recorded
<1>. QED
  BY <1>1, <1>4, <1>9, <1>11, <1>12, <1>13, Unwritten DEF Numbered

\* The output a record gets is that of its call.
LEMMA OutputIs ==
    ASSUME NEW f \in HookFrame, NEW outcome \in Ends, NEW now \in Contents,
           now = "answer" <=> outcome \in FillsBuffer, NEW output \in Output(f, outcome, now)
    PROVE  output \in Contents /\ Truthful(f.api, output, outcome)
<1>1. f.api \in Apis
  BY DEF HookFrame
<1>2. CASE f.api \in {"close", "create", "ioctl"}
  BY <1>2 DEF Output, Truthful, Ends, Contents, FillsBuffer
<1>3. CASE f.api \in {"nt_ioctl", "nt_create"}
  BY <1>3 DEF Output, Truthful, Ends, Contents, FillsBuffer
<1>. QED
  BY <1>1, <1>2, <1>3 DEF Apis

LEMMA NumberRecordKeeps ==
    ASSUME LogInv, NEW t \in Threads, NumberRecord(t)
    PROVE  LogInv'
<1>. DEFINE f == Top(t)
            outcome == calls[f.id].outcome
<1>1. /\ In(t) /\ f.step = "returned" /\ launch = "wait" /\ logSequence' = logSequence + 1
      /\ UNCHANGED <<launch, process, calls, ioBuffer, lastError, logLock, traceFile, unflushed>>
  BY DEF NumberRecord, At, In, LogInv, HkLaunch, launchVars
<1>2. PICK output \in Output(f, outcome, ioBuffer[t]) :
         SetTop(t, [f EXCEPT !.step = "numbered", !.seq = logSequence + 1, !.output = output])
  BY DEF NumberRecord
<1>3. /\ ThreadAt(t) /\ OwnAt(t) /\ f \in HookFrame /\ HkTypeOK /\ f.id \in 1..Len(calls)
      /\ calls[f.id] \in Call /\ calls \in Seq(Call) /\ Len(calls) \in Nat
      /\ logSequence \in Nat /\ ioBuffer[t] \in Contents
  BY <1>1, CallIs, TopIs DEF LogInv, HkTypeOK
<1>4. /\ outcome \in Ends /\ f.input = "sent"
      /\ ioBuffer[t] = "answer" <=> outcome \in FillsBuffer
  BY <1>1, <1>3 DEF ThreadAt, Call
<1>5. output \in Contents /\ Truthful(f.api, output, outcome)
  BY <1>2, <1>3, <1>4, OutputIs
<1>. DEFINE n == logSequence + 1
            g == [f EXCEPT !.step = "numbered", !.seq = n, !.output = output]
<1>6. /\ g \in HookFrame /\ g.step = "numbered" /\ g.seq = logSequence + 1 /\ g.api = f.api
      /\ g.id = f.id /\ g.input = f.input /\ g.output = output /\ g.error = f.error
  <2>1. n \in Nat
    BY <1>3
  <2>2. f \in HookFrame /\ output \in Contents
    BY <1>3, <1>5
  <2>. HIDE DEF n, f
  <2>3. /\ g \in HookFrame /\ g.step = "numbered" /\ g.seq = n /\ g.api = f.api
        /\ g.id = f.id /\ g.input = f.input /\ g.output = output /\ g.error = f.error
    BY <2>1, <2>2 DEF HookFrame, OnTop
  <2>. QED
    BY <2>3 DEF n
<1>7. SetTop(t, g)
  BY <1>2
<1>. HIDE DEF g
<1>8. /\ frames' \in [Threads -> Seq(HookFrame)] /\ \A u \in Threads : Nested(frames'[u])
      /\ Others(t) /\ In(t)' /\ Top(t)' = g /\ Len(frames'[t]) = Len(frames[t])
  BY <1>1, <1>3, <1>6, <1>7, TopSet DEF OnTop
<1>9. Acts(t)
  <2>1. HkTypeOK'
    BY <1>1, <1>3, <1>8 DEF HkTypeOK
  <2>2. CallsGrow /\ LeftAlone(t)
    BY <1>1, <1>3, <1>8 DEF CallsGrow, LeftAlone, Others
  <2>3. logSequence <= logSequence'
    BY <1>1, <1>3
  <2>. QED
    BY <2>1, <2>2, <2>3 DEF Acts
<1>10. ThreadAt(t)'
  <2>1. g.seq \in 1..logSequence'
    BY <1>1, <1>3, <1>6
  <2>. QED
    BY <1>1, <1>3, <1>4, <1>5, <1>6, <1>8, <2>1 DEF ThreadAt, Ends
<1>11. OwnAt(t)'
  <2>1. logLock # t
    BY <1>1 DEF LogInv, HkFile
  <2>2. \A i \in Recorded : traceFile[i].id = f.id =>
           Len(frames[t]) = 1 /\ f.api \in {"ioctl", "create"}
    BY <1>1, <1>3, <2>1 DEF OwnAt
  <2>3. \A i \in Recorded : traceFile[i].seq \in 1..logSequence
    BY DEF LogInv, HkRecords
  <2>4. \A i \in Recorded : traceFile[i].seq < logSequence + 1
    BY <1>3, <2>3
  <2>5. \A i \in Recorded : traceFile[i].seq # logSequence + 1
    BY <1>3, <2>3
  <2>. QED
    BY <1>1, <1>6, <1>8, <2>2, <2>4, <2>5 DEF OwnAt, Recorded
<1>. QED
  BY <1>1, <1>6, <1>8, <1>9, <1>10, <1>11, Unwritten DEF Numbered

-----------------------------------------------------------------------------
(* The two halves of a record.                                              *)

LEMMA HalvesAre ==
    ASSUME NEW f \in HookFrame
    PROVE  /\ Halves(RecordOf(f))[1] = RecordOf(f)
           /\ Halves(RecordOf(f))[1] \in Half /\ Halves(RecordOf(f))[2] \in Half
           /\ RecordOf(f).half = "head" /\ Halves(RecordOf(f))[2].half = "tail"
           /\ Halves(RecordOf(f))[2].seq = f.seq
           /\ \A r \in {RecordOf(f), Halves(RecordOf(f))[2]} :
                 r.api = f.api /\ r.id = f.id /\ r.seq = f.seq
                 /\ r.input = f.input /\ r.output = f.output
BY DEF Halves, RecordOf, HookFrame, Half

\* Truth and order of the records do not depend on later halves.
LEMMA EnterLogKeeps ==
    ASSUME LogInv, NEW t \in Threads, EnterLog(t)
    PROVE  LogInv'
<1>. DEFINE f == Top(t)
            h == RecordOf(f)
            g == [f EXCEPT !.step = "writing"]
            n == Len(traceFile')
<1>1. /\ In(t) /\ f.step = "numbered" /\ launch = "wait" /\ logLock = NoThread /\ logLock' = t
      /\ SetTop(t, g) /\ f \in HookFrame /\ HkTypeOK
      /\ UNCHANGED <<launch, process, calls, ioBuffer, lastError, logSequence, unflushed>>
  BY TopIs DEF EnterLog, At, In, LogInv, HkLaunch, launchVars
<1>2. /\ h \in Half /\ h.half = "head" /\ h.api = f.api /\ h.id = f.id /\ h.seq = f.seq
      /\ h.input = f.input /\ h.output = f.output
      /\ traceFile' = Append(traceFile, h)
  BY <1>1, HalvesAre DEF EnterLog
<1>3. /\ ThreadAt(t) /\ OwnAt(t) /\ f.id \in 1..Len(calls)
      /\ calls[f.id] \in Call /\ calls \in Seq(Call) /\ Len(calls) \in Nat
      /\ logSequence \in Nat
  BY <1>1, CallIs DEF HkTypeOK
<1>4. /\ g \in HookFrame /\ g.step = "writing" /\ g.seq = f.seq /\ g.api = f.api
      /\ g.id = f.id /\ g.input = f.input /\ g.output = f.output /\ g.error = f.error
  BY <1>1 DEF HookFrame, OnTop
<1>5. RecordOf(g) = h
  BY <1>4 DEF RecordOf
<1>. HIDE DEF h, g
<1>6. /\ frames' \in [Threads -> Seq(HookFrame)] /\ \A u \in Threads : Nested(frames'[u])
      /\ Others(t) /\ In(t)' /\ Top(t)' = g /\ Len(frames'[t]) = Len(frames[t])
  BY <1>1, <1>4, TopSet DEF OnTop
<1>7. /\ traceFile' \in Seq(Half) /\ Len(traceFile) \in Nat /\ n = Len(traceFile) + 1
      /\ \A i \in 1..Len(traceFile) : traceFile'[i] = traceFile[i]
      /\ traceFile'[n] = h /\ Recorded' = Recorded \cup {n} /\ n % 2 = 1 /\ n > 2
      /\ Recorded \subseteq 1..Len(traceFile) /\ \A i \in Recorded : i < n
  <2>1. Len(traceFile) >= 2 /\ Len(traceFile) % 2 = 0
    BY <1>1 DEF LogInv, HkLaunch, HkFile
  <2>2. /\ traceFile' \in Seq(Half)
        /\ Len(traceFile) \in Nat /\ Len(traceFile') = Len(traceFile) + 1
        /\ \A i \in 1..Len(traceFile) : traceFile'[i] = traceFile[i]
        /\ traceFile'[Len(traceFile')] = h
        /\ Recorded' = Recorded \cup {Len(traceFile')} /\ Len(traceFile') % 2 = 1
    BY <1>1, <1>2, <2>1, FileGrows DEF HkTypeOK
  <2>. QED
    BY <2>1, <2>2 DEF Recorded
<1>. HIDE DEF n
<1>8. Acts(t)
  <2>1. HkTypeOK'
    BY <1>1, <1>6, <1>7 DEF HkTypeOK
  <2>2. CallsGrow /\ LeftAlone(t)
    BY <1>1, <1>3, <1>6 DEF CallsGrow, LeftAlone, Others
  <2>3. logSequence <= logSequence'
    BY <1>1, <1>3
  <2>. QED
    BY <2>1, <2>2, <2>3 DEF Acts
<1>9. \A u \in Threads : u # t =>
         (In(u)' <=> In(u)) /\ Top(u)' = Top(u) /\ (Numbered(u)' <=> Numbered(u))
         /\ frames'[u] = frames[u]
  BY <1>6 DEF Others, In, Top, Numbered
<1>10. \A i \in Recorded : traceFile'[i] = traceFile[i] /\ i \in 1..Len(traceFile)
  BY <1>7
<1>11. HkLaunch'
  BY <1>1, <1>7 DEF LogInv, HkLaunch, n
<1>12. HkFile'
  <2>1. f.api # "header"
    BY <1>1 DEF HookFrame, Apis
  <2>2. HalfAt(n) = "head" /\ ~(n \in 1..2) /\ Len(traceFile') = n
    BY <1>7 DEF HalfAt, n
  <2>3. \A i \in 1..n : 
          /\ traceFile'[i].half = HalfAt(i)
          /\ (traceFile'[i].api = "header") <=> i \in 1..2
          /\ HalfAt(i) = "tail" => traceFile'[i].seq = traceFile'[i - 1].seq
    <3>1. ASSUME NEW i \in 1..Len(traceFile)
          PROVE  /\ traceFile'[i].half = HalfAt(i)
                 /\ (traceFile'[i].api = "header") <=> i \in 1..2
                 /\ HalfAt(i) = "tail" => traceFile'[i].seq = traceFile'[i - 1].seq
      <4>1. traceFile'[i] = traceFile[i]
        BY <1>7
      <4>2. HalfAt(i) = "tail" => i - 1 \in 1..Len(traceFile)
        BY <1>7 DEF HalfAt
      <4>3. HalfAt(i) = "tail" => traceFile'[i - 1] = traceFile[i - 1]
        BY <1>7, <4>2
      <4>. QED
        BY <4>1, <4>3 DEF LogInv, HkFile
    <3>2. \A i \in 1..n : i \in 1..Len(traceFile) \/ i = n
      BY <1>7
    <3>3. /\ traceFile'[n].half = HalfAt(n)
          /\ (traceFile'[n].api = "header") <=> n \in 1..2
          /\ HalfAt(n) = "tail" => traceFile'[n].seq = traceFile'[n - 1].seq
      BY <1>2, <1>7, <2>1, <2>2
    <3>. QED
      BY <3>1, <3>2, <3>3
  <2>4. t # NoThread
    BY HookAssumption
  <2>5. Top(logLock)' = g
    BY <1>1, <1>6
  <2>6. RecordOf(Top(logLock))' = RecordOf(g)
    BY <2>5 DEF RecordOf
  <2>7. \A u \in Threads : (In(u)' /\ Top(u)'.step = "writing") <=> logLock' = u
    <3>1. In(t)' /\ Top(t)'.step = "writing" /\ logLock' = t
      BY <1>1, <1>4, <1>6
    <3>2. ASSUME NEW u \in Threads, u # t
          PROVE  ~(In(u)' /\ Top(u)'.step = "writing") /\ logLock' # u
      <4>1. logLock # u
        BY <1>1, HookAssumption
      <4>2. ~(In(u) /\ Top(u).step = "writing")
        BY <4>1 DEF LogInv, HkFile
      <4>. QED
        BY <1>1, <1>9, <3>2, <4>2
    <3>. QED
      BY <3>1, <3>2
  <2>. QED
    BY <1>1, <1>5, <1>7, <2>2, <2>3, <2>4, <2>6, <2>7 DEF HkFile
<1>13. f.seq \in 1..logSequence /\ Truthful(f.api, f.output, calls[f.id].outcome)
       /\ calls[f.id].outcome \in Ends /\ f.input = "sent" /\ calls[f.id].thread = t
  BY <1>1, <1>3 DEF ThreadAt, Call
<1>14. HkThreads'
  <2>1. ThreadAt(t)'
    BY <1>1, <1>3, <1>4, <1>6, <1>13 DEF ThreadAt
  <2>. QED
    BY <1>8, <2>1, OthersKeep DEF HkThreads
<1>15. HkRecords'
  BY <1>1, <1>2, <1>3, <1>7, <1>8, <1>10, <1>13, RecordsKeep DEF HkRecords, HookFrame, Apis
<1>16. HkOwn'
  <2>1. OwnAt(t)'
    <3>1. \A i \in Recorded : traceFile[i].id = f.id =>
             Len(frames[t]) = 1 /\ f.api \in {"ioctl", "create"}
      <4>1. logLock # t
        BY <1>1, HookAssumption
      <4>. QED
        BY <1>1, <1>3, <4>1 DEF OwnAt
    <3>2. \A i \in Recorded' : i = n \/ (i \in Recorded /\ traceFile'[i] = traceFile[i])
      BY <1>7, <1>10
    <3>3. logLock' = t /\ Len(traceFile') = n
      BY <1>1 DEF n
    <3>. QED
      BY <1>4, <1>6, <3>1, <3>2, <3>3 DEF OwnAt, Numbered
  <2>2. ASSUME NEW u \in Threads, u # t PROVE OwnAt(u)'
    <3>1. OwnAt(u) /\ (In(u)' <=> In(u)) /\ Top(u)' = Top(u) /\ (Numbered(u)' <=> Numbered(u))
          /\ frames'[u] = frames[u] /\ logLock' # u /\ logLock # u
      BY <1>1, <1>9, <2>2, HookAssumption DEF LogInv, HkOwn
    <3>2. Numbered(u)' => f.seq # Top(u).seq
      BY <1>1, <2>2, <3>1 DEF LogInv, HkApart, Numbered
    <3>3. In(u)' => Top(u).id # f.id
      <4>1. In(u)' => ThreadAt(u)
        BY <3>1 DEF LogInv, HkThreads
      <4>. QED
        BY <2>2, <4>1, <1>13 DEF ThreadAt
    <3>4. \A i \in Recorded' : i = n \/ (i \in Recorded /\ traceFile'[i] = traceFile[i])
      BY <1>7, <1>10
    <3>. QED
      BY <1>1, <1>2, <1>7, <1>13, <2>2, <3>1, <3>2, <3>3, <3>4 DEF OwnAt
  <2>. QED
    BY <2>1, <2>2 DEF HkOwn
<1>17. HkApart'
  <2>1. ~Numbered(t)'
    BY <1>4, <1>6 DEF Numbered
  <2>. QED
    BY <1>9, <2>1 DEF LogInv, HkApart
<1>18. HkOrdered'
  <2>. SUFFICES
         ASSUME NEW i \in Recorded', NEW j \in Recorded', i < j
         PROVE  /\ traceFile'[i].seq # traceFile'[j].seq
                /\ calls[traceFile'[i].id].thread = calls[traceFile'[j].id].thread =>
                      traceFile'[i].seq < traceFile'[j].seq
                      /\ traceFile'[i].id <= traceFile'[j].id
                /\ traceFile'[i].id = traceFile'[j].id =>
                      traceFile'[j].api \in {"ioctl", "create"}
    BY <1>1 DEF HkOrdered
  <2>1. CASE j \in Recorded
    <3>1. i \in Recorded
      BY <1>7, <2>1
    <3>. QED
      BY <1>10, <2>1, <3>1 DEF LogInv, HkOrdered
  <2>2. CASE j = n
    <3>1. i \in Recorded /\ i # n
      BY <1>7, <2>2
    <3>. DEFINE r == traceFile[i]
    <3>2. traceFile'[i] = r /\ traceFile'[j] = h /\ r.id \in 1..Len(calls)
      BY <1>7, <1>10, <2>2, <3>1 DEF LogInv, HkRecords
    <3>3. r.seq # f.seq /\ (calls[r.id].thread = t => r.seq < f.seq)
      BY <1>1, <1>3, <3>1 DEF OwnAt, Numbered
    <3>4. calls[r.id].thread = t => r.id <= f.id
      BY <1>3, <3>2 DEF ThreadAt
    <3>5. r.id = f.id => f.api \in {"ioctl", "create"}
      BY <1>1, <1>3, <3>1, HookAssumption DEF OwnAt
    <3>. HIDE DEF r
    <3>. QED
      BY <1>2, <1>13, <3>2, <3>3, <3>4, <3>5
  <2>. QED
    BY <1>7, <2>1, <2>2
<1>19. HkNumbers'
  <2>. SUFFICES ASSUME NEW k \in 1..logSequence
                PROVE  \/ \E i \in 1..n : traceFile'[i].seq = k
                       \/ \E u \in Threads : Numbered(u)' /\ Top(u)'.seq = k
    BY <1>1 DEF HkNumbers, n
  <2>1. CASE \E i \in 1..Len(traceFile) : traceFile[i].seq = k
    <3>1. 1..Len(traceFile) \subseteq 1..n
      BY <1>7
    <3>. QED
      BY <1>7, <2>1, <3>1
  <2>2. CASE \E u \in Threads : Numbered(u) /\ Top(u).seq = k
    <3>1. n \in 1..n
      BY <1>7
    <3>. QED
      BY <1>2, <1>7, <1>9, <2>2, <3>1
  <2>. QED
    BY <2>1, <2>2 DEF LogInv, HkNumbers
<1>20. HkErrors'
  <2>. SUFFICES
         ASSUME NEW m \in 1..Len(calls), NEW u \in Threads, u = calls[m].thread,
                calls[m].outcome \in {"warning", "failed", "pending"}, ~In(u)',
                \A k \in 1..Len(calls) : calls[k].thread = u => k <= m,
                NEW i \in Recorded', traceFile'[i].id = m, traceFile'[i].api \in Win32
         PROVE  lastError[u] = "call"
    <3>0. \A k \in 1..Len(calls) : calls[k] \in Call
      BY <1>3
    <3>1. \A k \in 1..Len(calls) : calls[k].thread \in Threads
      BY <3>0 DEF Call
    <3>. QED
      BY <1>1, <3>1 DEF HkErrors
  <2>1. u # t /\ ~In(u)
    BY <1>6, <1>9
  <2>2. i # n
    BY <1>2, <1>7, <1>13, <2>1
  <2>3. i \in Recorded /\ traceFile'[i] = traceFile[i]
    BY <1>7, <1>10, <2>2
  <2>. QED
    BY <2>1, <2>3 DEF LogInv, HkErrors
<1>. QED
  BY <1>8, <1>11, <1>12, <1>14, <1>15, <1>16, <1>17, <1>18, <1>19, <1>20 DEF LogInv, Acts

\* The end of a record frees the lock; the thread goes back to the function outside, or
\* out of its call.
LEMMA LeaveLogKeeps ==
    ASSUME LogInv, NEW t \in Threads, LeaveLog(t)
    PROVE  LogInv'
<1>. DEFINE f == Top(t)
            h == Halves(RecordOf(f))[2]
            n == Len(traceFile')
            outcome == calls[f.id].outcome
            outer == frames[t][1]
<1>1. /\ In(t) /\ f.step = "writing" /\ launch = "wait" /\ logLock = t /\ logLock' = NoThread
      /\ f \in HookFrame /\ HkTypeOK
      /\ UNCHANGED <<launch, process, calls, ioBuffer, logSequence>>
  BY TopIs DEF LeaveLog, At, In, LogInv, HkLaunch, HkFile, launchVars
<1>2. h \in Half /\ h.half = "tail" /\ h.seq = f.seq /\ h.api = f.api
      /\ traceFile' = Append(traceFile, h)
  BY <1>1, HalvesAre DEF LeaveLog
<1>3. /\ ThreadAt(t) /\ OwnAt(t) /\ f.id \in 1..Len(calls)
      /\ calls[f.id] \in Call /\ calls \in Seq(Call) /\ Len(calls) \in Nat
      /\ logSequence \in Nat /\ lastError \in [Threads -> {"other", "call"}]
      /\ frames[t] \in Seq(HookFrame) /\ Nested(frames[t])
  BY <1>1, CallIs DEF HkTypeOK
<1>4. /\ outcome \in Ends /\ f.input = "sent"
      /\ Len(frames[t]) = 1 /\ f.api \in Win32 /\ outcome \in {"warning", "failed", "pending"} =>
            f.error = "call"
  BY <1>1, <1>3 DEF ThreadAt, Call
<1>5. PICK now \in Restored(f, lastError[t]) :
         LET error == IF outcome = "done" THEN now ELSE "call" IN
         IF Len(frames[t]) = 2
         THEN /\ frames' = [frames EXCEPT ![t] = <<[outer EXCEPT !.step = "returned",
                                                                !.error = error]>>]
              /\ lastError' = [lastError EXCEPT ![t] = error]
         ELSE /\ frames' = [frames EXCEPT ![t] = <<>>]
              /\ lastError' = [lastError EXCEPT ![t] = now]
  BY DEF LeaveLog
<1>6. now \in {"other", "call"} /\ (f.api \in Win32 => now = f.error)
  BY <1>1, <1>3, <1>5 DEF Restored, HookFrame
<1>. DEFINE error == IF outcome = "done" THEN now ELSE "call"
            g == [outer EXCEPT !.step = "returned", !.error = error]
<1>7. error \in {"other", "call"} /\ (outcome # "done" => error = "call")
  BY <1>6
<1>. HIDE DEF h, error
<1>9. /\ traceFile' \in Seq(Half) /\ Len(traceFile) \in Nat /\ n = Len(traceFile) + 1
      /\ \A i \in 1..Len(traceFile) : traceFile'[i] = traceFile[i]
      /\ traceFile'[n] = h /\ Recorded' = Recorded /\ n % 2 = 0 /\ n > 3
      /\ traceFile[n - 1] = RecordOf(f)
  <2>1. Len(traceFile) > 2 /\ Len(traceFile) % 2 = 1 /\ traceFile[Len(traceFile)] = RecordOf(f)
    BY <1>1, HookAssumption DEF LogInv, HkFile
  <2>2. /\ traceFile' \in Seq(Half)
        /\ Len(traceFile) \in Nat /\ Len(traceFile') = Len(traceFile) + 1
        /\ \A i \in 1..Len(traceFile) : traceFile'[i] = traceFile[i]
        /\ traceFile'[Len(traceFile')] = h
        /\ Recorded' = Recorded /\ Len(traceFile') % 2 = 0
    BY <1>1, <1>2, <2>1, FileGrows DEF HkTypeOK
  <2>. QED
    BY <2>1, <2>2
<1>. HIDE DEF n
<1>10. \A i \in Recorded : traceFile'[i] = traceFile[i] /\ i \in 1..Len(traceFile)
  BY <1>9 DEF Recorded
\* The two ways out.
<1>. DEFINE Back == /\ In(t)' /\ Top(t)' = g /\ Len(frames'[t]) = 1 /\ Len(frames[t]) = 2
                    /\ g \in HookFrame /\ g.step = "returned" /\ g.error = error
                    /\ g.api \in {"ioctl", "create"} /\ g.id = f.id /\ g.input = "sent"
            Out == ~In(t)' /\ Len(frames[t]) = 1 /\ lastError'[t] = now
<1>11. /\ frames' \in [Threads -> Seq(HookFrame)] /\ \A u \in Threads : Nested(frames'[u])
       /\ Others(t) /\ (Back \/ Out)
       /\ lastError' \in [Threads -> {"other", "call"}]
       /\ \A u \in Threads : u # t => lastError'[u] = lastError[u]
  <2>1. CASE Len(frames[t]) = 2
    <3>1. /\ outer \in HookFrame /\ outer.api \in {"ioctl", "create"} /\ outer.id = f.id
          /\ outer.input = "sent"
      BY <1>1, <1>3, <2>1, TopIs DEF Nested
    <3>2. /\ g \in HookFrame /\ g.step = "returned" /\ g.error = error
          /\ g.api \in {"ioctl", "create"} /\ g.id = f.id /\ g.input = "sent"
      <4>. HIDE DEF outer
      <4>. QED
        BY <1>7, <3>1 DEF HookFrame, OnTop
    <3>3. /\ frames' = [frames EXCEPT ![t] = <<g>>]
          /\ lastError' = [lastError EXCEPT ![t] = error]
      BY <1>5, <2>1 DEF error
    <3>. HIDE DEF g
    <3>4. /\ frames' \in [Threads -> Seq(HookFrame)] /\ frames'[t] = <<g>>
          /\ \A u \in Threads : u # t => frames'[u] = frames[u]
      BY <1>1, <3>2, <3>3 DEF HkTypeOK
    <3>5. Nested(<<g>>)
      BY <3>2 DEF Nested, OnTop
    <3>6. \A u \in Threads : Nested(frames'[u])
      BY <1>1, <3>4, <3>5 DEF HkTypeOK
    <3>7. In(t)' /\ Top(t)' = g /\ Len(frames'[t]) = 1
      BY <3>4 DEF In, Top
    <3>8. lastError' \in [Threads -> {"other", "call"}]
          /\ \A u \in Threads : u # t => lastError'[u] = lastError[u]
      BY <1>3, <1>7, <3>3
    <3>. QED
      BY <2>1, <3>2, <3>4, <3>6, <3>7, <3>8 DEF Others
  <2>2. CASE Len(frames[t]) # 2
    <3>1. /\ frames' = [frames EXCEPT ![t] = <<>>] /\ lastError' = [lastError EXCEPT ![t] = now]
      BY <1>5, <2>2
    <3>2. Len(frames[t]) = 1
      BY <1>1, <2>2, TopIs
    <3>3. /\ frames' \in [Threads -> Seq(HookFrame)] /\ frames'[t] = <<>>
          /\ \A u \in Threads : u # t => frames'[u] = frames[u]
      BY <1>1, <3>1 DEF HkTypeOK
    <3>4. lastError' \in [Threads -> {"other", "call"}] /\ lastError'[t] = now
          /\ \A u \in Threads : u # t => lastError'[u] = lastError[u]
      BY <1>3, <1>6, <3>1
    <3>5. \A u \in Threads : Nested(frames'[u])
      BY <1>1, <3>3 DEF HkTypeOK, Nested
    <3>. QED
      BY <3>2, <3>3, <3>4, <3>5 DEF Others, In
  <2>. QED
    BY <2>1, <2>2
<1>. HIDE DEF g
<1>12. Acts(t)
  <2>1. unflushed' \in 0..FlushEvery - 1
    BY <1>1, HookAssumption DEF LeaveLog, Counted, HkTypeOK
  <2>2. HkTypeOK'
    BY <1>1, <1>9, <1>11, <2>1 DEF HkTypeOK
  <2>3. CallsGrow /\ LeftAlone(t)
    BY <1>1, <1>3, <1>11 DEF CallsGrow, LeftAlone, Others
  <2>4. logSequence <= logSequence'
    BY <1>1, <1>3
  <2>. QED
    BY <2>2, <2>3, <2>4 DEF Acts
<1>13. \A u \in Threads : u # t =>
         (In(u)' <=> In(u)) /\ Top(u)' = Top(u) /\ (Numbered(u)' <=> Numbered(u))
         /\ frames'[u] = frames[u]
  BY <1>11 DEF Others, In, Top, Numbered
<1>14. ~Numbered(t)' /\ ~(In(t)' /\ Top(t)'.step = "writing") /\ ~Numbered(t)
  BY <1>1, <1>11 DEF Numbered
<1>15. HkLaunch'
  BY <1>1, <1>9 DEF LogInv, HkLaunch, n
<1>16. HkFile'
  <2>1. f.api # "header"
    BY <1>1 DEF HookFrame, Apis
  <2>2. HalfAt(n) = "tail" /\ ~(n \in 1..2) /\ Len(traceFile') = n /\ n - 1 \in 1..Len(traceFile)
    BY <1>9 DEF HalfAt, n
  <2>3. \A i \in 1..n : 
          /\ traceFile'[i].half = HalfAt(i)
          /\ (traceFile'[i].api = "header") <=> i \in 1..2
          /\ HalfAt(i) = "tail" => traceFile'[i].seq = traceFile'[i - 1].seq
    <3>1. ASSUME NEW i \in 1..Len(traceFile)
          PROVE  /\ traceFile'[i].half = HalfAt(i)
                 /\ (traceFile'[i].api = "header") <=> i \in 1..2
                 /\ HalfAt(i) = "tail" => traceFile'[i].seq = traceFile'[i - 1].seq
      <4>1. traceFile'[i] = traceFile[i]
        BY <1>9
      <4>2. HalfAt(i) = "tail" => i - 1 \in 1..Len(traceFile)
        BY <1>9 DEF HalfAt
      <4>3. HalfAt(i) = "tail" => traceFile'[i - 1] = traceFile[i - 1]
        BY <1>9, <4>2
      <4>. QED
        BY <4>1, <4>3 DEF LogInv, HkFile
    <3>2. \A i \in 1..n : i \in 1..Len(traceFile) \/ i = n
      BY <1>9
    <3>3. RecordOf(f).seq = f.seq
      BY DEF RecordOf
    <3>4. /\ traceFile'[n].half = HalfAt(n)
          /\ (traceFile'[n].api = "header") <=> n \in 1..2
          /\ HalfAt(n) = "tail" => traceFile'[n].seq = traceFile'[n - 1].seq
      BY <1>2, <1>9, <2>1, <2>2, <3>3
    <3>. QED
      BY <3>1, <3>2, <3>4
  <2>4. ASSUME NEW u \in Threads
        PROVE  ~(In(u)' /\ Top(u)'.step = "writing") /\ logLock' # u
    <3>1. CASE u = t
      BY <1>1, <1>14, <3>1, HookAssumption
    <3>2. CASE u # t
      <4>1. ~(In(u) /\ Top(u).step = "writing")
        BY <1>1, <3>2 DEF LogInv, HkFile
      <4>. QED
        BY <1>1, <1>13, <3>2, <4>1, HookAssumption
    <3>. QED
      BY <3>1, <3>2
  <2>. QED
    BY <1>1, <1>9, <2>2, <2>3, <2>4 DEF HkFile
<1>17. HkThreads'
  <2>1. In(t)' => ThreadAt(t)'
    <3>1. SUFFICES ASSUME Back PROVE ThreadAt(t)'
      BY <1>11
    <3>2. outcome # "none" => (ioBuffer[t] = "answer" <=> outcome \in FillsBuffer)
      BY <1>3 DEF ThreadAt
    <3>3. outcome \in {"warning", "failed", "pending"} => g.error = "call"
      BY <1>7, <3>1
    <3>. QED
      BY <1>1, <1>3, <1>4, <3>1, <3>2, <3>3 DEF ThreadAt, Ends
  <2>. QED
    BY <1>12, <2>1, OthersKeep DEF HkThreads
<1>18. HkRecords'
  BY <1>1, <1>9, <1>10, <1>12, RecordsKeep DEF HkRecords
<1>19. HkOwn'
  <2>1. OwnAt(t)'
    BY <1>1, <1>11, <1>14 DEF OwnAt
  <2>2. ASSUME NEW u \in Threads, u # t PROVE OwnAt(u)'
    <3>1. OwnAt(u) /\ (In(u)' <=> In(u)) /\ Top(u)' = Top(u) /\ (Numbered(u)' <=> Numbered(u))
          /\ frames'[u] = frames[u] /\ logLock' # u /\ logLock # u
      BY <1>1, <1>13, <2>2, HookAssumption DEF LogInv, HkOwn
    <3>. QED
      BY <1>1, <1>9, <1>10, <3>1 DEF OwnAt
  <2>. QED
    BY <2>1, <2>2 DEF HkOwn
<1>20. HkApart'
  BY <1>13, <1>14 DEF LogInv, HkApart
<1>21. HkOrdered'
  BY <1>1, <1>9, <1>10 DEF LogInv, HkOrdered
<1>22. HkNumbers'
  <2>. SUFFICES ASSUME NEW k \in 1..logSequence
                PROVE  \/ \E i \in 1..n : traceFile'[i].seq = k
                       \/ \E u \in Threads : Numbered(u)' /\ Top(u)'.seq = k
    BY <1>1 DEF HkNumbers, n
  <2>1. CASE \E i \in 1..Len(traceFile) : traceFile[i].seq = k
    <3>1. 1..Len(traceFile) \subseteq 1..n
      BY <1>9
    <3>. QED
      BY <1>9, <2>1, <3>1
  <2>2. CASE \E u \in Threads : Numbered(u) /\ Top(u).seq = k
    BY <1>13, <1>14, <2>2
  <2>. QED
    BY <2>1, <2>2 DEF LogInv, HkNumbers
<1>23. HkErrors'
  <2>. SUFFICES
         ASSUME NEW m \in 1..Len(calls), NEW u \in Threads, u = calls[m].thread,
                calls[m].outcome \in {"warning", "failed", "pending"}, ~In(u)',
                \A k \in 1..Len(calls) : calls[k].thread = u => k <= m,
                NEW i \in Recorded, traceFile[i].id = m, traceFile[i].api \in Win32
         PROVE  lastError'[u] = "call"
    <3>1. \A k \in 1..Len(calls) : calls[k].thread \in Threads
      <4>1. \A k \in 1..Len(calls) : calls[k] \in Call
        BY <1>3
      <4>. QED
        BY <4>1 DEF Call
    <3>2. calls' = calls
      BY <1>1
    <3>3. /\ Recorded' = Recorded
          /\ \A k \in Recorded : traceFile'[k] = traceFile[k]
      BY <1>9, <1>10
    <3>. QED
      BY <3>1, <3>2, <3>3 DEF HkErrors
  <2>1. CASE u # t
    BY <1>11, <1>13, <2>1 DEF LogInv, HkErrors
  <2>2. CASE u = t
    <3>1. Out /\ m = f.id
      <4>1. m <= f.id /\ f.id <= m
        BY <1>3, <2>2 DEF ThreadAt
      <4>. QED
        BY <1>3, <1>11, <2>2, <4>1
    <3>2. f.api \in Win32
      <4>1. CASE i = Len(traceFile)
        <5>1. traceFile[i] = RecordOf(f)
          BY <1>9, <4>1
        <5>. QED
          BY <5>1 DEF RecordOf
      <4>2. CASE i # Len(traceFile)
        BY <1>1, <1>3, <3>1, <4>2 DEF OwnAt, Win32
      <4>. QED
        BY <4>1, <4>2
    <3>3. now = "call"
      BY <1>4, <1>6, <3>1, <3>2
    <3>. QED
      BY <2>2, <3>1, <3>3
  <2>. QED
    BY <2>1, <2>2
<1>. QED
  BY <1>12, <1>15, <1>16, <1>17, <1>18, <1>19, <1>20, <1>21, <1>22, <1>23 DEF LogInv, Acts

-----------------------------------------------------------------------------
(* The launcher, and the whole.                                             *)

LEMMA LogInit == HookInit => LogInv
<1>. SUFFICES ASSUME HookInit PROVE LogInv
  OBVIOUS
<1>. USE HookAssumption DEF HookInit
<1>0. \A t \in Threads : frames[t] = <<>> /\ ~In(t)
  BY DEF In
<1>1. HkTypeOK
  BY <1>0 DEF HkTypeOK, Nested, Contents
<1>2. HkLaunch
  BY <1>0 DEF HkLaunch
<1>3. Recorded = {}
  BY DEF Recorded
<1>4. HkFile
  BY <1>0 DEF HkFile
<1>5. HkThreads /\ HkRecords /\ HkOwn /\ HkApart /\ HkOrdered /\ HkNumbers /\ HkErrors
  BY <1>0, <1>3 DEF HkThreads, HkRecords, HkOwn, OwnAt, HkApart, Numbered, HkOrdered, HkNumbers,
                    HkErrors
<1>. QED
  BY <1>1, <1>2, <1>4, <1>5 DEF LogInv

\* The header is what the file begins with.
LEMMA InitializeKeeps ==
    ASSUME LogInv, InitializeXStreamTrace
    PROVE  LogInv'
<1>1. /\ launch = "initialise" /\ launch' = "resume" /\ traceFile' = Halves(Header)
      /\ UNCHANGED <<process, calls, frames, ioBuffer, lastError, logSequence, logLock, unflushed>>
  BY DEF InitializeXStreamTrace
<1>2. /\ process # "running" /\ calls = <<>> /\ logSequence = 0 /\ logLock = NoThread
      /\ \A t \in Threads : ~In(t) /\ ~Numbered(t)
  BY <1>1 DEF LogInv, HkLaunch, In, Numbered
<1>. DEFINE head == [Header EXCEPT !.half = "head"]
            tail == [Header EXCEPT !.half = "tail"]
<1>3. /\ head \in Half /\ head.half = "head" /\ head.api = "header" /\ head.seq = 0
      /\ tail \in Half /\ tail.half = "tail" /\ tail.api = "header" /\ tail.seq = 0
  BY DEF Header, Half, Contents
<1>4. traceFile' = <<head, tail>>
  BY <1>1 DEF Halves
<1>. HIDE DEF head, tail
<1>5. /\ traceFile' \in Seq(Half) /\ Len(traceFile') = 2
      /\ traceFile'[1] = head /\ traceFile'[2] = tail
  BY <1>3, <1>4
<1>6. Recorded' = {}
  BY <1>5 DEF Recorded, RecordAt
<1>7. HkTypeOK'
  BY <1>1, <1>5 DEF LogInv, HkTypeOK
<1>8. HkLaunch'
  BY <1>1, <1>2, <1>5 DEF LogInv, HkLaunch
<1>9. HkFile'
  <2>1. HalfAt(1) = "head" /\ HalfAt(2) = "tail"
    BY DEF HalfAt
  <2>2. \A i \in 1..Len(traceFile') : i = 1 \/ i = 2
    BY <1>5
  <2>3. ASSUME NEW i \in 1..Len(traceFile')
        PROVE  /\ traceFile'[i].half = HalfAt(i)
               /\ (traceFile'[i].api = "header") <=> i \in 1..2
               /\ HalfAt(i) = "tail" => traceFile'[i].seq = traceFile'[i - 1].seq
    <3>1. CASE i = 1
      BY <1>3, <1>5, <2>1, <3>1
    <3>2. CASE i = 2
      BY <1>3, <1>5, <2>1, <3>2
    <3>. QED
      BY <2>2, <3>1, <3>2
  <2>4. \A t \in Threads : ~In(t)' /\ logLock' # t
    BY <1>1, <1>2, HookAssumption DEF In
  <2>. QED
    BY <1>1, <1>2, <1>5, <2>3, <2>4 DEF HkFile
<1>10. \A t \in Threads : ~In(t)' /\ ~Numbered(t)'
  BY <1>1, <1>2 DEF In, Numbered
<1>11. HkThreads' /\ HkRecords' /\ HkOwn' /\ HkApart' /\ HkOrdered' /\ HkErrors'
  BY <1>6, <1>10 DEF HkThreads, HkRecords, HkOwn, OwnAt, HkApart, HkOrdered, HkErrors
<1>12. HkNumbers'
  BY <1>1, <1>2 DEF HkNumbers
<1>. QED
  BY <1>7, <1>8, <1>9, <1>11, <1>12 DEF LogInv

\* The rest of the launcher, the walks and the end of the process leave log and calls.
LEMMA ElsewhereKeeps ==
    ASSUME LogInv, HkLaunch', unflushed' \in 0..FlushEvery - 1,
           UNCHANGED <<calls, frames, ioBuffer, lastError, logSequence, logLock, traceFile>>
    PROVE  LogInv'
<1>1. HkTypeOK' /\ HkFile'
  BY DEF LogInv, HkTypeOK, HkFile, In, Top, RecordOf
<1>2. HkThreads' /\ HkRecords' /\ HkOwn'
  BY DEF LogInv, HkThreads, ThreadAt, HkRecords, HkOwn, OwnAt, In, Top, Recorded, Numbered
<1>3. HkApart' /\ HkOrdered' /\ HkNumbers' /\ HkErrors'
  BY DEF LogInv, HkApart, HkOrdered, HkNumbers, HkErrors, In, Top, Recorded, Numbered
<1>. QED
  BY <1>1, <1>2, <1>3 DEF LogInv

LEMMA LogStep == LogInv /\ [HookNext]_hookVars => LogInv'
<1>. SUFFICES ASSUME LogInv, [HookNext]_hookVars PROVE LogInv'
  OBVIOUS
<1>0. unflushed \in 0..FlushEvery - 1 /\ 0 \in 0..FlushEvery - 1
  BY HookAssumption DEF LogInv, HkTypeOK
<1>1. CASE \/ LauncherFails \/ CreateSuspended \/ LoadHook \/ Resume \/ Collect
  <2>1. HkLaunch'
    BY <1>1 DEF LauncherFails, CreateSuspended, LoadHook, Resume, Collect, LogInv, HkLaunch, logVars
  <2>. QED
    BY <1>0, <1>1, <2>1, ElsewhereKeeps DEF LauncherFails, CreateSuspended, LoadHook, Resume,
       Collect, logVars
<1>2. CASE InitializeXStreamTrace
  BY <1>2, InitializeKeeps
<1>3. ASSUME NEW t \in Threads, HookedCall(t) PROVE LogInv'
  BY <1>3, EnterKeeps, EnterInsideKeeps, RealCallKeeps, NumberRecordKeeps, EnterLogKeeps,
     LeaveLogKeeps DEF HookedCall
<1>4. ASSUME NEW t \in Threads, PatchModule(t) PROVE LogInv'
  <2>1. CASE LoadLibrary(t)
    BY <2>1, LoadLibraryKeeps
  <2>2. CASE LookSlot(t) \/ WriteSlot(t) \/ RestorePage(t)
    <3>1. UNCHANGED NotPatching
      BY <2>2 DEF LookSlot, WriteSlot, RestorePage
    <3>2. HkLaunch'
      BY <3>1 DEF NotPatching, launchVars, logVars, LogInv, HkLaunch
    <3>. QED
      BY <1>0, <3>1, <3>2, ElsewhereKeeps DEF NotPatching, launchVars, logVars
  <2>. QED
    BY <1>4, <2>1, <2>2 DEF PatchModule
<1>5. ASSUME NEW t \in Threads, Exit(t) PROVE LogInv'
  <2>1. HkLaunch'
    BY <1>5 DEF Exit, Outside, LogInv, HkLaunch
  <2>. QED
    BY <1>0, <1>5, <2>1, ElsewhereKeeps DEF Exit
<1>6. CASE UNCHANGED hookVars
  <2>1. HkLaunch'
    BY <1>6 DEF hookVars, launchVars, logVars, LogInv, HkLaunch
  <2>. QED
    BY <1>0, <1>6, <2>1, ElsewhereKeeps DEF hookVars, launchVars, logVars
<1>. QED
  BY <1>1, <1>2, <1>3, <1>4, <1>5, <1>6 DEF HookNext, Launcher

LEMMA InvIsFaithful == LogInv /\ HkPatch => TraceFaithful
<1>. SUFFICES ASSUME LogInv, HkPatch PROVE TraceFaithful
  OBVIOUS
<1>1. /\ traceFile \in Seq(Half) /\ DOMAIN traceFile = 1..Len(traceFile)
      /\ calls \in Seq(Call) /\ DOMAIN calls = 1..Len(calls)
      /\ DOMAIN slots = 1..Imports
  BY DEF LogInv, HkTypeOK, HkPatch
<1>2. \A i \in DOMAIN traceFile : RecordAt(i) <=> i \in Recorded
  BY <1>1 DEF Recorded
<1>3. RecordsWhole
  BY <1>1 DEF RecordsWhole, LogInv, HkFile, HkLaunch
<1>4. RecordsTrue
  BY <1>1, <1>2 DEF RecordsTrue, LogInv, HkRecords, Truthful
<1>5. RecordsOrdered
  <2>1. DOMAIN InsideOf = {"ioctl", "create"}
    BY DEF InsideOf
  <2>. QED
    BY <1>1, <1>2, <2>1 DEF RecordsOrdered, LogInv, HkOrdered
<1>6. NothingLost
  <2>1. unflushed < FlushEvery
    BY HookAssumption DEF LogInv, HkTypeOK
  <2>2. ASSUME \A t \in Threads : frames[t] = <<>>, NEW n \in 1..logSequence
        PROVE  \E i \in DOMAIN traceFile : traceFile[i].seq = n
    BY <1>1, <2>2 DEF LogInv, HkNumbers, Numbered, In
  <2>. QED
    BY <2>1, <2>2 DEF NothingLost
<1>7. ErrorForwarded
  BY <1>1, <1>2 DEF ErrorForwarded, LogInv, HkErrors, In
<1>8. ModulePatched
  BY <1>1 DEF ModulePatched, HkPatch
<1>. QED
  BY <1>3, <1>4, <1>5, <1>6, <1>7, <1>8 DEF TraceFaithful

\* For any number of threads of XStream and of calls, whatever import tables they patch
\* together and wherever the process ends: the trace has whole records in the order of the
\* calls of each thread, with the bytes that went in and came out, XStream finds the errors it
\* would find without the hooks, and no import is left unpatched.
THEOREM TracesAreFaithful == HkSpec => []TraceFaithful
<1>1. LogInv /\ HkPatch /\ [HookNext]_hookVars => LogInv' /\ HkPatch'
  BY LogStep, PatchStep
<1>. QED
  BY <1>1, LogInit, PatchInit, InvIsFaithful, PTL DEF HkSpec
=============================================================================
