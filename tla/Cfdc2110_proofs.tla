-------------------------- MODULE Cfdc2110_proofs ---------------------------
(* Proofs about Cfdc2110: what a batch of any length leaves pending, and the *)
(* responses that its fetches deliver.                                       *)
EXTENDS Cfdc2110, SequenceTheorems, TLAPS

AnyCommand == [request : Nat, pos : Nat, sends : 1..2, answers : 1..2]
AnyChunk == [command : AnyCommand, part : Nat, more : BOOLEAN]
Result == [kind : Kinds, status : {"ok", "failed", "nothing"}, parts : Seq(AnyChunk),
           raw : BOOLEAN, overridden : BOOLEAN]

\* While a request is executed, one result is written for each record before pos.
InBatch ==
    pc # "idle" =>
        batch \in Batches /\ pos \in 1..Len(batch.records) /\ Len(results) = pos - 1

Flags ==
    /\ started \in BOOLEAN /\ disturbed \in BOOLEAN
    /\ ready \in BOOLEAN /\ hardware \in BOOLEAN /\ overridden \in BOOLEAN

Mailboxes ==
    /\ tx \in Seq(AnyChunk) /\ Len(tx) <= 1
    /\ rx \in Seq(AnyChunk) /\ Len(rx) <= 1
    /\ assembled \in Seq(AnyChunk) /\ outgoing \in Seq(AnyChunk)
    /\ answer \in AnyCommand

Buffers ==
    /\ response \in Seq(AnyChunk)
    /\ pc # "idle" => Len(response) <= batch.room

Places ==
    /\ pc \in {"idle", "record", "send", "receive", "deliver"}
    /\ request \in Nat
    /\ left \in 0..2
    /\ pc = "send" => left <= Len(Message2Send)
    /\ pc \in {"receive", "deliver"} => rec.kind \in Fetches
    /\ pc = "send" => rec.kind \in Forwarded \cup Fetches

Typing ==
    /\ InBatch /\ Flags /\ Mailboxes /\ Buffers /\ Places
    /\ results \in Seq(Result)

-----------------------------------------------------------------------------
(* The operators of the model.                                               *)

LEMMA RecordTyped ==
  ASSUME InBatch, pc # "idle"
  PROVE  /\ rec \in Record /\ batch.room \in 1..2 /\ pos \in Nat /\ pos > 0
         /\ Len(batch.records) \in Nat /\ pos <= Len(batch.records)
<1>1. batch \in Batches /\ pos \in 1..Len(batch.records)
  BY DEF InBatch
<1>2. batch.records \in Seq(Record) /\ batch.room \in 1..2
  BY <1>1, BatchesAssumption
<1> QED
  BY <1>1, <1>2 DEF rec

LEMMA ChunkTyped ==
  ASSUME NEW c \in AnyCommand, NEW p \in Nat, NEW of \in Nat
  PROVE  /\ Chunk(c, p, of) \in AnyChunk
         /\ Chunk(c, p, of).command = c /\ Chunk(c, p, of).part = p
         /\ Chunk(c, p, of).more <=> p < of
<1> DEFINE m == p < of
<1>1. m \in BOOLEAN
  OBVIOUS
<1>2. Chunk(c, p, of) = [command |-> c, part |-> p, more |-> m]
  BY DEF Chunk
<1> HIDE DEF m
<1>3. Chunk(c, p, of) \in AnyChunk
  BY <1>1, <1>2 DEF AnyChunk
<1>4. Chunk(c, p, of).more = m /\ Chunk(c, p, of).command = c /\ Chunk(c, p, of).part = p
  BY <1>2
<1>5. Chunk(c, p, of).more <=> m
  BY <1>4
<1> QED
  BY <1>3, <1>4, <1>5 DEF m

LEMMA CommandTyped ==
  /\ InBatch /\ pc # "idle" /\ request \in Nat =>
        /\ Command \in AnyCommand
        /\ Command.request = request /\ Command.pos = pos
        /\ Command.sends = rec.sends /\ Command.answers = rec.answers
  /\ FetchPacket \in AnyCommand /\ FetchPacket.sends = 1 /\ FetchPacket.answers = 1
  /\ Nothing \in AnyCommand /\ Nothing = FetchPacket
BY RecordTyped DEF Command, FetchPacket, Nothing, AnyCommand, Record

LEMMA MessageTyped ==
  ASSUME NEW c \in AnyCommand
  PROVE  /\ Message(c) \in Seq(AnyChunk) /\ Len(Message(c)) = c.sends
         /\ Answer(c) \in Seq(AnyChunk) /\ Len(Answer(c)) = c.answers
         /\ c.sends \in 1..2 /\ c.answers \in 1..2
         /\ \A p \in 1..c.sends : Message(c)[p] = Chunk(c, p, c.sends)
         /\ \A p \in 1..c.answers : Answer(c)[p] = Chunk(c, p, c.answers)
<1>1. c.sends \in 1..2 /\ c.answers \in 1..2
  BY DEF AnyCommand
<1>2. \A p \in 1..c.sends : Chunk(c, p, c.sends) \in AnyChunk
  BY <1>1, ChunkTyped
<1>3. \A p \in 1..c.answers : Chunk(c, p, c.answers) \in AnyChunk
  BY <1>1, ChunkTyped
<1> QED
  BY <1>1, <1>2, <1>3 DEF Message, Answer

\* What a record that is written does to the batch.
LEMMA WrittenStep ==
  ASSUME InBatch, results \in Seq(Result), pc # "idle", NEW r \in Result, Written(r)
  PROVE  /\ InBatch' /\ results' \in Seq(Result) /\ pc' \in {"record", "idle"}
         /\ Len(results') = Len(results) + 1 /\ Len(results) \in Nat
         /\ results'[Len(results) + 1] = r
         /\ \A i \in 1..Len(results) : results'[i] = results[i]
         /\ pc' = "record" => pos' = pos + 1
         /\ UNCHANGED <<batch, request>>
<1>1. batch \in Batches /\ pos \in 1..Len(batch.records) /\ Len(results) = pos - 1
  BY DEF InBatch
<1>2. /\ results' = Append(results, r)
      /\ pos' = IF pos < Len(batch.records) THEN pos + 1 ELSE pos
      /\ pc' = IF pos < Len(batch.records) THEN "record" ELSE "idle"
      /\ UNCHANGED <<batch, request>>
  BY DEF Written
<1>3. results' \in Seq(Result) /\ Len(results') = Len(results) + 1 /\ Len(results) \in Nat
      /\ results'[Len(results) + 1] = r
      /\ \A i \in 1..Len(results) : results'[i] = results[i]
  BY <1>2
<1>4. Len(batch.records) \in Nat
  BY RecordTyped
<1>5. pc' = "record" => pos' = pos + 1 /\ pos' \in 1..Len(batch.records)
  BY <1>1, <1>2, <1>4
<1>6. InBatch'
  BY <1>1, <1>2, <1>3, <1>5 DEF InBatch
<1> QED
  BY <1>2, <1>3, <1>5, <1>6

LEMMA DirectTyped ==
  ASSUME InBatch, pc # "idle", NEW status \in {"ok", "failed", "nothing"}
  PROVE  /\ Direct(status) \in Result
         /\ Direct(status).kind = rec.kind /\ Direct(status).status = status
         /\ Direct(status).parts = <<>> /\ Direct(status).raw = FALSE
         /\ Direct(status).overridden = FALSE
<1>1. rec.kind \in Kinds
  BY RecordTyped DEF Record
<1>2. <<>> \in Seq(AnyChunk)
  OBVIOUS
<1> QED
  BY <1>1, <1>2 DEF Direct, Result

LEMMA DeliveredTyped ==
  ASSUME InBatch, Flags, pc # "idle", response \in Seq(AnyChunk), NEW raw \in BOOLEAN
  PROVE  /\ Delivered(raw) \in Result
         /\ Delivered(raw).kind = rec.kind /\ Delivered(raw).status = "ok"
         /\ Delivered(raw).raw = raw /\ Delivered(raw).overridden = (raw /\ overridden)
         /\ Len(Delivered(raw).parts) <= Len(response)
         /\ \A p \in DOMAIN Delivered(raw).parts :
               p \in DOMAIN response /\ Delivered(raw).parts[p] = response[p]
<1>1. rec.kind \in Kinds /\ rec.room \in Nat
  BY RecordTyped DEF Record
<1> DEFINE n == IF Len(response) < rec.room THEN Len(response) ELSE rec.room
           cut == SubSeq(response, 1, n)
<1>2. n \in Nat /\ n <= Len(response)
  BY <1>1
<1> HIDE DEF n
<1>3. /\ cut \in Seq(AnyChunk) /\ Len(cut) = n /\ Len(cut) <= Len(response)
      /\ \A p \in DOMAIN cut : p \in DOMAIN response /\ cut[p] = response[p]
  BY <1>2
<1>4. Delivered(raw) = [kind |-> rec.kind, status |-> "ok", parts |-> cut, raw |-> raw,
                        overridden |-> raw /\ overridden]
  BY DEF Delivered, n
<1> HIDE DEF cut
<1>5. (raw /\ overridden) \in BOOLEAN
  OBVIOUS
<1> QED
  BY <1>1, <1>3, <1>4, <1>5 DEF Result

-----------------------------------------------------------------------------
(* Types, and the buffer that the response has to fit.                       *)

LEMMA TypingInit == Init => Typing
<1> SUFFICES ASSUME Init PROVE Typing
  OBVIOUS
<1>1. <<>> \in Seq(AnyChunk) /\ Len(<<>>) = 0 /\ <<>> \in Seq(Result)
  OBVIOUS
<1>2. Mailboxes
  BY <1>1, CommandTyped DEF Init, Mailboxes, Empty
<1>3. Flags
  BY DEF Init, Flags
<1> QED
  BY <1>1, <1>2, <1>3 DEF Init, Typing, InBatch, Buffers, Places

\* A step that writes a record or leaves the batch, by what else it has to show.
LEMMA EndsRecord ==
  ASSUME Typing, pc # "idle",
         \/ Fails
         \/ \E r \in Result : Written(r),
         Flags', Mailboxes', response' \in Seq(AnyChunk), left' \in 0..2,
         pc' # "idle" => Len(response') <= batch.room
  PROVE  Typing'
<1> USE DEF Typing
<1>1. CASE Fails
  BY <1>1 DEF Fails, InBatch, Buffers, Places
<1>2. ASSUME NEW r \in Result, Written(r) PROVE Typing'
  <2>1. /\ InBatch' /\ results' \in Seq(Result) /\ pc' \in {"record", "idle"}
        /\ UNCHANGED <<batch, request>>
    BY <1>2, WrittenStep
  <2> QED
    BY <2>1 DEF Buffers, Places
<1> QED
  BY <1>1, <1>2

LEMMA TypingStep == Typing /\ [Next]_vars => Typing'
<1> SUFFICES ASSUME Typing, [Next]_vars PROVE Typing'
  OBVIOUS
<1>0. InBatch /\ Flags /\ Mailboxes /\ Buffers /\ Places /\ results \in Seq(Result)
  BY DEF Typing
<1>k. ASSUME UNCHANGED requestVars, pc # "idle" \/ pc' = "idle"
      PROVE  /\ InBatch' /\ results' \in Seq(Result) /\ request' \in Nat
             /\ Message2Send' = Message2Send /\ rec' = rec /\ batch' = batch
  BY <1>0, <1>k DEF requestVars, InBatch, Places, Message2Send, Command, rec
<1>1. CASE UNCHANGED vars
  BY <1>0, <1>k, <1>1 DEF vars, localVars, firmware, Typing, InBatch, Flags, Mailboxes,
     Buffers, Places
<1>2. ASSUME NEW b \in Batches, Accept(b) PROVE Typing'
  <2>1. b.records \in Seq(Record) \ {<<>>} /\ b.room \in 1..2
    BY BatchesAssumption
  <2>2. 1 \in 1..Len(b.records)
    BY <2>1
  <2>3. Flags' /\ Mailboxes'
    BY <1>0, <1>2 DEF Accept, firmware, Flags, Mailboxes
  <2>4. InBatch' /\ results' \in Seq(Result)
    BY <1>2, <2>2 DEF Accept, InBatch
  <2>5. Buffers' /\ Places'
    BY <1>0, <1>2, <2>1 DEF Accept, Buffers, Places
  <2> QED
    BY <2>3, <2>4, <2>5 DEF Typing
<1>3. CASE MamConfig
  BY <1>0, <1>3, DirectTyped, EndsRecord DEF MamConfig, localVars, firmware, Flags,
     Mailboxes, Buffers, Places
<1>i. ASSUME pc # "idle", Installs
      PROVE  /\ response' \in Seq(AnyChunk) /\ Len(response') <= batch.room
             /\ ready' = TRUE /\ hardware' = FALSE
  <2>1. Chunk(Command, 1, 1) \in AnyChunk
    BY <1>0, <1>i, CommandTyped, ChunkTyped DEF Places
  <2>2. batch.room \in 1..2
    BY <1>0, <1>i, RecordTyped
  <2> QED
    BY <1>i, <2>1, <2>2 DEF Installs
<1>4. CASE LocalCommand
  <2>1. Flags' /\ Mailboxes'
    BY <1>0, <1>4, <1>i DEF LocalCommand, firmware, Flags, Mailboxes
  <2> QED
    BY <1>0, <1>4, <1>i, <2>1, DirectTyped, EndsRecord DEF LocalCommand, Places
<1>5. CASE WriteCommand
  <2>1. Flags' /\ Mailboxes' /\ pc # "idle" /\ left' \in 0..2
    BY <1>0, <1>5, <1>i DEF WriteCommand, firmware, Flags, Mailboxes, Places
  <2>2. response' \in Seq(AnyChunk) /\ Len(response') <= batch.room
    <3>1. CASE Installs
      BY <2>1, <3>1, <1>i
    <3>2. CASE response' = response
      BY <1>0, <2>1, <3>2 DEF Buffers
    <3>3. CASE response' = [p \in DOMAIN response |-> Chunk(Command, p, Len(response))]
      <4>1. Command \in AnyCommand /\ response \in Seq(AnyChunk)
            /\ Len(response) <= batch.room
        BY <1>0, <2>1, CommandTyped DEF Places, Buffers
      <4>2. \A p \in 1..Len(response) : Chunk(Command, p, Len(response)) \in AnyChunk
        BY <4>1, ChunkTyped
      <4> QED
        BY <3>3, <4>1, <4>2
    <3> QED
      BY <1>5, <3>1, <3>2, <3>3 DEF WriteCommand
  <2>3. \E status \in {"ok", "failed"} : Written(Direct(status))
    BY <1>5 DEF WriteCommand
  <2> QED
    BY <1>0, <2>1, <2>2, <2>3, DirectTyped, EndsRecord
<1>s. ASSUME pc # "idle" PROVE Len(Message2Send) \in 1..2
  BY <1>0, <1>s, CommandTyped, MessageTyped, RecordTyped DEF Message2Send, Places
<1>6. CASE Forward
  <2>1. /\ pc # "idle" /\ rec \in Record /\ left' = rec.sends /\ pc' = "send"
        /\ UNCHANGED <<started, requestVars, localVars, tx, rx, firmware, disturbed>>
        /\ rec.kind \in Forwarded
    BY <1>0, <1>6, RecordTyped DEF Forward
  <2>2. Len(Message2Send) = rec.sends
    BY <1>0, <2>1, CommandTyped, MessageTyped DEF Message2Send, Places, Forwarded, Fetches
  <2> QED
    BY <1>0, <2>1, <2>2 DEF requestVars, localVars, firmware, Typing, InBatch, Flags,
       Mailboxes, Buffers, Places, Message2Send, Command, rec, Record
<1>7. CASE Sent
  <2>1. CASE rec.kind \in Fetches
    <3>1. /\ pc' = "receive" /\ pc = "send" /\ response' = <<>> /\ batch.room \in 1..2
          /\ UNCHANGED <<requestVars, ready, hardware, overridden, started, left, tx, rx,
                         firmware, disturbed>>
      BY <1>0, <1>7, <2>1, RecordTyped DEF Sent
    <3>2. Flags' /\ Mailboxes'
      BY <1>0, <3>1 DEF firmware, Flags, Mailboxes
    <3> QED
      BY <1>0, <1>k, <2>1, <3>1, <3>2 DEF Typing, Buffers, Places
  <2>2. CASE rec.kind \notin Fetches
    <3>1. Flags' /\ Mailboxes' /\ pc # "idle" /\ left' \in 0..2
      BY <1>0, <1>7, <2>2 DEF Sent, firmware, Flags, Mailboxes, Places, Overrides
    <3>2. response' = <<>> /\ Written(Direct("ok")) /\ batch.room \in 1..2
      BY <1>0, <1>7, <2>2, <3>1, RecordTyped DEF Sent
    <3> QED
      BY <1>0, <3>1, <3>2, DirectTyped, EndsRecord
  <2> QED
    BY <2>1, <2>2
<1>8. CASE SendChunk
  <2>1. /\ pc = "send" /\ left > 0 /\ left' = left - 1 /\ tx' = <<Message2Send[Len(Message2Send) - left + 1]>>
        /\ UNCHANGED <<started, pc, requestVars, localVars, rx, firmware, disturbed>>
    BY <1>8 DEF SendChunk
  <2>2. Message2Send \in Seq(AnyChunk)
    BY <1>0, <2>1, CommandTyped, MessageTyped DEF Message2Send, Places
  <2>3. Message2Send[Len(Message2Send) - left + 1] \in AnyChunk
    BY <1>0, <1>s, <2>1, <2>2 DEF Places
  <2> QED
    BY <1>0, <1>s, <2>1, <2>3 DEF requestVars, localVars, firmware, Typing, InBatch, Flags,
       Mailboxes, Buffers, Places, Message2Send, Command, rec
<1>9. CASE SendFails
  <2>1. Flags' /\ Mailboxes' /\ pc # "idle" /\ left' \in 0..2
    BY <1>0, <1>9 DEF SendFails, localVars, firmware, Flags, Mailboxes, Places
  <2>2. Fails \/ \E r \in Result : Written(r)
    <3>1. Direct("failed") \in Result
      BY <1>0, <2>1, DirectTyped
    <3>2. Fails \/ Written(Direct("failed"))
      BY <1>9 DEF SendFails
    <3> QED
      BY <3>1, <3>2
  <2>3. response' \in Seq(AnyChunk) /\ (pc' # "idle" => Len(response') <= batch.room)
    BY <1>0, <1>9, <2>1 DEF SendFails, localVars, Buffers
  <2> QED
    BY <2>1, <2>2, <2>3, EndsRecord
<1>10. CASE FetchHardware
  <2>1. /\ pc # "idle" /\ rec.kind \in Fetches /\ left' = 1 /\ pc' = "send"
        /\ UNCHANGED <<started, requestVars, localVars, tx, rx, firmware, disturbed>>
    BY <1>0, <1>10 DEF FetchHardware, AsksFirmware
  <2>2. Flags' /\ Mailboxes' /\ response' = response
    BY <1>0, <2>1 DEF localVars, firmware, Flags, Mailboxes
  <2>3. /\ InBatch' /\ results' \in Seq(Result) /\ request' \in Nat
        /\ Message2Send' = Message2Send /\ rec' = rec /\ batch' = batch
    BY <1>k, <2>1
  <2>4. Buffers'
    BY <1>0, <2>1, <2>2, <2>3 DEF Buffers
  <2>5. Len(Message2Send) \in 1..2
    BY <1>s, <2>1
  <2>6. Places'
    <3>1. pc' = "send" /\ left' = 1 /\ rec'.kind \in Fetches
      BY <2>1, <2>3
    <3>2. Len(Message2Send') \in 1..2
      BY <2>3, <2>5, Zenon
    <3>6. left' <= Len(Message2Send')
      BY <3>1, <3>2
    <3>3. pc' \in {"idle", "record", "send", "receive", "deliver"} /\ left' \in 0..2
      BY <3>1
    <3>4. rec'.kind \in Forwarded \cup Fetches
      BY <3>1
    <3>5. pc' \notin {"receive", "deliver"}
      BY <3>1
    <3> QED
      BY <2>3, <3>3, <3>4, <3>5, <3>6 DEF Places
  <2> QED
    BY <2>2, <2>3, <2>4, <2>6 DEF Typing
<1>11. CASE FetchLocal \/ FetchNothing
  <2>1. Flags' /\ Mailboxes' /\ pc # "idle" /\ left' \in 0..2 /\ response' = <<>>
    BY <1>0, <1>11 DEF FetchLocal, FetchNothing, Consumed, firmware, Flags, Mailboxes, Places
  <2>2. batch.room \in 1..2
    BY <1>0, <2>1, RecordTyped
  <2>3. response \in Seq(AnyChunk) /\ FALSE \in BOOLEAN
    BY <1>0 DEF Buffers
  <2>4. \E r \in Result : Written(r)
    BY <1>0, <1>11, <2>1, <2>3, DirectTyped, DeliveredTyped DEF FetchLocal, FetchNothing
  <2> QED
    BY <1>0, <2>1, <2>2, <2>4, EndsRecord DEF Typing
<1>12. CASE ReceiveChunk
  <2>1. /\ pc = "receive" /\ rx # <<>> /\ Len(response) # batch.room
        /\ response' = Append(response, rx[1]) /\ rx' = <<>>
        /\ pc' \in {"receive", "deliver"}
        /\ UNCHANGED <<started, requestVars, ready, hardware, overridden, left, tx,
                       firmware, disturbed>>
    BY <1>12 DEF ReceiveChunk, TooLarge, Empty
  <2>2. rx[1] \in AnyChunk /\ response \in Seq(AnyChunk) /\ Len(response) <= batch.room
    BY <1>0, <2>1 DEF Mailboxes, Buffers
  <2>3. batch.room \in 1..2
    BY <1>0, <2>1, RecordTyped
  <2> QED
    BY <1>0, <2>1, <2>2, <2>3 DEF requestVars, firmware, Typing, InBatch, Flags, Mailboxes,
       Buffers, Places, Message2Send, Command, rec
<1>13. CASE DeliverRaw
  <2>1. Flags' /\ Mailboxes' /\ pc # "idle" /\ left' \in 0..2 /\ response' = <<>>
    BY <1>0, <1>13 DEF DeliverRaw, Consumed, firmware, Flags, Mailboxes, Places
  <2>2. batch.room \in 1..2
    BY <1>0, <2>1, RecordTyped
  <2>3. response \in Seq(AnyChunk) /\ TRUE \in BOOLEAN
    BY <1>0 DEF Buffers
  <2>4. Fails \/ \E r \in Result : Written(r)
    BY <1>0, <1>13, <2>1, <2>3, DeliveredTyped DEF DeliverRaw
  <2> QED
    BY <1>0, <2>1, <2>2, <2>4, EndsRecord DEF Typing
<1>14. CASE ReceiveFails
  <2>1. Flags' /\ Mailboxes' /\ pc # "idle" /\ left' \in 0..2
    BY <1>0, <1>14 DEF ReceiveFails, localVars, firmware, Flags, Mailboxes, Places
  <2> QED
    BY <1>0, <1>14, <2>1, EndsRecord DEF ReceiveFails, localVars, Buffers
<1>15. CASE Firmware
  <2>1. /\ tx # <<>> /\ tx' = <<>>
        /\ UNCHANGED <<started, pc, requestVars, localVars, left, rx, disturbed>>
        /\ \/ assembled' = Append(assembled, tx[1]) /\ UNCHANGED <<answer, outgoing>>
           \/ assembled' = <<>> /\ outgoing' = outgoing \o Answer(answer) /\ UNCHANGED answer
           \/ /\ assembled' = <<>> /\ UNCHANGED outgoing
              /\ answer' \in {Nothing, Append(assembled, tx[1])[1].command}
    BY <1>15 DEF Firmware, Empty, Garbled
  <2>2. tx[1] \in AnyChunk /\ assembled \in Seq(AnyChunk) /\ outgoing \in Seq(AnyChunk)
        /\ answer \in AnyCommand
    BY <1>0, <2>1 DEF Mailboxes
  <2>3. Append(assembled, tx[1]) \in Seq(AnyChunk) /\ Append(assembled, tx[1])[1] \in AnyChunk
    BY <2>2
  <2>4. Append(assembled, tx[1])[1].command \in AnyCommand
    BY <2>3 DEF AnyChunk
  <2>5. outgoing \o Answer(answer) \in Seq(AnyChunk)
    BY <2>2, MessageTyped
  <2>6. answer' \in AnyCommand /\ assembled' \in Seq(AnyChunk)
        /\ outgoing' \in Seq(AnyChunk)
    <3>1. Nothing \in AnyCommand /\ <<>> \in Seq(AnyChunk)
      BY CommandTyped
    <3> DEFINE joined == Append(assembled, tx[1])
               answered == outgoing \o Answer(answer)
    <3>2. /\ assembled' \in {joined, <<>>} /\ outgoing' \in {outgoing, answered}
          /\ answer' \in {answer, Nothing, joined[1].command}
      BY <2>1
    <3>3. joined \in Seq(AnyChunk) /\ joined[1].command \in AnyCommand
          /\ answered \in Seq(AnyChunk)
      BY <2>3, <2>4, <2>5
    <3> HIDE DEF joined, answered
    <3> QED
      BY <2>2, <3>1, <3>2, <3>3
  <2>7. tx' \in Seq(AnyChunk) /\ Len(tx') = 0
    BY <2>1
  <2>8. Mailboxes'
    BY <1>0, <2>1, <2>6, <2>7 DEF Mailboxes
  <2> QED
    BY <1>0, <2>1, <2>8 DEF requestVars, localVars, Typing, InBatch, Flags, Buffers, Places,
       Message2Send, Command, rec
<1>16. CASE FirmwareAnswers
  <2>1. /\ outgoing # <<>> /\ rx' = <<outgoing[1]>> /\ outgoing' = Tail(outgoing)
        /\ UNCHANGED <<started, pc, requestVars, localVars, left, tx, assembled, answer,
                       disturbed>>
    BY <1>16 DEF FirmwareAnswers
  <2>2. outgoing[1] \in AnyChunk /\ Tail(outgoing) \in Seq(AnyChunk)
    BY <1>0, <2>1 DEF Mailboxes
  <2> QED
    BY <1>0, <2>1, <2>2 DEF requestVars, localVars, Typing, InBatch, Flags, Mailboxes,
       Buffers, Places, Message2Send, Command, rec
<1>17. CASE StopOrStart
  BY <1>0, <1>17 DEF StopOrStart, requestVars, localVars, firmware, Typing, InBatch, Flags,
     Mailboxes, Buffers, Places, Message2Send, Command, rec
<1> QED
  BY <1>1, <1>2, <1>3, <1>4, <1>5, <1>6, <1>7, <1>8, <1>9, <1>10, <1>11, <1>12, <1>13,
     <1>14, <1>15, <1>16, <1>17 DEF Next, Thread

-----------------------------------------------------------------------------
(* One pending response, and the count of opcode 0x99.                       *)

\* The firmware is only asked if it holds the response.
Asking == pc \in {"receive", "deliver"} \/ (pc = "send" /\ rec.kind \in Fetches)
PendingInv == ~(ready /\ hardware) /\ (Asking => hardware)

\* Counts of the module, over the results it is about.
SetsCount(r) == r.kind = "revision" /\ r.status = "ok"
KeepsCount(r) == r.kind \notin Fetches /\ (r.kind = "forward" => r.status # "ok")
CountsIn(res, i, j) == SetsCount(res[j]) /\ \A k \in j + 1..i - 1 : KeepsCount(res[k])

CountInv ==
    /\ pc # "idle" => (overridden <=> \E j \in 1..pos - 1 : CountsIn(results, pos, j))
    /\ CountIsOfItsCommand

LEMMA PendingStep == Typing /\ PendingInv /\ [Next]_vars => PendingInv'
<1> SUFFICES ASSUME Typing, PendingInv, [Next]_vars PROVE PendingInv'
  OBVIOUS
<1> USE DEF PendingInv, Asking
<1>r. ASSUME UNCHANGED requestVars PROVE rec' = rec
  BY <1>r DEF requestVars, rec
<1>w. ASSUME NEW r, Written(r) PROVE pc' \in {"record", "idle"}
  BY <1>w DEF Written
<1>1. CASE UNCHANGED vars \/ \E b \in Batches : Accept(b)
  BY <1>r, <1>1 DEF vars, localVars, Accept
<1>2. CASE MamConfig \/ LocalCommand \/ WriteCommand
  BY <1>w, <1>2 DEF MamConfig, LocalCommand, WriteCommand, Installs, Fails, localVars
<1>3. CASE Forward \/ SendChunk \/ FetchHardware
  BY <1>r, <1>3 DEF Forward, SendChunk, FetchHardware, AsksFirmware, localVars, Forwarded,
     Fetches
<1>4. CASE Sent \/ SendFails
  BY <1>r, <1>w, <1>4 DEF Sent, SendFails, Fails, localVars
<1>5. CASE FetchLocal \/ FetchNothing \/ ReceiveFails \/ DeliverRaw
  <2>1. ASSUME pc' \in {"record", "idle"}, ~ready' PROVE PendingInv'
    BY <2>1
  <2>2. CASE FetchLocal \/ FetchNothing
    BY <1>w, <2>1, <2>2 DEF FetchLocal, FetchNothing, Consumed
  <2>3. CASE DeliverRaw
    BY <1>w, <2>1, <2>3 DEF DeliverRaw, Consumed, Fails
  <2>4. CASE ReceiveFails
    BY <2>4 DEF ReceiveFails, Fails, localVars
  <2> QED
    BY <1>5, <2>2, <2>3, <2>4
<1>6. CASE ReceiveChunk \/ Firmware \/ FirmwareAnswers \/ StopOrStart
  BY <1>r, <1>6 DEF ReceiveChunk, Firmware, FirmwareAnswers, StopOrStart, localVars
<1> QED
  BY <1>1, <1>2, <1>3, <1>4, <1>5, <1>6 DEF Next, Thread

\* A record that is written keeps the count as opcode 0x99 and the records after it say.
LEMMA CountWritten ==
  ASSUME Typing, CountInv, pc # "idle", NEW r \in Result, Written(r),
         overridden' <=> \/ r.kind = "revision" /\ r.status = "ok"
                         \/ /\ overridden /\ r.kind \notin Fetches
                            /\ r.kind = "forward" => r.status # "ok",
         r.raw => (r.overridden <=> overridden)
  PROVE  CountInv'
<1>1. /\ results' \in Seq(Result) /\ Len(results') = pos /\ Len(results) = pos - 1
      /\ results'[pos] = r /\ pos \in Nat /\ pos > 0
      /\ \A i \in 1..pos - 1 : results'[i] = results[i]
      /\ pc' = "record" => pos' = pos + 1
      /\ pc' \in {"record", "idle"}
  <2>1. InBatch /\ results \in Seq(Result)
    BY DEF Typing
  <2>2. Len(results) = pos - 1 /\ pos \in Nat /\ pos > 0
    BY <2>1, RecordTyped DEF InBatch
  <2> QED
    BY <2>1, <2>2, WrittenStep
<1>2. ASSUME NEW i \in 1..pos, NEW j \in 1..i - 1 PROVE CountsIn(results', i, j) <=> CountsIn(results, i, j)
  BY <1>1 DEF CountsIn
<1>3. ASSUME NEW j \in 1..pos - 1
      PROVE  CountsIn(results', pos + 1, j) <=> CountsIn(results, pos, j) /\ KeepsCount(r)
  <2>1. results'[j] = results[j]
    BY <1>1
  <2>2. \A k \in j + 1..pos : k = pos \/ (k \in j + 1..pos - 1 /\ results'[k] = results[k])
    BY <1>1
  <2>3. j + 1..pos - 1 \subseteq j + 1..pos /\ pos \in j + 1..pos /\ (pos + 1) - 1 = pos
    BY <1>1
  <2>4. (\A k \in j + 1..pos : KeepsCount(results'[k]))
          <=> (\A k \in j + 1..pos - 1 : KeepsCount(results[k])) /\ KeepsCount(r)
    BY <1>1, <2>2, <2>3
  <2> QED
    BY <2>1, <2>3, <2>4 DEF CountsIn
<1>4. CountsIn(results', pos + 1, pos) <=> SetsCount(r)
  BY <1>1 DEF CountsIn
<1>5. overridden <=> \E j \in 1..pos - 1 : CountsIn(results, pos, j)
  BY DEF CountInv
<1>6. overridden' <=> \E j \in 1..pos : CountsIn(results', pos + 1, j)
  <2>1. \A j \in 1..pos : j = pos \/ j \in 1..pos - 1
    BY <1>1
  <2>2. pos \in 1..pos /\ 1..pos - 1 \subseteq 1..pos
    BY <1>1
  <2>3. overridden' <=> SetsCount(r) \/ (overridden /\ KeepsCount(r))
    BY DEF SetsCount, KeepsCount
  <2>4. (\E j \in 1..pos : CountsIn(results', pos + 1, j))
          <=> SetsCount(r) \/ (overridden /\ KeepsCount(r))
    BY <1>3, <1>4, <1>5, <2>1, <2>2
  <2> QED
    BY <2>3, <2>4
<1>7. pc' # "idle" => (overridden' <=> \E j \in 1..pos' - 1 : CountsIn(results', pos', j))
  BY <1>1, <1>6
<1>8. CountIsOfItsCommand'
  <2>1. \A i \in DOMAIN results' : i \in 1..pos - 1 \/ i = pos
    BY <1>1
  <2>2. ASSUME NEW i \in 1..pos - 1, results'[i].raw
        PROVE  results'[i].overridden <=> \E j \in 1..i - 1 : CountsIn(results', i, j)
    <3>1. i \in DOMAIN results /\ results'[i] = results[i] /\ i \in 1..pos
      BY <1>1
    <3>2. results[i].overridden <=> \E j \in 1..i - 1 : CountsIn(results, i, j)
      BY <2>2, <3>1 DEF CountInv, CountIsOfItsCommand, Counts, CountsIn, SetsCount, KeepsCount
    <3> QED
      BY <1>2, <3>1, <3>2
  <2>3. ASSUME results'[pos].raw
        PROVE  results'[pos].overridden <=> \E j \in 1..pos - 1 : CountsIn(results', pos, j)
    BY <1>1, <1>2, <1>5, <2>3
  <2> QED
    <3>1. CountIsOfItsCommand' <=> \A i \in DOMAIN results' : results'[i].raw =>
            (results'[i].overridden <=> \E j \in 1..i - 1 : CountsIn(results', i, j))
      BY DEF CountIsOfItsCommand, Counts, CountsIn, SetsCount, KeepsCount
    <3> QED
      BY <2>1, <2>2, <2>3, <3>1
<1> QED
  BY <1>7, <1>8 DEF CountInv

LEMMA CountStep == Typing /\ CountInv /\ [Next]_vars => CountInv'
<1> SUFFICES ASSUME Typing, CountInv, [Next]_vars PROVE CountInv'
  OBVIOUS
<1>0. InBatch /\ Flags /\ Places /\ response \in Seq(AnyChunk)
  BY DEF Typing, Buffers
<1>1. ASSUME UNCHANGED <<pos, results, overridden>>, pc # "idle" \/ pc' = "idle"
      PROVE  CountInv'
  BY <1>1 DEF CountInv, CountIsOfItsCommand, Counts, CountsIn, SetsCount, KeepsCount
<1>2. ASSUME results' = <<>>, pc' = "idle" PROVE CountInv'
  BY <1>2 DEF CountInv, CountIsOfItsCommand
<1>3. ASSUME NEW b \in Batches, Accept(b) PROVE CountInv'
  BY <1>3 DEF Accept, CountInv, CountIsOfItsCommand
<1>4. CASE UNCHANGED vars \/ Forward \/ SendChunk \/ FetchHardware \/ ReceiveChunk
           \/ Firmware \/ FirmwareAnswers \/ StopOrStart
  BY <1>1, <1>4 DEF vars, requestVars, localVars, Forward, SendChunk, FetchHardware,
     AsksFirmware, ReceiveChunk, Firmware, FirmwareAnswers, StopOrStart
<1>d. ASSUME pc # "idle", NEW status \in {"ok", "failed", "nothing"},
             Written(Direct(status)),
             overridden' <=> \/ rec.kind = "revision" /\ status = "ok"
                             \/ /\ overridden /\ rec.kind \notin Fetches
                                /\ rec.kind = "forward" => status # "ok"
      PROVE  CountInv'
  <2>1. /\ Direct(status) \in Result /\ Direct(status).kind = rec.kind
        /\ Direct(status).status = status /\ Direct(status).raw = FALSE
    BY <1>0, <1>d, DirectTyped
  <2> QED
    BY <1>d, <2>1, CountWritten
<1>5. CASE MamConfig
  BY <1>2, <1>5, <1>d DEF MamConfig, Fails, localVars, Fetches
<1>6. CASE LocalCommand
  BY <1>6, <1>d DEF LocalCommand, Fetches
<1>7. CASE WriteCommand
  BY <1>7, <1>d DEF WriteCommand, Fetches
<1>8. CASE Sent
  <2>1. CASE rec.kind \in Fetches
    BY <1>1, <1>8, <2>1 DEF Sent, requestVars
  <2>2. CASE rec.kind \notin Fetches
    <3>1. /\ pc = "send" /\ Written(Direct("ok")) /\ overridden' = Overrides
          /\ rec.kind \in {"forward", "revision", "forward0"}
      BY <1>0, <1>8, <2>2 DEF Sent, Places, Forwarded
    <3> QED
      BY <1>d, <2>2, <3>1 DEF Overrides
  <2> QED
    BY <2>1, <2>2
<1>9. CASE SendFails
  BY <1>2, <1>9, <1>d DEF SendFails, Fails, localVars
<1>10. CASE FetchNothing
  BY <1>10, <1>d DEF FetchNothing, Consumed, Fetches
<1>l. ASSUME pc # "idle", NEW raw \in BOOLEAN, Written(Delivered(raw)), ~overridden',
             rec.kind \in Fetches
      PROVE  CountInv'
  <2>1. /\ Delivered(raw) \in Result /\ Delivered(raw).kind = rec.kind
        /\ Delivered(raw).status = "ok" /\ Delivered(raw).raw = raw
        /\ Delivered(raw).overridden = (raw /\ overridden)
    BY <1>0, <1>l, DeliveredTyped
  <2>2. rec.kind # "revision"
    BY <1>l DEF Fetches
  <2> QED
    BY <1>l, <2>1, <2>2, CountWritten
<1>11. CASE FetchLocal
  BY <1>11, <1>l DEF FetchLocal, Consumed
<1>12. CASE DeliverRaw
  BY <1>0, <1>2, <1>12, <1>l DEF DeliverRaw, Consumed, Fails, Places
<1>13. CASE ReceiveFails
  BY <1>2, <1>13 DEF ReceiveFails, Fails
<1> QED
  BY <1>3, <1>4, <1>5, <1>6, <1>7, <1>8, <1>9, <1>10, <1>11, <1>12, <1>13
     DEF Next, Thread

THEOREM TypingInvariant == Spec => []Typing
BY TypingInit, TypingStep, PTL DEF Spec

THEOREM PendingInvariant == Spec => []PendingInv
<1>1. Init => PendingInv
  BY DEF Init, PendingInv, Asking
<1> QED
  BY <1>1, PendingStep, TypingInvariant, PTL DEF Spec

\* Never both a local response and one that the firmware holds, and what is pending fits
\* the caller's buffer, for batches of any length.
THEOREM OneIsPending == Spec => []OnePending
<1>1. Typing /\ PendingInv => OnePending
  BY DEF Typing, Buffers, PendingInv, OnePending
<1> QED
  BY <1>1, TypingInvariant, PendingInvariant, PTL

\* The count of opcode 0x99 goes with the answers to its command and to those of family 0
\* that follow it, and with no other, for batches of any length.
THEOREM CountOfItsCommand == Spec => []CountIsOfItsCommand
<1>1. Init => CountInv
  BY DEF Init, CountInv, CountIsOfItsCommand
<1>2. Spec => []CountInv
  BY <1>1, CountStep, TypingInvariant, PTL DEF Spec
<1>3. CountInv => CountIsOfItsCommand
  BY DEF CountInv
<1> QED
  BY <1>2, <1>3, PTL

-----------------------------------------------------------------------------
(* Responses that the host installs.                                         *)

Succeeds(r) == IsCommand(r) /\ r.status = "ok"
Reports(r) == r.status = "ok" \/ r.kind \in {"local", "jtag"}

\* The chunk is the q-th of the response to command c of this request, which the host
\* executed before record n; since then no command succeeded and nothing was fetched.
Hosted(res, records, req, chunk, q, c, n) ==
    /\ chunk.command = c /\ chunk.part = q
    /\ c.request = req /\ c.pos \in 1..n - 1
    /\ records[c.pos].kind \notin Forwarded
    /\ Reports(res[c.pos])
    /\ \A j \in c.pos + 1..n - 1 : ~Succeeds(res[j]) /\ res[j].kind \notin Fetches

\* All of the response s is that.
AllHosted(res, records, req, s, n) ==
    \A q \in DOMAIN s : Hosted(res, records, req, s[q], q, s[1].command, n)

LocalInv ==
    /\ pc # "idle" /\ ready => AllHosted(results, batch.records, request, response, pos)
    /\ \A i \in DOMAIN results :
          /\ results[i].parts # <<>> \/ results[i].raw => results[i].kind \in Fetches
          /\ ~results[i].raw =>
                AllHosted(results, batch.records, request, results[i].parts, i)

\* Only the results before record n matter.
LEMMA HostedBefore ==
  ASSUME NEW res, NEW other, NEW records, NEW req, NEW s, NEW n \in Nat,
         \A j \in 1..n - 1 : other[j] = res[j],
         AllHosted(res, records, req, s, n)
  PROVE  AllHosted(other, records, req, s, n)
<1> SUFFICES ASSUME NEW q \in DOMAIN s
             PROVE  Hosted(other, records, req, s[q], q, s[1].command, n)
  BY DEF AllHosted
<1> DEFINE c == s[1].command
<1>1. Hosted(res, records, req, s[q], q, c, n)
  BY DEF AllHosted
<1> HIDE DEF c
<1>2. c.pos \in 1..n - 1
  BY <1>1 DEF Hosted
<1>3. \A j \in c.pos + 1..n - 1 : j \in 1..n - 1
  BY <1>2
<1>4. Hosted(other, records, req, s[q], q, c, n)
  BY <1>1, <1>2, <1>3 DEF Hosted
<1> QED
  BY <1>4 DEF c

\* What is pending stays the response to the last success over a record that neither
\* succeeds nor fetches.
LEMMA HostedAfter ==
  ASSUME NEW res, NEW records, NEW req, NEW s, NEW n \in Nat,
         AllHosted(res, records, req, s, n),
         ~Succeeds(res[n]), res[n].kind \notin Fetches
  PROVE  AllHosted(res, records, req, s, n + 1)
<1> SUFFICES ASSUME NEW q \in DOMAIN s
             PROVE  Hosted(res, records, req, s[q], q, s[1].command, n + 1)
  BY DEF AllHosted
<1> DEFINE c == s[1].command
<1>1. Hosted(res, records, req, s[q], q, c, n)
  BY DEF AllHosted
<1> HIDE DEF c
<1>2. c.pos \in 1..n - 1 /\ c.pos \in 1..n + 1 - 1
  BY <1>1 DEF Hosted
<1>3. \A j \in c.pos + 1..n + 1 - 1 : j = n \/ j \in c.pos + 1..n - 1
  BY <1>2
<1>4. Hosted(res, records, req, s[q], q, c, n + 1)
  BY <1>1, <1>2, <1>3 DEF Hosted
<1> QED
  BY <1>4 DEF c

\* What a record has to do with the pending response.
Installed(r) ==
    /\ Reports(r) /\ rec.kind \notin Forwarded
    /\ \A q \in DOMAIN response' : response'[q].command = Command /\ response'[q].part = q
Left(r) == ready /\ response' = response /\ ~Succeeds(r) /\ r.kind \notin Fetches
Takes(r) ==
    /\ r.kind \in Fetches
    /\ \/ r.raw
       \/ /\ ready
          /\ \A p \in DOMAIN r.parts : p \in DOMAIN response /\ r.parts[p] = response[p]

LEMMA LocalWritten ==
  ASSUME Typing, LocalInv, pc # "idle", NEW r \in Result, Written(r),
         ready' => Installed(r) \/ Left(r),
         response' \in Seq(AnyChunk),
         (r.parts = <<>> /\ ~r.raw) \/ Takes(r)
  PROVE  LocalInv'
<1>1. /\ results' \in Seq(Result) /\ Len(results') = pos /\ Len(results) = pos - 1
      /\ results'[pos] = r /\ pos \in Nat /\ pos > 0
      /\ \A i \in 1..pos - 1 : results'[i] = results[i]
      /\ pc' = "record" => pos' = pos + 1
      /\ pc' \in {"record", "idle"} /\ batch' = batch /\ request' = request
  <2>1. InBatch /\ results \in Seq(Result)
    BY DEF Typing
  <2>2. Len(results) = pos - 1 /\ pos \in Nat /\ pos > 0
    BY <2>1, RecordTyped DEF InBatch
  <2> QED
    BY <2>1, <2>2, WrittenStep
<1>2. ready => AllHosted(results, batch.records, request, response, pos)
  BY DEF LocalInv
<1>3. ready => AllHosted(results', batch.records, request, response, pos)
  BY <1>1, <1>2, HostedBefore
<1>4. ASSUME ready' PROVE AllHosted(results', batch.records, request, response', pos + 1)
  <2>1. CASE Left(r)
    BY <1>1, <1>3, <2>1, HostedAfter DEF Left
  <2>2. CASE Installed(r)
    <3> SUFFICES ASSUME NEW q \in DOMAIN response'
                 PROVE  Hosted(results', batch.records, request, response'[q], q,
                               response'[1].command, pos + 1)
      BY DEF AllHosted
    <3>1. 1 \in DOMAIN response'
      OBVIOUS
    <3>2. response'[1].command = Command /\ response'[q].command = Command
          /\ response'[q].part = q
      BY <2>2, <3>1 DEF Installed
    <3>3. Command.request = request /\ Command.pos = pos
      BY DEF Command
    <3>4. Reports(results'[pos]) /\ batch.records[pos].kind \notin Forwarded
      BY <1>1, <2>2 DEF Installed, rec
    <3> HIDE DEF Command
    <3> QED
      BY <1>1, <3>2, <3>3, <3>4 DEF Hosted
  <2> QED
    BY <1>4, <2>1, <2>2
<1>5. ASSUME NEW i \in 1..pos
      PROVE  /\ results'[i].parts # <<>> \/ results'[i].raw => results'[i].kind \in Fetches
             /\ ~results'[i].raw =>
                   AllHosted(results', batch.records, request, results'[i].parts, i)
  <2>1. CASE i \in 1..pos - 1
    <3>1. i \in DOMAIN results /\ results'[i] = results[i] /\ i \in Nat
      BY <1>1, <2>1
    <3>2. \A j \in 1..i - 1 : results'[j] = results[j]
      BY <1>1, <2>1
    <3>3. /\ results[i].parts # <<>> \/ results[i].raw => results[i].kind \in Fetches
          /\ ~results[i].raw =>
               AllHosted(results, batch.records, request, results[i].parts, i)
      BY <3>1 DEF LocalInv
    <3> QED
      BY <3>1, <3>2, <3>3, HostedBefore
  <2>2. CASE i = pos
    <3>1. CASE r.parts = <<>> /\ ~r.raw
      <4>1. DOMAIN r.parts = {}
        BY <3>1
      <4> QED
        BY <1>1, <2>2, <3>1, <4>1 DEF AllHosted
    <3>2. CASE Takes(r)
      <4>1. ASSUME ~r.raw
            PROVE  AllHosted(results', batch.records, request, r.parts, pos)
        <5> SUFFICES ASSUME NEW q \in DOMAIN r.parts
                     PROVE  Hosted(results', batch.records, request, r.parts[q], q,
                                   r.parts[1].command, pos)
          BY DEF AllHosted
        <5>1. r.parts \in Seq(AnyChunk)
          BY DEF Result
        <5>2. 1 \in DOMAIN r.parts
          BY <5>1
        <5>3. /\ q \in DOMAIN response /\ r.parts[q] = response[q]
              /\ r.parts[1] = response[1] /\ ready
          BY <3>2, <4>1, <5>2 DEF Takes
        <5> QED
          BY <1>3, <5>3 DEF AllHosted
      <4> QED
        BY <1>1, <2>2, <3>2, <4>1 DEF Takes
    <3> QED
      BY <3>1, <3>2
  <2> QED
    BY <1>1, <2>1, <2>2
<1>6. DOMAIN results' = 1..pos
  BY <1>1
<1> QED
  BY <1>1, <1>4, <1>5, <1>6 DEF LocalInv

LEMMA LocalStep == Typing /\ PendingInv /\ LocalInv /\ [Next]_vars => LocalInv'
<1> SUFFICES ASSUME Typing, PendingInv, LocalInv, [Next]_vars PROVE LocalInv'
  OBVIOUS
<1>0. InBatch /\ Flags /\ Places /\ response \in Seq(AnyChunk) /\ Typing'
  BY TypingStep DEF Typing, Buffers
<1>p. response' \in Seq(AnyChunk)
  BY <1>0 DEF Typing, Buffers
<1>1. ASSUME UNCHANGED requestVars, pc # "idle" \/ pc' = "idle",
             ready' => ready /\ response' = response
      PROVE  LocalInv'
  BY <1>1 DEF LocalInv, requestVars
<1>2. ASSUME results' = <<>>, pc' = "idle" PROVE LocalInv'
  BY <1>2 DEF LocalInv
<1>3. ASSUME NEW b \in Batches, Accept(b) PROVE LocalInv'
  BY <1>3 DEF Accept, LocalInv
<1>4. CASE UNCHANGED vars \/ Forward \/ SendChunk \/ FetchHardware
           \/ Firmware \/ FirmwareAnswers \/ StopOrStart
  BY <1>1, <1>4 DEF vars, localVars, Forward, SendChunk, FetchHardware, AsksFirmware,
     Firmware, FirmwareAnswers, StopOrStart
<1>d. ASSUME pc # "idle", NEW status \in {"ok", "failed", "nothing"},
             Written(Direct(status)),
             ready' =>
               \/ /\ rec.kind \notin Forwarded
                  /\ status = "ok" \/ rec.kind \in {"local", "jtag"}
                  /\ \A q \in DOMAIN response' :
                        response'[q].command = Command /\ response'[q].part = q
               \/ /\ ready /\ response' = response
                  /\ rec.kind \notin Fetches
                  /\ rec.kind = "mam" \/ status # "ok"
      PROVE  LocalInv'
  <2>1. /\ Direct(status) \in Result /\ Direct(status).kind = rec.kind
        /\ Direct(status).status = status /\ Direct(status).raw = FALSE
        /\ Direct(status).parts = <<>>
    BY <1>0, <1>d, DirectTyped
  <2>2. ready' => Installed(Direct(status)) \/ Left(Direct(status))
    BY <1>d, <2>1 DEF Installed, Left, Reports, Succeeds, IsCommand
  <2> QED
    BY <1>d, <1>p, <2>1, <2>2, LocalWritten
<1>i. ASSUME pc # "idle", Installs
      PROVE  \A q \in DOMAIN response' :
                response'[q].command = Command /\ response'[q].part = q
  <2>1. Command \in AnyCommand
    BY <1>0, <1>i, CommandTyped DEF Places
  <2>2. Chunk(Command, 1, 1).command = Command /\ Chunk(Command, 1, 1).part = 1
    BY <2>1, ChunkTyped
  <2> QED
    BY <1>i, <2>2 DEF Installs
<1>5. CASE MamConfig
  BY <1>2, <1>5, <1>d DEF MamConfig, Fails, localVars, Fetches
<1>6. CASE LocalCommand
  <2>1. pc # "idle" /\ rec.kind = "local" /\ Installs
        /\ \E status \in {"ok", "failed"} : Written(Direct(status))
    BY <1>6 DEF LocalCommand
  <2>2. rec.kind \notin Forwarded
    BY <2>1 DEF Forwarded
  <2> QED
    BY <1>d, <1>i, <2>1, <2>2
<1>7. CASE WriteCommand
  <2>1. pc # "idle" /\ rec.kind \in {"write", "jtag"}
    BY <1>7 DEF WriteCommand
  <2>2. rec.kind \notin Forwarded /\ rec.kind \notin Fetches /\ rec.kind # "mam"
    BY <2>1 DEF Forwarded, Fetches
  <2>3. CASE Installs /\ Written(Direct("ok"))
    BY <1>d, <1>i, <2>1, <2>2, <2>3
  <2>4. CASE Written(Direct("failed")) /\ response' = response /\ ready' = ready
    BY <1>d, <2>1, <2>2, <2>4
  <2>5. CASE /\ Written(Direct("failed")) /\ rec.kind = "jtag"
             /\ response' = [p \in DOMAIN response |-> Chunk(Command, p, Len(response))]
    <3>1. Command \in AnyCommand /\ Len(response) \in Nat
          /\ \A q \in DOMAIN response : q \in Nat
      BY <1>0, <2>1, CommandTyped DEF Places
    <3>2. \A q \in DOMAIN response' :
             response'[q].command = Command /\ response'[q].part = q
      BY <2>5, <3>1, ChunkTyped
    <3> QED
      BY <1>d, <2>1, <2>2, <2>5, <3>2
  <2> QED
    BY <1>7, <2>3, <2>4, <2>5 DEF WriteCommand
<1>8. CASE Sent
  <2>1. CASE rec.kind \in Fetches
    <3>1. hardware' = hardware /\ ready' = ready /\ pc = "send" /\ UNCHANGED requestVars
      BY <1>8, <2>1 DEF Sent
    <3>2. ~ready
      BY <2>1, <3>1 DEF PendingInv, Asking
    <3> QED
      BY <1>1, <3>1, <3>2
  <2>2. CASE rec.kind \notin Fetches
    <3>1. pc = "send" /\ Written(Direct("ok")) /\ ~ready'
      BY <1>8, <2>2 DEF Sent
    <3> QED
      BY <1>d, <3>1
  <2> QED
    BY <2>1, <2>2
<1>9. CASE SendFails
  <2>1. pc = "send" /\ UNCHANGED localVars
        /\ IF rec.kind \in Fetches THEN Fails ELSE Written(Direct("failed"))
    BY <1>9 DEF SendFails
  <2> QED
    BY <1>2, <1>d, <2>1 DEF Fails, localVars
<1>10. CASE FetchNothing
  BY <1>10, <1>d DEF FetchNothing, Consumed
<1>l. ASSUME pc # "idle", NEW raw \in BOOLEAN, Written(Delivered(raw)), ~ready',
             rec.kind \in Fetches, raw \/ ready
      PROVE  LocalInv'
  <2>1. /\ Delivered(raw) \in Result /\ Delivered(raw).kind = rec.kind
        /\ Delivered(raw).raw = raw
        /\ \A p \in DOMAIN Delivered(raw).parts :
              p \in DOMAIN response /\ Delivered(raw).parts[p] = response[p]
    BY <1>0, <1>l, DeliveredTyped
  <2>2. Takes(Delivered(raw))
    BY <1>l, <2>1 DEF Takes
  <2> QED
    BY <1>l, <1>p, <2>1, <2>2, LocalWritten
<1>11. CASE FetchLocal
  BY <1>11, <1>l DEF FetchLocal, Consumed
<1>12. CASE DeliverRaw
  BY <1>0, <1>2, <1>12, <1>l DEF DeliverRaw, Consumed, Fails, Places
<1>13. CASE ReceiveChunk
  <2>1. ~ready
    BY <1>13 DEF ReceiveChunk, PendingInv, Asking
  <2> QED
    BY <1>1, <1>13, <2>1 DEF ReceiveChunk
<1>14. CASE ReceiveFails
  BY <1>2, <1>14 DEF ReceiveFails, Fails
<1> QED
  BY <1>3, <1>4, <1>5, <1>6, <1>7, <1>8, <1>9, <1>10, <1>11, <1>12, <1>13, <1>14
     DEF Next, Thread

-----------------------------------------------------------------------------
(* The chunks of the firmware's answers.                                     *)

\* Those on their way to the driver, in their order.
Flight == rx \o outgoing

Receiving == pc \in {"receive", "deliver"}

\* The commands that chunks of answers name, on their way, received or delivered.
NamedAt(c) ==
    \/ \E k \in DOMAIN Flight : Flight[k].command = c
    \/ \E i \in DOMAIN results : results[i].raw
                 /\ \E p \in DOMAIN results[i].parts : results[i].parts[p].command = c
    \/ Receiving /\ \E q \in DOMAIN response : response[q].command = c

\* The firmware takes a fetch packet and answers.
Answers ==
    /\ Firmware /\ ~tx[1].more
    /\ Append(assembled, tx[1]) = Message(FetchPacket)

LEMMA OneChunk ==
  ASSUME NEW s \in Seq(AnyChunk), s # <<>>, Len(s) <= 1
  PROVE  Len(s) = 1 /\ s = <<s[1]>> /\ s[1] \in AnyChunk
<1>1. Len(s) \in Nat \ {0}
  BY EmptySeq
<1>2. Len(s) = 1
  BY <1>1
<1>3. s[1] \in AnyChunk
  BY <1>2
<1>4. <<s[1]>> \in Seq(AnyChunk) /\ Len(<<s[1]>>) = 1 /\ <<s[1]>>[1] = s[1]
  BY <1>3
<1>5. \A i \in 1..Len(s) : s[i] = <<s[1]>>[i]
  BY <1>2, <1>4
<1>6. s = <<s[1]>>
  BY <1>2, <1>4, <1>5, SeqEqual
<1> QED
  BY <1>2, <1>3, <1>6

LEMMA FlightTyped == Typing => Flight \in Seq(AnyChunk)
BY DEF Typing, Mailboxes, Flight

LEMMA FlightMoved ==
  ASSUME Typing, FirmwareAnswers
  PROVE  Flight' = Flight
<1>1. /\ outgoing \in Seq(AnyChunk) /\ outgoing # <<>> /\ rx = <<>>
      /\ rx' = <<outgoing[1]>> /\ outgoing' = Tail(outgoing)
  BY DEF Typing, Mailboxes, FirmwareAnswers, Empty
<1>2. <<>> \o outgoing = outgoing /\ <<outgoing[1]>> \o Tail(outgoing) = outgoing
  BY <1>1
<1> QED
  BY <1>1, <1>2 DEF Flight

LEMMA FlightReceived ==
  ASSUME Typing, ReceiveChunk
  PROVE  /\ Flight # <<>> /\ Flight[1] = rx[1] /\ Len(Flight') = Len(Flight) - 1
         /\ \A k \in 1..Len(Flight') : k + 1 \in 1..Len(Flight) /\ Flight'[k] = Flight[k + 1]
<1>1. /\ rx \in Seq(AnyChunk) /\ Len(rx) = 1 /\ outgoing \in Seq(AnyChunk)
      /\ rx' = <<>> /\ outgoing' = outgoing
  <2>1. rx \in Seq(AnyChunk) /\ Len(rx) <= 1 /\ outgoing \in Seq(AnyChunk)
    BY DEF Typing, Mailboxes
  <2>2. rx # <<>> /\ rx' = <<>> /\ outgoing' = outgoing
    BY DEF ReceiveChunk, Empty, firmware
  <2>3. Len(rx) = 1
    BY <2>1, <2>2, OneChunk
  <2> QED
    BY <2>1, <2>2, <2>3
<1>2. <<>> \o outgoing = outgoing
  BY <1>1
<1>3. /\ Len(rx \o outgoing) = 1 + Len(outgoing) /\ (rx \o outgoing)[1] = rx[1]
      /\ \A k \in 1..Len(outgoing) : (rx \o outgoing)[k + 1] = outgoing[k]
  <2>1. /\ Len(rx \o outgoing) = Len(rx) + Len(outgoing)
        /\ \A i \in 1..Len(rx) + Len(outgoing) :
              (rx \o outgoing)[i] = IF i <= Len(rx) THEN rx[i] ELSE outgoing[i - Len(rx)]
    BY <1>1, ConcatProperties
  <2>2. Len(outgoing) \in Nat /\ \A k \in 1..Len(outgoing) : (k + 1) - 1 = k
    BY <1>1
  <2> QED
    BY <1>1, <2>1, <2>2
<1>4. Flight' = outgoing
  BY <1>1, <1>2 DEF Flight
<1>5. Flight = rx \o outgoing
  BY DEF Flight
<1>6. Flight # <<>>
  BY <1>1, <1>3, <1>5
<1> QED
  BY <1>1, <1>3, <1>4, <1>5, <1>6

LEMMA FlightAnswered ==
  ASSUME Typing, Answers
  PROVE  /\ Len(Flight') = Len(Flight) + answer.answers
         /\ answer.answers \in 1..2
         /\ \A k \in 1..Len(Flight) : Flight'[k] = Flight[k]
         /\ \A k \in 1..answer.answers :
               Flight'[Len(Flight) + k] = Chunk(answer, k, answer.answers)
         /\ answer' = answer
<1>1. /\ rx \in Seq(AnyChunk) /\ outgoing \in Seq(AnyChunk) /\ answer \in AnyCommand
      /\ rx' = rx /\ outgoing' = outgoing \o Answer(answer) /\ answer' = answer
  BY DEF Typing, Mailboxes, Answers, Firmware
<1>2. /\ Answer(answer) \in Seq(AnyChunk) /\ Len(Answer(answer)) = answer.answers
      /\ answer.answers \in 1..2
      /\ \A p \in 1..answer.answers : Answer(answer)[p] = Chunk(answer, p, answer.answers)
  BY <1>1, MessageTyped
<1>3. rx \o (outgoing \o Answer(answer)) = (rx \o outgoing) \o Answer(answer)
  <2> DEFINE a == Answer(answer)
  <2>1. a \in Seq(AnyChunk)
    BY <1>2
  <2> HIDE DEF a
  <2>2. rx \o (outgoing \o a) = (rx \o outgoing) \o a
    BY <1>1, <2>1
  <2> QED
    BY <2>2 DEF a
<1>4. Flight' = Flight \o Answer(answer) /\ Flight \in Seq(AnyChunk)
  BY <1>1, <1>3, FlightTyped DEF Flight
<1> DEFINE f == Flight
           a == Answer(answer)
           n == answer.answers
<1>5. f \in Seq(AnyChunk) /\ a \in Seq(AnyChunk) /\ Len(a) = n /\ n \in 1..2 /\ Flight' = f \o a
  BY <1>2, <1>4
<1> HIDE DEF f, a, n
<1>6. /\ Len(f \o a) = Len(f) + n
      /\ \A k \in 1..Len(f) : (f \o a)[k] = f[k]
      /\ \A k \in 1..n : (f \o a)[Len(f) + k] = a[k]
  BY <1>5
<1> QED
  BY <1>1, <1>2, <1>5, <1>6 DEF f, a, n

\* Where the firmware takes a packet otherwise, it sends nothing, and the command it
\* answers for is none or the one that the packet names.
LEMMA FirmwareTakes ==
  ASSUME Typing, Firmware, ~Answers
  PROVE  /\ Flight' = Flight /\ tx' = <<>> /\ tx # <<>>
         /\ \/ answer' = answer /\ tx[1].more
            \/ answer' \in {Nothing, tx[1].command}
<1> DEFINE message == Append(assembled, tx[1])
<1>1. /\ tx # <<>> /\ tx' = <<>> /\ UNCHANGED <<rx, outgoing>>
      /\ \/ tx[1].more /\ answer' = answer
         \/ /\ message # Message(FetchPacket)
            /\ answer' = IF Whole(message) THEN message[1].command ELSE Garbled
  BY DEF Firmware, Answers, Empty
<1>2. tx[1] \in AnyChunk /\ assembled \in Seq(AnyChunk)
  BY <1>1 DEF Typing, Mailboxes
<1>3. /\ message \in Seq(AnyChunk) /\ Len(message) > 0 /\ message[Len(message)] = tx[1]
      /\ message[1] \in AnyChunk
  BY <1>2
<1> HIDE DEF message
<1>4. ASSUME Whole(message) PROVE message[1].command = tx[1].command
  <2> DEFINE c == message[1].command
  <2>1. c \in AnyCommand
    BY <1>3 DEF AnyChunk
  <2>2. message = Message(c)
    BY <1>4 DEF Whole
  <2> HIDE DEF c
  <2>3. Len(message) = c.sends /\ c.sends \in 1..2
        /\ message[c.sends] = Chunk(c, c.sends, c.sends)
    BY <2>1, <2>2, MessageTyped
  <2>4. Chunk(c, c.sends, c.sends).command = c
    BY <2>1, <2>3, ChunkTyped
  <2>5. tx[1].command = c
    BY <1>3, <2>3, <2>4
  <2> QED
    BY <2>5 DEF c
<1> QED
  BY <1>1, <1>4 DEF Flight, Garbled

\* Chunks of answers come from nowhere but the firmware's answer to a fetch packet.
LEMMA NamedGrows ==
  ASSUME Typing, [Next]_vars, NEW c, NamedAt(c)'
  PROVE  NamedAt(c) \/ (Answers /\ c = answer)
<1>0. Flight \in Seq(AnyChunk) /\ Flight' \in Seq(AnyChunk)
      /\ results \in Seq(Result) /\ response \in Seq(AnyChunk) /\ InBatch /\ Flags /\ Places
  <2>1. Typing'
    BY TypingStep
  <2>2. Flight' \in Seq(AnyChunk)
    BY <2>1 DEF Typing, Mailboxes, Flight
  <2> QED
    BY <2>2, FlightTyped DEF Typing, Buffers
<1> USE DEF NamedAt, Receiving
<1>1. ASSUME Flight' = Flight, results' \in {results, <<>>},
             Receiving' => (Receiving /\ response' = response) \/ response' = <<>>
      PROVE  NamedAt(c)
  BY <1>1
<1>w. ASSUME pc # "idle", NEW r \in Result, Written(r), Flight' = Flight,
             r.raw => Receiving /\ \A p \in DOMAIN r.parts :
                         p \in DOMAIN response /\ r.parts[p] = response[p]
      PROVE  NamedAt(c)
  <2>1. /\ results' \in Seq(Result) /\ Len(results') = Len(results) + 1
        /\ results'[Len(results) + 1] = r /\ pc' \in {"record", "idle"}
        /\ \A i \in 1..Len(results) : results'[i] = results[i]
    BY <1>0, <1>w, WrittenStep
  <2>2. \A i \in DOMAIN results' : i \in DOMAIN results \/ i = Len(results) + 1
    BY <1>0, <2>1
  <2>3. ~Receiving'
    BY <2>1
  <2> HIDE DEF Receiving
  <2> QED
    BY <1>0, <1>w, <2>1, <2>2, <2>3
<1>d. ASSUME pc # "idle", NEW status \in {"ok", "failed", "nothing"},
             Written(Direct(status)), Flight' = Flight
      PROVE  NamedAt(c)
  <2>1. Direct(status) \in Result /\ Direct(status).raw = FALSE
    BY <1>0, <1>d, DirectTyped
  <2> QED
    BY <1>d, <1>w, <2>1
<1>2. CASE UNCHANGED vars \/ Forward \/ SendChunk \/ FetchHardware \/ ReceiveFails
           \/ StopOrStart \/ \E b \in Batches : Accept(b)
  BY <1>1, <1>2 DEF vars, requestVars, localVars, firmware, Flight, Forward, SendChunk,
     FetchHardware, ReceiveFails, Fails, StopOrStart, Accept
<1>3. CASE MamConfig
  BY <1>1, <1>3, <1>d DEF MamConfig, Fails, firmware, Flight
<1>4. CASE LocalCommand \/ WriteCommand
  BY <1>4, <1>d DEF LocalCommand, WriteCommand, firmware, Flight
<1>5. CASE Sent
  BY <1>1, <1>5, <1>d DEF Sent, requestVars, firmware, Flight
<1>6. CASE SendFails
  BY <1>1, <1>6, <1>d DEF SendFails, Fails, firmware, Flight
<1>7. CASE FetchNothing
  BY <1>7, <1>d DEF FetchNothing, firmware, Flight
<1>8. CASE FetchLocal
  <2>1. pc # "idle" /\ Written(Delivered(FALSE)) /\ Flight' = Flight
    BY <1>8 DEF FetchLocal, firmware, Flight
  <2>2. Delivered(FALSE) \in Result /\ Delivered(FALSE).raw = FALSE
    BY <1>0, <2>1, DeliveredTyped
  <2> QED
    BY <1>w, <2>1, <2>2
<1>9. CASE DeliverRaw
  <2>1. pc = "deliver" /\ (Fails \/ Written(Delivered(TRUE))) /\ Flight' = Flight
    BY <1>9 DEF DeliverRaw, firmware, Flight
  <2>2. /\ Delivered(TRUE) \in Result
        /\ \A p \in DOMAIN Delivered(TRUE).parts :
              p \in DOMAIN response /\ Delivered(TRUE).parts[p] = response[p]
    BY <1>0, <2>1, DeliveredTyped
  <2> QED
    BY <1>1, <1>w, <2>1, <2>2 DEF Fails
<1>10. CASE ReceiveChunk
  <2>1. /\ Flight # <<>> /\ Flight[1] = rx[1] /\ Len(Flight') = Len(Flight) - 1
        /\ \A k \in 1..Len(Flight') : k + 1 \in 1..Len(Flight) /\ Flight'[k] = Flight[k + 1]
    BY <1>10, FlightReceived
  <2>2. /\ response' = Append(response, rx[1]) /\ results' = results /\ pc = "receive"
    BY <1>10 DEF ReceiveChunk, requestVars
  <2>3. 1 \in DOMAIN Flight /\ DOMAIN Flight' = 1..Len(Flight')
        /\ DOMAIN Flight = 1..Len(Flight)
    BY <1>0, <2>1
  <2>4. \A q \in DOMAIN response' : \/ q \in DOMAIN response /\ response'[q] = response[q]
                                    \/ response'[q] = rx[1]
    BY <1>0, <2>2
  <2> QED
    BY <2>1, <2>2, <2>3, <2>4
<1>11. CASE FirmwareAnswers
  BY <1>1, <1>11, FlightMoved DEF FirmwareAnswers, requestVars, localVars
<1>12. CASE Firmware /\ ~Answers
  BY <1>1, <1>12, FirmwareTakes DEF Firmware, requestVars, localVars
<1>13. CASE Answers
  <2>1. /\ Len(Flight') = Len(Flight) + answer.answers /\ answer.answers \in 1..2
        /\ \A k \in 1..Len(Flight) : Flight'[k] = Flight[k]
        /\ \A k \in 1..answer.answers :
               Flight'[Len(Flight) + k] = Chunk(answer, k, answer.answers)
    BY <1>13, FlightAnswered
  <2>2. UNCHANGED <<pc, results, response>>
    BY <1>13 DEF Answers, Firmware, requestVars, localVars
  <2>3. ASSUME NEW k \in DOMAIN Flight'
        PROVE  \/ k \in DOMAIN Flight /\ Flight'[k] = Flight[k]
               \/ Flight'[k].command = answer
    <3>1. CASE k \in 1..Len(Flight)
      BY <1>0, <2>1, <3>1
    <3>2. CASE k \notin 1..Len(Flight)
      <4>1. k - Len(Flight) \in 1..answer.answers /\ k = Len(Flight) + (k - Len(Flight))
        BY <1>0, <2>1, <3>2
      <4>2. Flight'[k] = Chunk(answer, k - Len(Flight), answer.answers)
        BY <2>1, <4>1
      <4>3. Chunk(answer, k - Len(Flight), answer.answers).command = answer
        BY DEF Chunk
      <4> QED
        BY <4>2, <4>3
    <3> QED
      BY <3>1, <3>2
  <2> QED
    BY <1>13, <2>2, <2>3
<1> QED
  BY <1>2, <1>3, <1>4, <1>5, <1>6, <1>7, <1>8, <1>9, <1>10, <1>11, <1>12, <1>13
     DEF Next, Thread

-----------------------------------------------------------------------------
(* Only commands of earlier records have been answered.                      *)

Sending == pc = "send" /\ rec.kind \in Forwarded
FetchChunk == Chunk(FetchPacket, 1, 1)
FetchInTx == tx # <<>> /\ tx[1] = FetchChunk

Forwards(c) == c.request = request =>
    c.pos \in 1..Len(batch.records) /\ batch.records[c.pos].kind \in Forwarded
Older(c) == c.request < request \/ (c.request = request /\ c.pos < pos)

\* A command of an earlier record, which was to be forwarded.
Past(c) ==
    \/ c = Nothing
    \/ c.request <= request /\ Forwards(c) /\ (pc = "idle" \/ Older(c))
Current(c) == Sending /\ c = Command

PastInv ==
    /\ \A c \in AnyCommand : NamedAt(c) => Past(c)
    /\ Past(answer) \/ Current(answer)
    /\ tx # <<>> => Past(tx[1].command) \/ Current(tx[1].command)
    /\ FetchInTx => Past(answer)

LEMMA PastStays ==
  ASSUME Typing, [Next]_vars, NEW c \in AnyCommand
  PROVE  /\ Past(c) => Past(c)'
         /\ Current(c) => Past(c)' \/ Current(c)'
<1>0. InBatch /\ Flags /\ Places /\ results \in Seq(Result) /\ response \in Seq(AnyChunk)
      /\ c.request \in Nat /\ c.pos \in Nat /\ request \in Nat
  BY DEF Typing, Places, Buffers, AnyCommand
<1> USE DEF Past, Forwards, Older
<1>k. ASSUME UNCHANGED <<request, batch, pos>>, pc' = pc \/ pc' = "idle"
      PROVE  Past(c) => Past(c)'
  BY <1>k
<1>l. ASSUME UNCHANGED <<request, batch, pos>>, pc # "idle" PROVE Past(c) => Past(c)'
  BY <1>l
<1>c. ASSUME Current(c)
      PROVE  /\ pc = "send" /\ c.request = request /\ c.pos = pos
             /\ pos \in 1..Len(batch.records) /\ batch.records[pos].kind \in Forwarded
  BY <1>0, <1>c, RecordTyped DEF Current, Sending, Command, rec, InBatch
<1>s. ASSUME UNCHANGED requestVars, pc' = pc PROVE Current(c) => Current(c)'
  BY <1>s DEF Current, Sending, Command, rec, requestVars
<1>w. ASSUME pc # "idle", NEW r \in Result, Written(r)
      PROVE  Past(c)' \/ ~(Past(c) \/ Current(c))
  <2>1. /\ pc' \in {"record", "idle"}
        /\ pc' = "record" => pos' = pos + 1
        /\ UNCHANGED <<batch, request>> /\ pos \in Nat
    BY <1>0, <1>w, WrittenStep, RecordTyped
  <2> HIDE DEF Past, Older, Forwards
  <2>4. Forwards(c)' = Forwards(c)
    BY <2>1 DEF Forwards
  <2>2. CASE Past(c)
    <3>1. c = Nothing \/ (c.request <= request /\ Forwards(c) /\ Older(c))
      BY <1>w, <2>2 DEF Past
    <3>2. pc' = "idle" \/ (Older(c) => Older(c)')
      BY <1>0, <2>1 DEF Older
    <3> QED
      BY <2>1, <2>4, <3>1, <3>2 DEF Past
  <2>3. CASE Current(c)
    <3>1. c.request <= request /\ Forwards(c)
      BY <1>0, <1>c, <2>3 DEF Forwards
    <3>2. pc' = "idle" \/ Older(c)'
      BY <1>0, <1>c, <2>1, <2>3 DEF Older
    <3> QED
      BY <2>1, <2>4, <3>1, <3>2 DEF Past
  <2> QED
    BY <2>2, <2>3
<1>f. ASSUME Fails PROVE (Past(c) => Past(c)') /\ (Current(c) => Past(c)')
  BY <1>0, <1>c, <1>f DEF Fails
<1>d. ASSUME pc # "idle", NEW status \in {"ok", "failed", "nothing"},
             Written(Direct(status))
      PROVE  Past(c)' \/ ~(Past(c) \/ Current(c))
  BY <1>0, <1>d, <1>w, DirectTyped
<1> HIDE DEF Past
<1>1. CASE UNCHANGED vars \/ SendChunk \/ Firmware \/ FirmwareAnswers \/ StopOrStart
  BY <1>k, <1>s, <1>1 DEF vars, requestVars, SendChunk, Firmware, FirmwareAnswers,
     StopOrStart
<1>2. ASSUME NEW b \in Batches, Accept(b) PROVE Past(c)' \/ ~(Past(c) \/ Current(c))
  BY <1>0, <1>c, <1>2 DEF Accept, Past
<1>3. CASE MamConfig
  BY <1>3, <1>d, <1>f DEF MamConfig
<1>4. CASE LocalCommand \/ WriteCommand
  BY <1>4, <1>d DEF LocalCommand, WriteCommand
<1>5. CASE Forward \/ FetchHardware \/ ReceiveChunk
  BY <1>l, <1>5 DEF Forward, FetchHardware, AsksFirmware, ReceiveChunk, requestVars,
     Current, Sending
<1>6. CASE Sent
  <2>1. CASE rec.kind \in Fetches
    <3>1. ~Sending
      BY <2>1 DEF Sending, Fetches, Forwarded
    <3> QED
      BY <1>l, <1>6, <2>1, <3>1 DEF Sent, requestVars, Current
  <2> QED
    BY <1>6, <1>d, <2>1 DEF Sent
<1>7. CASE SendFails
  BY <1>7, <1>d, <1>f DEF SendFails
<1>8. CASE FetchNothing \/ FetchLocal
  <2>1. (FALSE \in BOOLEAN /\ Delivered(FALSE) \in Result) \/ pc = "idle"
    BY <1>0, DeliveredTyped
  <2> QED
    BY <1>8, <1>d, <1>w, <2>1 DEF FetchNothing, FetchLocal
<1>9. CASE DeliverRaw
  <2>1. (TRUE \in BOOLEAN /\ Delivered(TRUE) \in Result) \/ pc = "idle"
    BY <1>0, DeliveredTyped
  <2> QED
    BY <1>9, <1>f, <1>w, <2>1 DEF DeliverRaw
<1>10. CASE ReceiveFails
  BY <1>10, <1>f DEF ReceiveFails
<1> QED
  BY <1>1, <1>2, <1>3, <1>4, <1>5, <1>6, <1>7, <1>8, <1>9, <1>10 DEF Next, Thread

LEMMA FetchMessage ==
  /\ Len(Message(FetchPacket)) = 1 /\ Message(FetchPacket)[1] = FetchChunk
  /\ FetchChunk \in AnyChunk /\ FetchChunk.command = Nothing /\ ~FetchChunk.more
<1>1. FetchPacket \in AnyCommand /\ FetchPacket.sends = 1 /\ Nothing = FetchPacket
  BY CommandTyped
<1>2. /\ Len(Message(FetchPacket)) = FetchPacket.sends
      /\ \A p \in 1..FetchPacket.sends :
            Message(FetchPacket)[p] = Chunk(FetchPacket, p, FetchPacket.sends)
  BY <1>1, MessageTyped
<1>3. 1 \in 1..1 /\ 1 \in Nat
  OBVIOUS
<1>4. Message(FetchPacket)[1] = Chunk(FetchPacket, 1, 1)
  BY <1>1, <1>2, <1>3
<1>5. /\ Chunk(FetchPacket, 1, 1) \in AnyChunk
      /\ Chunk(FetchPacket, 1, 1).command = FetchPacket
  BY <1>1, <1>3, ChunkTyped
<1>6. ~Chunk(FetchPacket, 1, 1).more
  BY <1>1, <1>3, ChunkTyped
<1>7. Len(Message(FetchPacket)) = 1
  BY <1>1, <1>2
<1> QED
  BY <1>1, <1>4, <1>5, <1>6, <1>7, Zenon DEF FetchChunk

LEMMA SendChunkSends ==
  ASSUME Typing, SendChunk
  PROVE  /\ tx = <<>> /\ tx' # <<>> /\ tx'[1] \in AnyChunk
         /\ rec.kind \in Fetches =>
               /\ tx'[1] = FetchChunk /\ left = 1 /\ Message2Send = Message(FetchPacket)
               /\ ~Sending
         /\ rec.kind \notin Fetches =>
               /\ Sending /\ tx'[1].command = Command
               /\ tx'[1].more <=> left > 1
               /\ tx'[1] = Chunk(Command, rec.sends - left + 1, rec.sends)
               /\ Len(Message2Send) = rec.sends /\ Message2Send = Message(Command)
         /\ left \in 1..2 /\ left' = left - 1
         /\ pc = "send" /\ pc' = "send" /\ UNCHANGED <<requestVars, localVars, firmware, rx>>
<1>0. /\ tx = <<>> /\ pc = "send" /\ left > 0 /\ left' = left - 1 /\ pc' = pc
      /\ tx' = <<Message2Send[Len(Message2Send) - left + 1]>>
      /\ UNCHANGED <<requestVars, localVars, firmware, rx>>
  BY DEF SendChunk, Empty
<1>1. InBatch /\ Places /\ left \in 1..2 /\ left <= Len(Message2Send)
      /\ rec.kind \in Forwarded \cup Fetches /\ request \in Nat
  BY <1>0 DEF Typing, Places
<1>2. Command \in AnyCommand /\ Command.sends = rec.sends /\ FetchPacket \in AnyCommand
      /\ FetchPacket.sends = 1
  BY <1>0, <1>1, CommandTyped
<1>3. CASE rec.kind \in Fetches
  <2>1. Message2Send = Message(FetchPacket)
    BY <1>3 DEF Message2Send
  <2>2. Len(Message2Send) = 1 /\ Message2Send[1] = FetchChunk
    BY <2>1, FetchMessage
  <2>3. left = 1 /\ Len(Message2Send) - left + 1 = 1
    BY <1>1, <2>2
  <2>4. tx' = <<FetchChunk>> /\ FetchChunk \in AnyChunk
    BY <1>0, <2>2, <2>3, FetchMessage
  <2>5. ~Sending
    BY <1>3 DEF Sending, Fetches, Forwarded
  <2> QED
    BY <1>0, <1>1, <1>3, <2>1, <2>3, <2>4, <2>5
<1>4. CASE rec.kind \notin Fetches
  <2>1. Message2Send = Message(Command)
    BY <1>4 DEF Message2Send
  <2>2. /\ Len(Message2Send) = rec.sends /\ rec.sends \in 1..2
        /\ \A p \in 1..rec.sends : Message2Send[p] = Chunk(Command, p, rec.sends)
    BY <1>2, <2>1, MessageTyped
  <2> DEFINE p == rec.sends - left + 1
  <2>3. p \in 1..rec.sends /\ p \in Nat /\ (p < rec.sends <=> left > 1)
        /\ Len(Message2Send) - left + 1 = p
    BY <1>1, <2>2
  <2> HIDE DEF p
  <2>4. tx' = <<Chunk(Command, p, rec.sends)>>
    BY <1>0, <2>2, <2>3
  <2>5. /\ Chunk(Command, p, rec.sends) \in AnyChunk
        /\ Chunk(Command, p, rec.sends).command = Command
        /\ Chunk(Command, p, rec.sends).more <=> p < rec.sends
    BY <1>2, <2>2, <2>3, ChunkTyped
  <2>6. tx' # <<>> /\ tx'[1] = Chunk(Command, p, rec.sends)
    BY <2>4
  <2>7. Sending
    BY <1>0, <1>1, <1>4 DEF Sending
  <2> QED
    BY <1>0, <1>1, <1>4, <2>1, <2>2, <2>3, <2>5, <2>6, <2>7 DEF p
<1> QED
  BY <1>3, <1>4

LEMMA AnswersFetch ==
  ASSUME Typing, Answers
  PROVE  FetchInTx /\ assembled = <<>> /\ tx' = <<>> /\ answer' = answer
<1>1. /\ tx # <<>> /\ tx' = <<>> /\ assembled \in Seq(AnyChunk) /\ tx \in Seq(AnyChunk)
      /\ Append(assembled, tx[1]) = Message(FetchPacket) /\ answer' = answer
      /\ Len(tx) <= 1
  BY DEF Typing, Mailboxes, Answers, Firmware, Empty
<1>2. Len(Message(FetchPacket)) = 1 /\ Message(FetchPacket)[1] = FetchChunk
  BY FetchMessage
<1>3. tx[1] \in AnyChunk
  BY <1>1, OneChunk
<1>4. Len(Append(assembled, tx[1])) = Len(assembled) + 1 /\ Len(assembled) \in Nat
      /\ Append(assembled, tx[1])[Len(assembled) + 1] = tx[1]
  BY <1>1, <1>3
<1>5. Len(assembled) = 0
  BY <1>1, <1>2, <1>4
<1>6. assembled = <<>>
  BY <1>1, <1>5, EmptySeq
<1> QED
  BY <1>1, <1>2, <1>4, <1>5, <1>6 DEF FetchInTx

\* What is in the mailbox and what the firmware answers for, by the steps that change it.
LEMMA MailboxStep ==
  ASSUME Typing, [Next]_vars
  PROVE  \/ SendChunk \/ Firmware
         \/ tx' = tx /\ answer' = answer /\ assembled' = assembled
BY DEF Next, Thread, vars, firmware, Accept, MamConfig, LocalCommand, WriteCommand, Forward,
   Sent, SendFails, FetchHardware, FetchLocal, FetchNothing, ReceiveChunk, ReceiveFails,
   DeliverRaw, FirmwareAnswers, StopOrStart

LEMMA PastStep == Typing /\ PastInv /\ [Next]_vars => PastInv'
<1> SUFFICES ASSUME Typing, PastInv, [Next]_vars PROVE PastInv'
  OBVIOUS
<1>0. answer \in AnyCommand /\ (tx # <<>> => tx[1] \in AnyChunk /\ tx[1].command \in AnyCommand)
  <2>1. tx # <<>> => tx[1] \in AnyChunk
    BY OneChunk DEF Typing, Mailboxes
  <2> QED
    BY <2>1 DEF Typing, Mailboxes, AnyChunk
<1>1. ASSUME NEW c \in AnyCommand, NamedAt(c)' PROVE Past(c)'
  <2>1. NamedAt(c) \/ (Answers /\ c = answer)
    BY <1>1, NamedGrows
  <2>2. Past(c)
    BY <2>1, AnswersFetch DEF PastInv
  <2> QED
    BY <2>2, PastStays
<1>2. Past(Nothing)'
  BY DEF Past
<1>3. CASE SendChunk
  <2>1. UNCHANGED <<requestVars, answer>> /\ pc = "send" /\ pc' = "send"
    BY <1>3, SendChunkSends DEF firmware
  <2>2. Past(answer)' \/ Current(answer)'
    BY <1>0, <2>1, PastStays DEF PastInv
  <2>3. CASE rec.kind \in Fetches
    <3>1. tx'[1] = FetchChunk /\ ~Sending /\ Past(answer)
      BY <1>3, <2>3, SendChunkSends DEF PastInv, Current
    <3>2. FetchChunk.command = Nothing
      BY FetchMessage
    <3>3. Past(answer)'
      BY <1>0, <2>1, <3>1, PastStays
    <3> QED
      BY <1>1, <1>2, <2>2, <3>1, <3>2, <3>3 DEF PastInv
  <2>4. CASE rec.kind \notin Fetches
    <3>1. Sending /\ tx'[1].command = Command
      BY <1>3, <2>4, SendChunkSends
    <3>2. Command' = Command /\ Sending'
      BY <2>1, <3>1 DEF Command, Sending, rec, requestVars
    <3>3. ~FetchInTx'
      <4>1. Command.pos > 0 /\ Command \in AnyCommand
        BY <2>1, CommandTyped, RecordTyped DEF Typing, Places
      <4>2. FetchChunk.command = Nothing /\ Nothing.pos = 0
        BY FetchMessage DEF Nothing
      <4> QED
        BY <3>1, <4>1, <4>2 DEF FetchInTx
    <3> QED
      BY <1>1, <2>2, <3>1, <3>2, <3>3 DEF PastInv, Current
  <2> QED
    BY <2>3, <2>4
<1>4. CASE Firmware
  <2>1. tx' = <<>> /\ answer' \in {answer, Nothing, tx[1].command} /\ tx # <<>>
    BY <1>4, AnswersFetch, FirmwareTakes DEF FetchInTx
  <2>2. Past(answer') \/ Current(answer')
    BY <2>1 DEF PastInv, Past
  <2>3. answer' \in AnyCommand
    BY <1>0, <2>1, CommandTyped
  <2>4. UNCHANGED <<requestVars, pc>>
    BY <1>4 DEF Firmware
  <2>5. Past(answer)' \/ Current(answer)'
    BY <2>2, <2>4 DEF Past, Forwards, Older, Current, Sending, Command, rec, requestVars
  <2> QED
    BY <1>1, <2>1, <2>5 DEF PastInv, FetchInTx
<1>5. CASE tx' = tx /\ answer' = answer
  BY <1>0, <1>1, <1>5, PastStays DEF PastInv, FetchInTx
<1> QED
  BY <1>3, <1>4, <1>5, MailboxStep

-----------------------------------------------------------------------------
(* The firmware is not asked twice for the answer to a command.              *)

FetchSent == Receiving \/ (pc = "send" /\ rec.kind \in Fetches /\ left = 0)

\* The firmware sent no answer to c.
Fresh(c) == c = Nothing \/ ~NamedAt(c)

\* Nor one to the command that it answers for once it has emptied the mailbox.
FreshNext == Fresh(answer) \/ (tx # <<>> /\ tx[1] # FetchChunk /\ ~tx[1].more)

FreshInv ==
    /\ FetchInTx => Fresh(answer)
    /\ tx # <<>> => FetchInTx \/ Fresh(tx[1].command)
    /\ (hardware /\ pc # "idle" /\ ~FetchSent) => (FreshNext /\ ~FetchInTx)
    /\ (Sending /\ left = 0) => FreshNext
    /\ (Sending /\ left < Len(Message2Send)) => ~FetchInTx

LEMMA FreshStays ==
  ASSUME Typing, [Next]_vars, NEW c, Fresh(c), ~(Answers /\ c = answer)
  PROVE  Fresh(c)'
<1>1. NamedAt(c)' => NamedAt(c)
  BY NamedGrows
<1>2. Nothing' = Nothing
  BY DEF Nothing
<1> QED
  BY <1>1, <1>2 DEF Fresh

\* The command that is sent was not answered before.
LEMMA CurrentFresh ==
  ASSUME Typing, PastInv, Sending
  PROVE  Command \in AnyCommand /\ Command # Nothing /\ Fresh(Command)
<1>1. Command \in AnyCommand /\ Command.request = request /\ Command.pos = pos
      /\ pos \in Nat /\ pos > 0 /\ request \in Nat /\ pc # "idle"
  BY CommandTyped, RecordTyped DEF Typing, Places, Sending
<1>2. Command # Nothing
  BY <1>1 DEF Nothing
<1>3. ~Past(Command)
  BY <1>1, <1>2 DEF Past, Older
<1> QED
  BY <1>1, <1>2, <1>3 DEF PastInv, Fresh

\* When the firmware comes to hold a response, and what is sent of a command.
LEMMA HardwareStep ==
  ASSUME Typing, [Next]_vars, ~SendChunk
  PROVE  /\ hardware' /\ pc' # "idle" /\ ~FetchSent' =>
               (hardware /\ pc # "idle" /\ ~FetchSent) \/ (Sending /\ left = 0)
         /\ Sending' => \/ Sending /\ left' = left /\ Message2Send' = Message2Send
                        \/ left' = Len(Message2Send') /\ left' > 0
<1>0. InBatch /\ Places /\ request \in Nat
  BY DEF Typing, Places
<1> DEFINE Hw == hardware' /\ pc' # "idle" /\ ~FetchSent' =>
                    (hardware /\ pc # "idle" /\ ~FetchSent) \/ (Sending /\ left = 0)
           Sn == Sending' => \/ Sending /\ left' = left /\ Message2Send' = Message2Send
                             \/ left' = Len(Message2Send') /\ left' > 0
<1>r. ASSUME UNCHANGED requestVars
      PROVE  rec' = rec /\ Message2Send' = Message2Send
  BY <1>r DEF requestVars, rec, Message2Send, Command
<1>w. ASSUME pc' \in {"idle", "record", "receive", "deliver"} PROVE Sn
  BY <1>w DEF Sending
<1>u. ASSUME UNCHANGED <<pc, requestVars, left>>, hardware' = hardware PROVE Hw /\ Sn
  <2>1. UNCHANGED requestVars /\ pc' = pc /\ left' = left
    BY <1>u
  <2>2. rec' = rec /\ Message2Send' = Message2Send
    BY <1>r, <2>1
  <2>3. (FetchSent' <=> FetchSent) /\ (Sending' <=> Sending)
    BY <2>1, <2>2 DEF FetchSent, Receiving, Sending
  <2>4. Hw
    BY <1>u, <2>1, <2>3
  <2>5. Sn
    BY <2>1, <2>2, <2>3
  <2> QED
    BY <2>4, <2>5
<1>p. ASSUME NEW r, Written(r) PROVE pc' \in {"idle", "record"}
  BY <1>p DEF Written
<1>1. CASE UNCHANGED vars \/ Firmware \/ FirmwareAnswers \/ StopOrStart
  BY <1>u, <1>1 DEF vars, localVars, Firmware, FirmwareAnswers, StopOrStart
<1>2. CASE (\E b \in Batches : Accept(b)) \/ LocalCommand \/ FetchLocal \/ FetchNothing
  <2>1. pc' \in {"idle", "record"} /\ ((pc = "record" /\ hardware' = hardware) \/ ~hardware')
    BY <1>2, <1>p DEF Accept, LocalCommand, Installs, FetchLocal, FetchNothing
  <2> QED
    BY <1>w, <2>1 DEF FetchSent, Receiving
<1>3. CASE MamConfig \/ WriteCommand
  <2>1. pc' \in {"idle", "record"} /\ pc = "record" /\ (hardware' = hardware \/ ~hardware')
    BY <1>3, <1>p DEF MamConfig, WriteCommand, Installs, Fails, localVars
  <2> QED
    BY <1>w, <2>1 DEF FetchSent, Receiving
<1>4. CASE Forward
  <2>1. /\ pc = "record" /\ pc' = "send" /\ left' = rec.sends /\ rec.kind \in Forwarded
        /\ hardware' = hardware /\ UNCHANGED requestVars
    BY <1>4 DEF Forward, localVars
  <2>2. Message2Send' = Message(Command)
    BY <1>r, <2>1 DEF Message2Send, Forwarded, Fetches
  <2>3. Len(Message(Command)) = rec.sends /\ rec.sends \in 1..2
    BY <1>0, <2>1, CommandTyped, MessageTyped
  <2>4. Hw
    BY <2>1 DEF FetchSent, Receiving
  <2> QED
    BY <2>1, <2>2, <2>3, <2>4
<1>5. CASE Sent
  <2>1. pc = "send" /\ left = 0 /\ rec.kind \in Forwarded \cup Fetches
    BY <1>0, <1>5 DEF Sent, Places
  <2>2. CASE rec.kind \in Fetches
    BY <1>5, <1>w, <2>2 DEF Sent, FetchSent, Receiving
  <2>3. CASE rec.kind \notin Fetches
    <3>1. Sending /\ pc' \in {"idle", "record"}
      BY <1>5, <1>p, <2>1, <2>3 DEF Sent, Sending
    <3> QED
      BY <1>w, <2>1, <3>1
  <2> QED
    BY <2>2, <2>3
<1>6. CASE SendFails
  <2>1. /\ pc = "send" /\ left > 0 /\ hardware' = hardware
        /\ IF rec.kind \in Fetches THEN Fails ELSE Written(Direct("failed"))
    BY <1>6 DEF SendFails, localVars
  <2>2. pc' \in {"idle", "record"}
    BY <1>p, <2>1 DEF Fails
  <2>3. ~FetchSent
    BY <2>1 DEF FetchSent, Receiving
  <2> QED
    BY <1>w, <2>1, <2>2, <2>3
<1>7. CASE FetchHardware
  <2>1. /\ pc = "record" /\ pc' = "send" /\ rec.kind \in Fetches
        /\ hardware' = hardware /\ UNCHANGED requestVars
    BY <1>7 DEF FetchHardware, AsksFirmware, localVars
  <2>2. ~Sending'
    BY <1>r, <2>1 DEF Sending, Fetches, Forwarded
  <2> QED
    BY <2>1, <2>2 DEF FetchSent, Receiving
<1>8. CASE ReceiveChunk \/ ReceiveFails
  BY <1>w, <1>8 DEF ReceiveChunk, ReceiveFails, Fails, FetchSent, Receiving
<1>9. CASE DeliverRaw
  <2>1. pc' \in {"idle", "record"} /\ ~hardware'
    BY <1>9, <1>p DEF DeliverRaw, Fails
  <2> QED
    BY <1>w, <2>1
<1> QED
  BY <1>1, <1>2, <1>3, <1>4, <1>5, <1>6, <1>7, <1>8, <1>9 DEF Next, Thread

LEMMA FreshStep ==
  Typing /\ PendingInv /\ PastInv /\ FreshInv /\ [Next]_vars => FreshInv'
<1> SUFFICES ASSUME Typing, PendingInv, PastInv, FreshInv, [Next]_vars PROVE FreshInv'
  OBVIOUS
<1>0. InBatch /\ Places /\ request \in Nat
  BY DEF Typing, Places
<1>m. ASSUME pc = "send" PROVE Len(Message2Send) \in 1..2
  BY <1>0, <1>m, CommandTyped, MessageTyped DEF Message2Send
<1>1. CASE SendChunk
  <2>1. /\ tx = <<>> /\ tx' # <<>> /\ left \in 1..2 /\ left' = left - 1
        /\ pc = "send" /\ pc' = "send" /\ rec' = rec /\ hardware' = hardware
        /\ answer' = answer
    BY <1>1, SendChunkSends DEF requestVars, localVars, firmware, rec
  <2>2. ~Answers
    BY <2>1 DEF Answers, Firmware, Empty
  <2>3. FreshNext => Fresh(answer)
    BY <2>1 DEF FreshNext
  <2>4. Fresh(answer) => Fresh(answer)'
    BY <2>1, <2>2, FreshStays
  <2>5. ~FetchSent
    BY <2>1 DEF FetchSent, Receiving
  <2>6. CASE rec.kind \in Fetches
    <3>1. tx'[1] = FetchChunk /\ left = 1 /\ rec.kind \notin Forwarded
      BY <1>1, <2>6, SendChunkSends DEF Fetches, Forwarded
    <3>2. hardware
      BY <2>1, <2>6 DEF PendingInv, Asking
    <3>3. Fresh(answer)'
      BY <2>1, <2>3, <2>4, <2>5, <3>2 DEF FreshInv
    <3>4. FetchSent' /\ ~Sending' /\ FetchInTx'
      <4>1. FetchChunk' = FetchChunk
        BY DEF FetchChunk, FetchPacket, Chunk
      <4> QED
        BY <2>1, <2>6, <3>1, <4>1 DEF FetchSent, Sending, FetchInTx
    <3> QED
      BY <3>3, <3>4 DEF FreshInv
  <2>7. CASE rec.kind \notin Fetches
    <3>1. /\ Sending /\ tx'[1].command = Command
          /\ tx'[1].more <=> left > 1
      BY <1>1, <2>7, SendChunkSends
    <3>2. Command \in AnyCommand /\ Command # Nothing /\ Fresh(Command)
      BY <3>1, CurrentFresh
    <3>3. Fresh(tx[1].command)'
      BY <2>2, <3>1, <3>2, FreshStays
    <3>4. FetchChunk.command = Nothing /\ FetchChunk' = FetchChunk
      BY FetchMessage DEF FetchChunk, FetchPacket, Chunk
    <3>5. tx'[1] # FetchChunk
      BY <3>1, <3>2, <3>4
    <3>6. ~FetchInTx'
      BY <3>4, <3>5 DEF FetchInTx
    <3>7. hardware => FreshNext'
      BY <2>1, <2>3, <2>4, <2>5 DEF FreshInv, FreshNext
    <3>8. left' = 0 => FreshNext'
      <4>1. left' = 0 => ~tx'[1].more
        BY <2>1, <3>1
      <4> QED
        BY <2>1, <3>4, <3>5, <4>1 DEF FreshNext
    <3> QED
      BY <2>1, <3>3, <3>6, <3>7, <3>8 DEF FreshInv
  <2> QED
    BY <2>6, <2>7
<1>2. CASE Firmware
  <2>1. tx' = <<>> /\ UNCHANGED <<pc, requestVars, localVars, left>>
    BY <1>2 DEF Firmware, Empty
  <2>2. ~FetchInTx'
    BY <2>1 DEF FetchInTx
  <2>3. ASSUME FreshNext, ~FetchInTx PROVE FreshNext'
    <3>1. ~Answers
      BY <2>3, AnswersFetch
    <3>2. tx # <<>> /\ ((answer' = answer /\ tx[1].more) \/ answer' \in {Nothing, tx[1].command})
      BY <1>2, <3>1, FirmwareTakes
    <3>3. CASE answer' = answer /\ tx[1].more
      <4>1. Fresh(answer)
        BY <2>3, <3>3 DEF FreshNext
      <4>2. Fresh(answer)'
        BY <3>1, <3>3, <4>1, FreshStays
      <4> QED
        BY <4>2 DEF FreshNext
    <3>4. CASE answer' = Nothing
      BY <3>4 DEF FreshNext, Fresh, Nothing
    <3>5. CASE answer' = tx[1].command
      <4>1. Fresh(tx[1].command)
        BY <2>3, <3>2 DEF FreshInv
      <4>2. Fresh(answer)'
        BY <3>1, <3>5, <4>1, FreshStays
      <4> QED
        BY <4>2 DEF FreshNext
    <3> QED
      BY <3>2, <3>3, <3>4, <3>5
  <2>4. FetchSent' = FetchSent /\ Sending' = Sending /\ hardware' = hardware
        /\ Message2Send' = Message2Send
    BY <2>1 DEF FetchSent, Receiving, Sending, rec, requestVars, localVars, Message2Send,
       Command
  <2>5. Sending /\ left = 0 => ~FetchInTx
    BY <1>m DEF FreshInv, Sending
  <2> QED
    BY <2>1, <2>2, <2>3, <2>4, <2>5 DEF FreshInv
<1>3. CASE tx' = tx /\ answer' = answer /\ ~SendChunk /\ ~Firmware
  <2>1. ~Answers
    BY <1>3 DEF Answers
  <2>2. FetchInTx' = FetchInTx
    BY <1>3 DEF FetchInTx, FetchChunk, FetchPacket, Chunk
  <2>3. Fresh(answer) => Fresh(answer)'
    BY <1>3, <2>1, FreshStays
  <2>4. Fresh(tx[1].command) => Fresh(tx[1].command)'
    BY <1>3, <2>1, FreshStays
  <2>5. FreshNext => FreshNext'
    BY <1>3, <2>3 DEF FreshNext, FetchChunk, FetchPacket, Chunk
  <2>6. Sending /\ left = 0 => FreshNext /\ ~FetchInTx
    BY <1>m DEF FreshInv, Sending
  <2>7. hardware' /\ pc' # "idle" /\ ~FetchSent' =>
           (hardware /\ pc # "idle" /\ ~FetchSent) \/ (Sending /\ left = 0)
    BY <1>3, HardwareStep
  <2>8. (FetchInTx => Fresh(answer))' /\ (tx # <<>> => FetchInTx \/ Fresh(tx[1].command))'
    BY <1>3, <2>2, <2>3, <2>4 DEF FreshInv
  <2>9. hardware' /\ pc' # "idle" /\ ~FetchSent' => FreshNext' /\ ~FetchInTx'
    BY <2>2, <2>5, <2>6, <2>7 DEF FreshInv
  <2>10. Sending' => \/ Sending /\ left' = left /\ Message2Send' = Message2Send
                     \/ left' = Len(Message2Send') /\ left' > 0
    BY <1>3, HardwareStep
  <2>11. Sending' /\ left' = 0 => FreshNext'
    BY <2>5, <2>10 DEF FreshInv
  <2>12. Sending' /\ left' < Len(Message2Send') => ~FetchInTx'
    BY <2>2, <2>10 DEF FreshInv
  <2> QED
    BY <2>8, <2>9, <2>11, <2>12 DEF FreshInv
<1> QED
  BY <1>1, <1>2, <1>3, MailboxStep

-----------------------------------------------------------------------------
(* No chunk of an answer is in two places.                                   *)

\* What the firmware says to messages that were torn names no command.
Apart(x, y) == x.command = Nothing \/ x # y

ApartInv ==
    /\ \A k, l \in DOMAIN Flight : k # l => Apart(Flight[k], Flight[l])
    /\ Receiving =>
          \A q \in DOMAIN response, k \in DOMAIN Flight : Apart(response[q], Flight[k])
    /\ \A i \in DOMAIN results : results[i].raw => \A p \in DOMAIN results[i].parts :
          /\ \A k \in DOMAIN Flight : Apart(results[i].parts[p], Flight[k])
          /\ Receiving => \A q \in DOMAIN response : Apart(results[i].parts[p], response[q])
          /\ \A j \in DOMAIN results : results[j].raw /\ i # j =>
                \A q \in DOMAIN results[j].parts :
                   Apart(results[i].parts[p], results[j].parts[q])

LEMMA ApartStep == Typing /\ FreshInv /\ ApartInv /\ [Next]_vars => ApartInv'
<1> SUFFICES ASSUME Typing, FreshInv, ApartInv, [Next]_vars PROVE ApartInv'
  OBVIOUS
<1>0. Flight \in Seq(AnyChunk) /\ Flight' \in Seq(AnyChunk)
      /\ results \in Seq(Result) /\ response \in Seq(AnyChunk) /\ InBatch /\ Flags /\ Places
  <2>1. Typing'
    BY TypingStep
  <2>2. Flight' \in Seq(AnyChunk)
    BY <2>1 DEF Typing, Mailboxes, Flight
  <2> QED
    BY <2>2, FlightTyped DEF Typing, Buffers
<1> USE DEF Receiving
<1>n. Nothing' = Nothing
  BY DEF Nothing
<1>1. ASSUME Flight' = Flight, results' \in {results, <<>>},
             Receiving' => (Receiving /\ response' = response) \/ response' = <<>>
      PROVE  ApartInv'
  <2> HIDE DEF Receiving
  <2> QED
    BY <1>1, <1>n DEF ApartInv, Apart
<1>w. ASSUME pc # "idle", NEW r \in Result, Written(r), Flight' = Flight,
             r.raw => Receiving /\ \A p \in DOMAIN r.parts :
                         p \in DOMAIN response /\ r.parts[p] = response[p]
      PROVE  ApartInv'
  <2>1. /\ results' \in Seq(Result) /\ Len(results') = Len(results) + 1
        /\ results'[Len(results) + 1] = r /\ pc' \in {"record", "idle"}
        /\ \A i \in 1..Len(results) : results'[i] = results[i]
    BY <1>0, <1>w, WrittenStep
  <2>a. /\ DOMAIN results = 1..Len(results) /\ DOMAIN results' = 1..Len(results) + 1
        /\ Len(results) \in Nat
    BY <1>0, <2>1
  <2>2. \A i \in DOMAIN results' :
           (i \in DOMAIN results /\ results'[i] = results[i]) \/ results'[i] = r
    <3> SUFFICES ASSUME NEW i \in 1..Len(results) + 1
                 PROVE  (i \in 1..Len(results) /\ results'[i] = results[i]) \/ results'[i] = r
      BY <2>a
    <3>1. i \in 1..Len(results) \/ i = Len(results) + 1
      BY <2>a
    <3> QED
      BY <2>1, <3>1
  <2>3. \A i, j \in DOMAIN results' : i # j => i \in DOMAIN results \/ j \in DOMAIN results
    BY <1>0, <2>1
  <2>4. ~Receiving'
    BY <2>1
  <2> HIDE DEF Receiving
  <2>5. \A k, l \in DOMAIN Flight' : k # l => Apart(Flight'[k], Flight'[l])
    BY <1>w DEF ApartInv
  <2>6. ASSUME NEW i \in DOMAIN results', results'[i].raw, NEW p \in DOMAIN results'[i].parts
        PROVE  \/ /\ i \in DOMAIN results /\ results[i].raw /\ p \in DOMAIN results[i].parts
                  /\ results'[i].parts[p] = results[i].parts[p]
               \/ /\ Receiving /\ p \in DOMAIN response /\ results'[i].parts[p] = response[p]
                  /\ results'[i] = r
    BY <1>w, <2>2, <2>6
  <2>7. ASSUME NEW i \in DOMAIN results', results'[i].raw, NEW p \in DOMAIN results'[i].parts,
               NEW k \in DOMAIN Flight'
        PROVE  Apart(results'[i].parts[p], Flight'[k])
    BY <1>w, <2>6, <2>7 DEF ApartInv
  <2>8. ASSUME NEW i \in DOMAIN results', results'[i].raw, NEW p \in DOMAIN results'[i].parts,
               NEW j \in DOMAIN results', results'[j].raw, NEW q \in DOMAIN results'[j].parts,
               i # j
        PROVE  Apart(results'[i].parts[p], results'[j].parts[q])
    <3>1. CASE i \in DOMAIN results /\ j \in DOMAIN results
      <4>1. results'[i] = results[i] /\ results'[j] = results[j]
        BY <2>1, <2>a, <3>1
      <4> QED
        BY <2>8, <3>1, <4>1 DEF ApartInv
    <3>2. CASE i \in DOMAIN results /\ j \notin DOMAIN results
      <4>1. /\ results'[i] = results[i] /\ Receiving /\ q \in DOMAIN response
            /\ results'[j].parts[q] = response[q]
        BY <1>0, <2>1, <2>6, <2>8, <3>2
      <4> QED
        BY <2>8, <3>2, <4>1 DEF ApartInv
    <3>3. CASE i \notin DOMAIN results /\ j \in DOMAIN results
      <4>1. /\ results'[j] = results[j] /\ Receiving /\ p \in DOMAIN response
            /\ results'[i].parts[p] = response[p]
        BY <1>0, <2>1, <2>6, <2>8, <3>3
      <4>2. Apart(results[j].parts[q], response[p])
        BY <2>8, <3>3, <4>1 DEF ApartInv
      <4> QED
        BY <4>1, <4>2 DEF Apart
    <3> QED
      BY <2>3, <2>8, <3>1, <3>2, <3>3
  <2> QED
    BY <1>n, <2>4, <2>5, <2>7, <2>8 DEF ApartInv, Apart
<1>d. ASSUME pc # "idle", NEW status \in {"ok", "failed", "nothing"},
             Written(Direct(status)), Flight' = Flight
      PROVE  ApartInv'
  <2>1. Direct(status) \in Result /\ Direct(status).raw = FALSE
    BY <1>0, <1>d, DirectTyped
  <2> QED
    BY <1>d, <1>w, <2>1
<1>2. CASE UNCHANGED vars \/ Forward \/ SendChunk \/ FetchHardware \/ ReceiveFails
           \/ StopOrStart \/ \E b \in Batches : Accept(b)
  BY <1>1, <1>2 DEF vars, requestVars, localVars, firmware, Flight, Forward, SendChunk,
     FetchHardware, ReceiveFails, Fails, StopOrStart, Accept
<1>3. CASE MamConfig
  BY <1>1, <1>3, <1>d DEF MamConfig, Fails, firmware, Flight
<1>4. CASE LocalCommand \/ WriteCommand
  BY <1>4, <1>d DEF LocalCommand, WriteCommand, firmware, Flight
<1>5. CASE Sent
  BY <1>1, <1>5, <1>d DEF Sent, requestVars, firmware, Flight
<1>6. CASE SendFails
  BY <1>1, <1>6, <1>d DEF SendFails, Fails, firmware, Flight
<1>7. CASE FetchNothing
  BY <1>7, <1>d DEF FetchNothing, firmware, Flight
<1>8. CASE FetchLocal
  <2>1. pc # "idle" /\ Written(Delivered(FALSE)) /\ Flight' = Flight
    BY <1>8 DEF FetchLocal, firmware, Flight
  <2>2. Delivered(FALSE) \in Result /\ Delivered(FALSE).raw = FALSE
    BY <1>0, <2>1, DeliveredTyped
  <2> QED
    BY <1>w, <2>1, <2>2
<1>9. CASE DeliverRaw
  <2>1. pc = "deliver" /\ (Fails \/ Written(Delivered(TRUE))) /\ Flight' = Flight
    BY <1>9 DEF DeliverRaw, firmware, Flight
  <2>2. /\ Delivered(TRUE) \in Result
        /\ \A p \in DOMAIN Delivered(TRUE).parts :
              p \in DOMAIN response /\ Delivered(TRUE).parts[p] = response[p]
    BY <1>0, <2>1, DeliveredTyped
  <2> QED
    BY <1>1, <1>w, <2>1, <2>2 DEF Fails
<1>10. CASE ReceiveChunk
  <2>1. /\ Flight # <<>> /\ Flight[1] = rx[1] /\ Len(Flight') = Len(Flight) - 1
        /\ \A k \in 1..Len(Flight') : k + 1 \in 1..Len(Flight) /\ Flight'[k] = Flight[k + 1]
    BY <1>10, FlightReceived
  <2>2. /\ response' = Append(response, rx[1]) /\ results' = results /\ Receiving
    BY <1>10 DEF ReceiveChunk, requestVars
  <2>3. /\ 1 \in DOMAIN Flight
        /\ \A k \in DOMAIN Flight' : k + 1 \in DOMAIN Flight /\ k + 1 # 1
                                     /\ Flight'[k] = Flight[k + 1]
        /\ \A k, l \in DOMAIN Flight' : k # l => k + 1 # l + 1
    BY <1>0, <2>1
  <2>4. \A q \in DOMAIN response' : \/ q \in DOMAIN response /\ response'[q] = response[q]
                                    \/ response'[q] = Flight[1]
    BY <1>0, <2>1, <2>2
  <2> HIDE DEF Receiving
  <2>5. \A k, l \in DOMAIN Flight' : k # l => Apart(Flight'[k], Flight'[l])
    BY <2>3 DEF ApartInv
  <2>6. \A q \in DOMAIN response', k \in DOMAIN Flight' : Apart(response'[q], Flight'[k])
    BY <2>2, <2>3, <2>4 DEF ApartInv
  <2>7. ASSUME NEW i \in DOMAIN results, results[i].raw, NEW p \in DOMAIN results[i].parts
        PROVE  /\ \A k \in DOMAIN Flight' : Apart(results[i].parts[p], Flight'[k])
               /\ \A q \in DOMAIN response' : Apart(results[i].parts[p], response'[q])
    BY <2>2, <2>3, <2>4, <2>7 DEF ApartInv
  <2> QED
    BY <1>n, <2>2, <2>5, <2>6, <2>7 DEF ApartInv, Apart
<1>11. CASE FirmwareAnswers
  BY <1>1, <1>11, FlightMoved DEF FirmwareAnswers, requestVars, localVars
<1>12. CASE Firmware /\ ~Answers
  BY <1>1, <1>12, FirmwareTakes DEF Firmware, requestVars, localVars
<1>13. CASE Answers
  <2>1. /\ Len(Flight') = Len(Flight) + answer.answers /\ answer.answers \in 1..2
        /\ \A k \in 1..Len(Flight) : Flight'[k] = Flight[k]
        /\ \A k \in 1..answer.answers :
               Flight'[Len(Flight) + k] = Chunk(answer, k, answer.answers)
    BY <1>13, FlightAnswered
  <2>2. UNCHANGED <<pc, results, response>>
    BY <1>13 DEF Answers, Firmware, requestVars, localVars
  <2>3. answer = Nothing \/ ~NamedAt(answer)
    BY <1>13, AnswersFetch DEF FreshInv, Fresh
  <2>4. ASSUME NEW k \in DOMAIN Flight'
        PROVE  \/ k \in DOMAIN Flight /\ Flight'[k] = Flight[k]
               \/ /\ k \notin DOMAIN Flight
                  /\ Flight'[k].command = answer /\ Flight'[k].part = k - Len(Flight)
    <3>1. CASE k \in 1..Len(Flight)
      BY <1>0, <2>1, <3>1
    <3>2. CASE k \notin 1..Len(Flight)
      <4>1. k - Len(Flight) \in 1..answer.answers /\ k = Len(Flight) + (k - Len(Flight))
        BY <1>0, <2>1, <3>2
      <4>2. Flight'[k] = Chunk(answer, k - Len(Flight), answer.answers)
        BY <2>1, <4>1
      <4>3. /\ Chunk(answer, k - Len(Flight), answer.answers).command = answer
            /\ Chunk(answer, k - Len(Flight), answer.answers).part = k - Len(Flight)
        BY DEF Chunk
      <4> QED
        BY <1>0, <3>2, <4>2, <4>3
    <3> QED
      BY <3>1, <3>2
  <2>5. ASSUME NEW x, answer = Nothing \/ x.command # answer, NEW k \in DOMAIN Flight',
               \A l \in DOMAIN Flight : k = l => Apart(x, Flight[l])
        PROVE  Apart(x, Flight'[k])
    BY <2>4, <2>5 DEF Apart
  <2>6. \A k \in DOMAIN Flight : answer = Nothing \/ Flight[k].command # answer
    BY <2>3 DEF NamedAt
  <2>7. ASSUME NEW k \in DOMAIN Flight', NEW l \in DOMAIN Flight', k # l
        PROVE  Apart(Flight'[k], Flight'[l])
    <3>1. CASE k \in DOMAIN Flight
      <4>1. Flight'[k] = Flight[k]
        BY <2>4, <3>1
      <4>2. \A m \in DOMAIN Flight : l = m => Apart(Flight[k], Flight[m])
        BY <2>7, <3>1 DEF ApartInv
      <4> QED
        BY <2>5, <2>6, <3>1, <4>1, <4>2
    <3>2. CASE k \notin DOMAIN Flight /\ l \in DOMAIN Flight
      BY <2>4, <2>6, <3>2 DEF Apart
    <3>3. CASE k \notin DOMAIN Flight /\ l \notin DOMAIN Flight
      <4>1. Flight'[k].part = k - Len(Flight) /\ Flight'[l].part = l - Len(Flight)
        BY <2>4, <3>3
      <4>2. k - Len(Flight) # l - Len(Flight)
        BY <1>0, <2>7
      <4> QED
        BY <4>1, <4>2 DEF Apart
    <3> QED
      BY <3>1, <3>2, <3>3
  <2>8. ASSUME Receiving, NEW q \in DOMAIN response, NEW k \in DOMAIN Flight'
        PROVE  Apart(response[q], Flight'[k])
    <3>1. answer = Nothing \/ response[q].command # answer
      BY <2>3, <2>8 DEF NamedAt
    <3> QED
      BY <2>5, <2>8, <3>1 DEF ApartInv
  <2>9. ASSUME NEW i \in DOMAIN results, results[i].raw, NEW p \in DOMAIN results[i].parts,
               NEW k \in DOMAIN Flight'
        PROVE  Apart(results[i].parts[p], Flight'[k])
    <3>1. answer = Nothing \/ results[i].parts[p].command # answer
      BY <2>3, <2>9 DEF NamedAt
    <3>2. \A l \in DOMAIN Flight : Apart(results[i].parts[p], Flight[l])
      BY <2>9 DEF ApartInv
    <3> QED
      BY <2>5, <2>9, <3>1, <3>2
  <2> QED
    BY <1>n, <2>2, <2>7, <2>8, <2>9 DEF ApartInv, Apart
<1> QED
  BY <1>2, <1>3, <1>4, <1>5, <1>6, <1>7, <1>8, <1>9, <1>10, <1>11, <1>12, <1>13
     DEF Next, Thread

LEMMA ApartOnce == Typing /\ LocalInv /\ PastInv /\ ApartInv => ResponseOnce
<1> SUFFICES ASSUME Typing, LocalInv, PastInv, ApartInv,
                    NEW i \in DOMAIN results, NEW j \in DOMAIN results,
                    i # j, Fetched(i), Fetched(j),
                    results[i].parts[1].command # Nothing,
                    results[i].parts[1] = results[j].parts[1]
             PROVE  FALSE
  BY DEF ResponseOnce, Garbled
<1> DEFINE c == results[i].parts[1].command
<1>1. ASSUME NEW k \in DOMAIN results, Fetched(k)
      PROVE  1 \in DOMAIN results[k].parts /\ results[k].parts[1].command \in AnyCommand
             /\ k \in Nat /\ results[k].kind \in Fetches
  <2>1. results[k].parts \in Seq(AnyChunk) /\ results[k].parts # <<>> /\ k \in Nat
        /\ results[k].kind \in Fetches
    <3>1. results[k] \in Result /\ k \in Nat
      BY DEF Typing
    <3> QED
      BY <1>1, <3>1 DEF Result, Fetched
  <2>2. Len(results[k].parts) \in Nat \ {0}
    BY <2>1, EmptySeq
  <2>3. 1 \in DOMAIN results[k].parts /\ results[k].parts[1] \in AnyChunk
    BY <2>1, <2>2
  <2> QED
    BY <2>1, <2>3 DEF AnyChunk
<1>2. 1 \in DOMAIN results[i].parts /\ 1 \in DOMAIN results[j].parts /\ c \in AnyCommand
      /\ c = results[j].parts[1].command
  BY <1>1
<1> HIDE DEF c
<1>3. ASSUME NEW k \in {i, j}, ~results[k].raw
      PROVE  /\ c.request = request /\ c.pos \in 1..k - 1
             /\ batch.records[c.pos].kind \notin Forwarded
             /\ \A m \in c.pos + 1..k - 1 : results[m].kind \notin Fetches
  <2>1. k \in DOMAIN results /\ 1 \in DOMAIN results[k].parts /\ c = results[k].parts[1].command
    BY <1>2 DEF c
  <2>2. Hosted(results, batch.records, request, results[k].parts[1], 1, c, k)
    BY <1>3, <2>1 DEF LocalInv, AllHosted
  <2> QED
    BY <2>2 DEF Hosted
<1>4. ASSUME NEW k \in {i, j}, results[k].raw
      PROVE  c.request = request => batch.records[c.pos].kind \in Forwarded
  <2>1. k \in DOMAIN results /\ 1 \in DOMAIN results[k].parts /\ c = results[k].parts[1].command
    BY <1>2 DEF c
  <2>2. NamedAt(c)
    BY <1>4, <2>1 DEF NamedAt
  <2>3. Past(c) /\ c # Nothing
    BY <1>2, <2>2 DEF PastInv, c
  <2> QED
    BY <2>3 DEF Past, Forwards
<1>5. CASE results[i].raw /\ results[j].raw
  BY <1>2, <1>5 DEF ApartInv, Apart
<1>6. CASE ~results[i].raw /\ ~results[j].raw
  <2>1. i \in Nat /\ j \in Nat /\ results[i].kind \in Fetches /\ results[j].kind \in Fetches
    BY <1>1
  <2>2. c.pos \in 1..i - 1 /\ c.pos \in 1..j - 1
    BY <1>3, <1>6
  <2>3. (\A m \in c.pos + 1..i - 1 : results[m].kind \notin Fetches)
        /\ (\A m \in c.pos + 1..j - 1 : results[m].kind \notin Fetches)
    BY <1>3, <1>6
  <2>4. i \in c.pos + 1..j - 1 \/ j \in c.pos + 1..i - 1
    BY <2>1, <2>2
  <2> QED
    BY <2>1, <2>3, <2>4
<1>7. CASE results[i].raw /\ ~results[j].raw
  BY <1>3, <1>4, <1>7
<1>8. CASE ~results[i].raw /\ results[j].raw
  BY <1>3, <1>4, <1>8
<1> QED
  BY <1>5, <1>6, <1>7, <1>8

LEMMA EmptyFlight == Init => Flight = <<>> /\ results = <<>> /\ response = <<>> /\ ~Receiving
BY DEF Init, Flight, Empty, Receiving

LEMMA OnceInit == Init => LocalInv /\ PastInv /\ FreshInv /\ ApartInv
<1> SUFFICES ASSUME Init PROVE LocalInv /\ PastInv /\ FreshInv /\ ApartInv
  OBVIOUS
<1>1. /\ Flight = <<>> /\ results = <<>> /\ pc = "idle" /\ tx = <<>> /\ answer = Nothing
      /\ DOMAIN Flight = {} /\ DOMAIN results = {} /\ ~Receiving
  <2>1. DOMAIN <<>> = {}
    OBVIOUS
  <2> QED
    BY <2>1, EmptyFlight DEF Init, Empty
<1>2. LocalInv
  BY <1>1 DEF LocalInv
<1>3. PastInv
  BY <1>1 DEF PastInv, Past, NamedAt, FetchInTx
<1>4. FreshInv
  BY <1>1 DEF FreshInv, FetchInTx, Sending
<1>5. ApartInv
  BY <1>1 DEF ApartInv
<1> QED
  BY <1>2, <1>3, <1>4, <1>5

THEOREM LocalInvariant == Spec => []LocalInv
BY OnceInit, LocalStep, TypingInvariant, PendingInvariant, PTL DEF Spec

THEOREM PastInvariant == Spec => []PastInv
BY OnceInit, PastStep, TypingInvariant, PTL DEF Spec

THEOREM FreshInvariant == Spec => []FreshInv
BY OnceInit, FreshStep, TypingInvariant, PendingInvariant, PastInvariant, PTL DEF Spec

\* No response to a command is delivered twice, whatever is torn, given up or answered
\* late, for batches of any length.
THEOREM RespondedOnce == Spec => []ResponseOnce
<1>1. Spec => []ApartInv
  BY OnceInit, ApartStep, TypingInvariant, FreshInvariant, PTL DEF Spec
<1> QED
  BY <1>1, ApartOnce, TypingInvariant, LocalInvariant, PastInvariant, PTL

-----------------------------------------------------------------------------
(* The driver and the firmware in step, unless the transport failed.         *)

\* Command c of this request succeeded, and none after it before record n.
LastIn(res, req, c, n) ==
    /\ c.request = req /\ c.pos \in 1..n - 1
    /\ res[c.pos].status = "ok"
    /\ \A j \in c.pos + 1..n - 1 : ~Succeeds(res[j])

OfCommand(s, c) == \A q \in DOMAIN s : s[q].command = c /\ s[q].part = q

\* What the firmware has got of a message that is sent: nothing, all of it with the last
\* chunk in the mailbox, or the first of two chunks.
NoMail == assembled = <<>> /\ tx = <<>>
AllOf(c) == tx # <<>> /\ Append(assembled, tx[1]) = Message(c)
HalfOf(c) ==
    /\ c.sends = 2
    /\ \/ assembled = <<>> /\ tx = <<Chunk(c, 1, 2)>>
       \/ assembled = <<Chunk(c, 1, 2)>> /\ tx = <<>>

Quiet == NoMail \/ \E c \in AnyCommand : c # Nothing /\ AllOf(c)

\* The firmware answers for c once it has emptied the mailbox.
Upcoming(c) == AllOf(c) \/ (NoMail /\ answer = c)

\* The chunks of the answer to c, those that were received and those on their way.
GotOf == IF Receiving THEN Len(response) ELSE 0
OnItsWay(c) ==
    /\ GotOf + Len(Flight) = c.answers
    /\ Receiving => \A q \in 1..Len(response) : response[q] = Chunk(c, q, c.answers)
    /\ \A k \in 1..Len(Flight) : Flight[k] = Chunk(c, GotOf + k, c.answers)

Asked(c) ==
    \/ AllOf(FetchPacket) /\ answer = c /\ Flight = <<>> /\ GotOf = 0 /\ pc # "deliver"
    \/ NoMail /\ OnItsWay(c) /\ (pc = "deliver" <=> Flight = <<>>)

\* Nothing of a command or fetch is sent for the record.
Calm == ~FetchSent /\ (Sending => left = Len(Message2Send))

RawResults ==
    \A i \in DOMAIN results : results[i].raw =>
        \E c \in AnyCommand : LastIn(results, request, c, i) /\ OfCommand(results[i].parts, c)

InStep ==
    /\ ~FetchSent => Flight = <<>>
    /\ Calm => Quiet
    /\ (Calm /\ hardware /\ pc # "idle") =>
          \E c \in AnyCommand : LastIn(results, request, c, pos) /\ Upcoming(c)
    /\ (Sending /\ left = 0) => Upcoming(Command)
    /\ (Sending /\ 0 < left /\ left < Len(Message2Send)) => HalfOf(Command)
    /\ FetchSent => \E c \in AnyCommand : LastIn(results, request, c, pos) /\ Asked(c)

SyncInv == ~disturbed => InStep /\ RawResults

\* Only the results before record n matter, and those that do not succeed are passed over.
LEMMA LastBefore ==
  ASSUME NEW res, NEW other, NEW req, NEW c, NEW n \in Nat,
         \A j \in 1..n - 1 : other[j] = res[j],
         LastIn(res, req, c, n)
  PROVE  LastIn(other, req, c, n)
<1>1. c.pos \in 1..n - 1
  BY DEF LastIn
<1>2. \A j \in c.pos + 1..n - 1 : j \in 1..n - 1
  BY <1>1
<1> QED
  BY <1>1, <1>2 DEF LastIn

LEMMA LastAfter ==
  ASSUME NEW res, NEW req, NEW c, NEW n \in Nat,
         LastIn(res, req, c, n), ~Succeeds(res[n])
  PROVE  LastIn(res, req, c, n + 1)
<1>1. c.pos \in 1..n - 1 /\ c.pos \in 1..n + 1 - 1
  BY DEF LastIn
<1>2. \A j \in c.pos + 1..n + 1 - 1 : j = n \/ j \in c.pos + 1..n - 1
  BY <1>1
<1> QED
  BY <1>1, <1>2 DEF LastIn

\* The messages of two commands are not the same.
LEMMA MessageOfOne ==
  ASSUME NEW c \in AnyCommand, NEW d \in AnyCommand, Message(c) = Message(d)
  PROVE  c = d
<1>1. /\ 1 \in 1..c.sends /\ 1 \in 1..d.sends
      /\ Message(c)[1] = Chunk(c, 1, c.sends) /\ Message(d)[1] = Chunk(d, 1, d.sends)
      /\ c.sends \in Nat /\ d.sends \in Nat
  BY MessageTyped
<1>2. Chunk(c, 1, c.sends).command = c /\ Chunk(d, 1, d.sends).command = d
  BY <1>1, ChunkTyped
<1> QED
  BY <1>1, <1>2

\* The last chunk of a message is in the mailbox.
LEMMA AllOfLast ==
  ASSUME Typing, NEW c \in AnyCommand, AllOf(c)
  PROVE  /\ tx # <<>> /\ ~tx[1].more /\ tx[1].command = c
         /\ Append(assembled, tx[1]) = Message(c)
         /\ Append(assembled, tx[1])[1].command = c
<1>1. /\ tx # <<>> /\ assembled \in Seq(AnyChunk) /\ tx \in Seq(AnyChunk) /\ Len(tx) <= 1
      /\ Append(assembled, tx[1]) = Message(c)
  BY DEF Typing, Mailboxes, AllOf
<1>2. tx[1] \in AnyChunk
  BY <1>1, OneChunk
<1>3. /\ Len(Append(assembled, tx[1])) = Len(assembled) + 1 /\ Len(assembled) \in Nat
      /\ Append(assembled, tx[1])[Len(assembled) + 1] = tx[1]
  BY <1>1, <1>2
<1>4. /\ Len(Message(c)) = c.sends /\ c.sends \in 1..2
      /\ \A p \in 1..c.sends : Message(c)[p] = Chunk(c, p, c.sends)
  BY MessageTyped
<1>5. 1 \in 1..c.sends /\ c.sends \in 1..c.sends /\ c.sends \in Nat /\ 1 \in Nat
  BY <1>4
<1>6. tx[1] = Chunk(c, c.sends, c.sends) /\ Append(assembled, tx[1])[1] = Chunk(c, 1, c.sends)
  BY <1>1, <1>3, <1>4, <1>5
<1>7. /\ Chunk(c, c.sends, c.sends).command = c /\ Chunk(c, 1, c.sends).command = c
      /\ ~Chunk(c, c.sends, c.sends).more
  BY <1>5, ChunkTyped
<1> QED
  BY <1>1, <1>6, <1>7

LEMMA MailTaken ==
  ASSUME Typing, Firmware, NEW c \in AnyCommand, c # Nothing, AllOf(c)
  PROVE  NoMail' /\ answer' = c /\ Flight' = Flight
<1>1. /\ ~tx[1].more /\ Append(assembled, tx[1]) = Message(c)
      /\ Append(assembled, tx[1])[1].command = c
  BY AllOfLast
<1>2. Message(c) # Message(FetchPacket)
  BY CommandTyped, MessageOfOne
<1>3. /\ tx' = <<>> /\ assembled' = <<>> /\ rx' = rx /\ outgoing' = outgoing
      /\ answer' = IF Whole(Append(assembled, tx[1]))
                   THEN Append(assembled, tx[1])[1].command ELSE Garbled
  BY <1>1, <1>2 DEF Firmware, Empty
<1>4. Whole(Append(assembled, tx[1]))
  BY <1>1 DEF Whole
<1> QED
  BY <1>1, <1>3, <1>4 DEF NoMail, Flight

LEMMA FetchTaken ==
  ASSUME Typing, Firmware, AllOf(FetchPacket)
  PROVE  NoMail' /\ Answers
<1>1. ~tx[1].more /\ Append(assembled, tx[1]) = Message(FetchPacket)
  BY AllOfLast, CommandTyped
<1> QED
  BY <1>1 DEF Firmware, Empty, NoMail, Answers

LEMMA HalfTaken ==
  ASSUME Typing, Firmware, NEW c \in AnyCommand, HalfOf(c)
  PROVE  /\ c.sends = 2 /\ assembled' = <<Chunk(c, 1, 2)>> /\ tx' = <<>>
         /\ answer' = answer /\ Flight' = Flight
<1>1. c.sends = 2 /\ tx = <<Chunk(c, 1, 2)>> /\ assembled = <<>>
  BY DEF HalfOf, Firmware, Empty
<1>2. Chunk(c, 1, 2) \in AnyChunk /\ Chunk(c, 1, 2).more
  BY ChunkTyped
<1>3. tx[1] = Chunk(c, 1, 2) /\ Append(assembled, tx[1]) = <<Chunk(c, 1, 2)>>
  BY <1>1, <1>2
<1> QED
  BY <1>1, <1>2, <1>3 DEF Firmware, Empty, Flight

\* A chunk of a command is written to the mailbox.
LEMMA CommandSent ==
  ASSUME Typing, SendChunk, Sending,
         left = Len(Message2Send) => NoMail,
         left < Len(Message2Send) => HalfOf(Command)
  PROVE  /\ left' = 0 => AllOf(Command)'
         /\ left' > 0 => HalfOf(Command)' /\ left' < Len(Message2Send)'
<1>1. /\ tx = <<>> /\ tx' # <<>> /\ left \in 1..2 /\ left' = left - 1
      /\ rec.kind \notin Fetches
      /\ tx'[1] = Chunk(Command, rec.sends - left + 1, rec.sends)
      /\ Len(Message2Send) = rec.sends /\ UNCHANGED <<requestVars, firmware>>
  BY SendChunkSends DEF Sending, Forwarded, Fetches
<1>2. Command \in AnyCommand /\ Command.sends = rec.sends /\ rec.sends \in 1..2
      /\ left <= rec.sends
  BY <1>1, CommandTyped, RecordTyped DEF Typing, Places, Sending, Record
<1>3. Command' = Command /\ Message2Send' = Message2Send /\ assembled' = assembled
  BY <1>1 DEF Command, Message2Send, rec, requestVars, firmware
<1>4. /\ Message(Command) \in Seq(AnyChunk) /\ Len(Message(Command)) = rec.sends
      /\ \A p \in 1..rec.sends : Message(Command)[p] = Chunk(Command, p, rec.sends)
  BY <1>2, MessageTyped
<1>t. tx' = <<tx'[1]>>
  BY DEF SendChunk
<1> HIDE DEF Command
<1>5. CASE rec.sends = 1
  <2>1. left = 1 /\ left' = 0 /\ assembled = <<>> /\ tx'[1] = Chunk(Command, 1, 1)
    BY <1>1, <1>2, <1>5 DEF NoMail
  <2>2. Chunk(Command, 1, 1) \in AnyChunk
    BY <1>2, ChunkTyped
  <2>3. Append(assembled', tx'[1]) = <<Chunk(Command, 1, 1)>>
    BY <1>3, <2>1, <2>2
  <2>4. \A i \in 1..1 : Message(Command)[i] = <<Chunk(Command, 1, 1)>>[i]
    BY <1>4, <1>5
  <2>5. <<Chunk(Command, 1, 1)>> = Message(Command)
    BY <1>4, <1>5, <2>2, <2>4, SeqEqual
  <2> QED
    BY <1>1, <1>3, <2>1, <2>3, <2>5 DEF AllOf, Message
<1>6. CASE rec.sends = 2 /\ left = 2
  <2>1. left' = 1 /\ assembled = <<>> /\ tx'[1] = Chunk(Command, 1, 2)
    BY <1>1, <1>6 DEF NoMail
  <2>2. Chunk(Command, 1, 2)' = Chunk(Command, 1, 2)
    BY <1>3 DEF Chunk
  <2>3. Command'.sends = 2 /\ assembled' = <<>> /\ tx' = <<Chunk(Command, 1, 2)>>
    BY <1>2, <1>3, <1>6, <1>t, <2>1
  <2>4. HalfOf(Command)'
    BY <2>2, <2>3 DEF HalfOf
  <2>5. Len(Message2Send)' = 2
    BY <1>1, <1>3, <1>6
  <2> QED
    BY <2>1, <2>4, <2>5
<1>7. CASE rec.sends = 2 /\ left = 1
  <2>1. left' = 0 /\ assembled = <<Chunk(Command, 1, 2)>> /\ tx'[1] = Chunk(Command, 2, 2)
    BY <1>1, <1>7 DEF HalfOf
  <2>2. Chunk(Command, 1, 2) \in AnyChunk /\ Chunk(Command, 2, 2) \in AnyChunk
    BY <1>2, ChunkTyped
  <2>3. /\ Append(assembled', tx'[1]) \in Seq(AnyChunk)
        /\ Len(Append(assembled', tx'[1])) = 2
        /\ Append(assembled', tx'[1])[1] = Chunk(Command, 1, 2)
        /\ Append(assembled', tx'[1])[2] = Chunk(Command, 2, 2)
    BY <1>3, <2>1, <2>2
  <2>4. \A i \in 1..2 : Message(Command)[i] = Append(assembled', tx'[1])[i]
    <3>1. \A i \in 1..2 : i = 1 \/ i = 2
      OBVIOUS
    <3>2. Message(Command)[1] = Chunk(Command, 1, 2) /\ Message(Command)[2] = Chunk(Command, 2, 2)
      BY <1>4, <1>7
    <3> QED
      BY <2>3, <3>1, <3>2
  <2>5. Append(assembled', tx'[1]) = Message(Command)
    BY <1>4, <1>7, <2>3, <2>4, SeqEqual
  <2> QED
    BY <1>1, <1>3, <2>1, <2>5 DEF AllOf, Message
<1> QED
  BY <1>1, <1>2, <1>5, <1>6, <1>7

LEMMA MailStays ==
  ASSUME UNCHANGED <<tx, assembled, answer>>
  PROVE  /\ NoMail' <=> NoMail
         /\ Quiet' <=> Quiet
         /\ \A c : /\ AllOf(c)' <=> AllOf(c)
                   /\ HalfOf(c)' <=> HalfOf(c)
                   /\ Upcoming(c)' <=> Upcoming(c)
<1>1. NoMail' <=> NoMail
  BY DEF NoMail
<1>2. \A c : AllOf(c)' <=> AllOf(c)
  BY DEF AllOf, Message, Chunk
<1>3. \A c : HalfOf(c)' <=> HalfOf(c)
  BY DEF HalfOf, Chunk
<1>n. Nothing' = Nothing /\ AnyCommand' = AnyCommand
  BY DEF Nothing, AnyCommand
<1>4. Quiet' <=> Quiet
  BY <1>1, <1>2, <1>n DEF Quiet
<1>5. \A c : Upcoming(c)' <=> Upcoming(c)
  BY <1>1, <1>2 DEF Upcoming
<1> QED
  BY <1>1, <1>2, <1>3, <1>4, <1>5

\* In step between two records.
LEMMA InStepBetween ==
  ASSUME pc' \in {"record", "idle"}, Flight' = <<>>, Quiet',
         hardware' /\ pc' = "record" =>
             \E c \in AnyCommand : LastIn(results', request', c, pos') /\ Upcoming(c)'
  PROVE  InStep'
<1>1. ~FetchSent' /\ ~Sending'
  BY DEF FetchSent, Receiving, Sending
<1>2. hardware' /\ pc' # "idle" =>
         (\E c \in AnyCommand : LastIn(results, request, c, pos) /\ Upcoming(c))'
  BY DEF LastIn, Succeeds, IsCommand, AnyCommand
<1> QED
  BY <1>1, <1>2 DEF InStep

LEMMA RawWritten ==
  ASSUME Typing, RawResults, pc # "idle", NEW r \in Result, Written(r),
         r.raw => \E c \in AnyCommand :
                     LastIn(results, request, c, pos) /\ OfCommand(r.parts, c)
  PROVE  RawResults'
<1>1. /\ results' \in Seq(Result) /\ Len(results') = pos /\ Len(results) = pos - 1
      /\ results'[pos] = r /\ pos \in Nat /\ pos > 0
      /\ \A i \in 1..pos - 1 : results'[i] = results[i]
      /\ request' = request
  <2>1. InBatch /\ results \in Seq(Result)
    BY DEF Typing
  <2>2. Len(results) = pos - 1 /\ pos \in Nat /\ pos > 0
    BY <2>1, RecordTyped DEF InBatch
  <2> QED
    BY <2>1, <2>2, WrittenStep
<1>2. DOMAIN results' = 1..pos /\ DOMAIN results = 1..pos - 1
  BY <1>1 DEF Typing
<1>3. ASSUME NEW i \in 1..pos, results'[i].raw
      PROVE  \E c \in AnyCommand :
                LastIn(results', request, c, i) /\ OfCommand(results'[i].parts, c)
  <2>1. CASE i \in 1..pos - 1
    <3>1. results'[i] = results[i] /\ i \in Nat /\ i \in DOMAIN results
          /\ \A j \in 1..i - 1 : results'[j] = results[j]
      BY <1>1, <1>2, <2>1
    <3>2. PICK c \in AnyCommand : LastIn(results, request, c, i)
                                  /\ OfCommand(results[i].parts, c)
      BY <1>3, <3>1 DEF RawResults
    <3> QED
      BY <3>1, <3>2, LastBefore
  <2>2. CASE i = pos
    <3>1. PICK c \in AnyCommand : LastIn(results, request, c, pos) /\ OfCommand(r.parts, c)
      BY <1>1, <1>3, <2>2
    <3>2. LastIn(results', request, c, pos)
      BY <1>1, <3>1, LastBefore
    <3> QED
      BY <1>1, <2>2, <3>1, <3>2
  <2> QED
    BY <1>1, <2>1, <2>2
<1>4. AnyCommand' = AnyCommand
  BY DEF AnyCommand
<1> QED
  BY <1>1, <1>2, <1>3, <1>4 DEF RawResults, LastIn, OfCommand, Succeeds, IsCommand

\* A command that succeeded last is so after a record that does not succeed.
LEMMA LastWritten ==
  ASSUME Typing, pc # "idle", NEW r \in Result, Written(r), NEW c,
         \/ LastIn(results, request, c, pos) /\ ~Succeeds(r)
         \/ c = Command /\ r.status = "ok"
  PROVE  LastIn(results', request', c, pos + 1)
<1>1. /\ results'[pos] = r /\ pos \in Nat /\ pos > 0
      /\ \A i \in 1..pos - 1 : results'[i] = results[i]
      /\ request' = request
  <2>1. InBatch /\ results \in Seq(Result)
    BY DEF Typing
  <2>2. Len(results) = pos - 1 /\ pos \in Nat /\ pos > 0
    BY <2>1, RecordTyped DEF InBatch
  <2> QED
    BY <2>1, <2>2, WrittenStep
<1>2. CASE LastIn(results, request, c, pos) /\ ~Succeeds(r)
  <2>1. LastIn(results', request', c, pos)
    BY <1>1, <1>2, LastBefore
  <2> QED
    BY <1>1, <1>2, <2>1, LastAfter
<1>3. CASE c = Command /\ r.status = "ok"
  <2>1. c.request = request /\ c.pos = pos
    BY <1>3 DEF Command
  <2>2. pos \in 1..pos + 1 - 1 /\ pos + 1..pos + 1 - 1 = {}
    BY <1>1
  <2> QED
    BY <1>1, <1>3, <2>1, <2>2 DEF LastIn
<1> QED
  BY <1>2, <1>3

\* A record that is written while the transport is at rest.
LEMMA SyncWritten ==
  ASSUME Typing, InStep, RawResults, Calm, pc # "idle", NEW r \in Result, Written(r), ~r.raw,
         UNCHANGED <<tx, assembled, answer>>, Flight' = Flight,
         hardware' => hardware /\ ~Succeeds(r)
  PROVE  InStep' /\ RawResults'
<1>1. pc' \in {"record", "idle"} /\ (pc' = "record" => pos' = pos + 1)
  <2>1. InBatch /\ results \in Seq(Result)
    BY DEF Typing
  <2> QED
    BY <2>1, WrittenStep
<1>2. Flight' = <<>> /\ Quiet'
  BY MailStays DEF InStep, Calm
<1>3. ASSUME hardware', pc' = "record"
      PROVE  \E c \in AnyCommand : LastIn(results', request', c, pos') /\ Upcoming(c)'
  <2>1. PICK c \in AnyCommand : LastIn(results, request, c, pos) /\ Upcoming(c)
    BY <1>3 DEF InStep
  <2>2. LastIn(results', request', c, pos')
    BY <1>1, <1>3, <2>1, LastWritten
  <2>3. Upcoming(c)'
    BY <2>1, MailStays
  <2> QED
    BY <2>2, <2>3
<1> QED
  BY <1>1, <1>2, <1>3, InStepBetween, RawWritten

\* The batch is left while the transport is at rest.
LEMMA SyncFails ==
  ASSUME InStep, Calm, Fails, UNCHANGED <<tx, assembled, answer>>, Flight' = Flight
  PROVE  InStep' /\ RawResults'
<1>1. Flight' = <<>> /\ Quiet'
  BY MailStays DEF InStep, Calm
<1>2. pc' = "idle" /\ results' = <<>>
  BY DEF Fails
<1>3. RawResults'
  BY <1>2 DEF RawResults
<1> QED
  BY <1>1, <1>2, <1>3, InStepBetween

LEMMA RequestStays ==
  ASSUME UNCHANGED requestVars
  PROVE  /\ RawResults' <=> RawResults
         /\ \A c : LastIn(results, request, c, pos)' <=> LastIn(results, request, c, pos)
         /\ Command' = Command /\ Message2Send' = Message2Send /\ rec' = rec
         /\ AnyCommand' = AnyCommand
<1>1. /\ results' = results /\ request' = request /\ pos' = pos /\ batch' = batch
      /\ AnyCommand' = AnyCommand
  BY DEF requestVars, AnyCommand
<1>2. RawResults' <=> RawResults
  BY <1>1 DEF RawResults, LastIn, OfCommand, Succeeds, IsCommand
<1>3. \A c : LastIn(results, request, c, pos)' <=> LastIn(results, request, c, pos)
  BY <1>1 DEF LastIn, Succeeds, IsCommand
<1> QED
  BY <1>1, <1>2, <1>3 DEF Command, Message2Send, rec

LEMMA AskedStays ==
  ASSUME UNCHANGED <<tx, assembled, answer, response, pc>>, Flight' = Flight, NEW c
  PROVE  Asked(c)' <=> Asked(c)
<1>1. /\ AllOf(FetchPacket)' <=> AllOf(FetchPacket)
      /\ NoMail' <=> NoMail
  BY DEF AllOf, FetchPacket, Message, Chunk, NoMail
<1>2. GotOf' = GotOf /\ (Receiving' <=> Receiving)
  BY DEF GotOf, Receiving
<1>3. OnItsWay(c)' <=> OnItsWay(c)
  BY <1>2 DEF OnItsWay, Chunk
<1> QED
  BY <1>1, <1>2, <1>3 DEF Asked

\* Nothing that matters to the transport changes.
LEMMA SyncStays ==
  ASSUME InStep, RawResults, UNCHANGED requestVars, UNCHANGED <<pc, left, hardware, response>>,
         UNCHANGED <<tx, assembled, answer>>, Flight' = Flight
  PROVE  InStep' /\ RawResults'
<1>1. /\ RawResults' /\ Command' = Command /\ Message2Send' = Message2Send /\ rec' = rec
      /\ AnyCommand' = AnyCommand
      /\ \A c : LastIn(results, request, c, pos)' <=> LastIn(results, request, c, pos)
  BY RequestStays
<1>2. \A c : /\ Upcoming(c)' <=> Upcoming(c)
             /\ HalfOf(c)' <=> HalfOf(c)
             /\ Asked(c)' <=> Asked(c)
  BY MailStays, AskedStays
<1>3. Quiet' <=> Quiet
  BY MailStays
<1>4. /\ FetchSent' <=> FetchSent
      /\ Sending' <=> Sending
      /\ Calm' <=> Calm
  BY <1>1 DEF FetchSent, Sending, Receiving, Calm
<1>5. /\ (~FetchSent' => Flight' = <<>>) /\ (Calm' => Quiet')
  BY <1>3, <1>4 DEF InStep
<1>6. (Calm /\ hardware /\ pc # "idle" =>
          \E c \in AnyCommand : LastIn(results, request, c, pos) /\ Upcoming(c))'
  BY <1>1, <1>2, <1>4 DEF InStep
<1>7. ((Sending /\ left = 0) => Upcoming(Command))'
      /\ ((Sending /\ 0 < left /\ left < Len(Message2Send)) => HalfOf(Command))'
  <2>1. Upcoming(Command)' <=> Upcoming(Command)
    BY <1>1, MailStays DEF Upcoming, AllOf, NoMail, Message, Chunk
  <2>2. HalfOf(Command)' <=> HalfOf(Command)
    BY <1>1 DEF HalfOf, Chunk
  <2> QED
    BY <1>1, <1>4, <2>1, <2>2 DEF InStep
<1>8. (FetchSent => \E c \in AnyCommand : LastIn(results, request, c, pos) /\ Asked(c))'
  BY <1>1, <1>2, <1>4 DEF InStep
<1> QED
  BY <1>1, <1>5, <1>6, <1>7, <1>8 DEF InStep

\* A message is about to be sent for the record.
LEMMA SyncBegins ==
  ASSUME InStep, RawResults, Calm, pc = "record", pc' = "send",
         left' = Len(Message2Send'), left' > 0,
         UNCHANGED requestVars, hardware' = hardware,
         UNCHANGED <<tx, assembled, answer>>, Flight' = Flight
  PROVE  InStep' /\ RawResults'
<1>1. /\ RawResults' /\ AnyCommand' = AnyCommand
      /\ \A c : LastIn(results, request, c, pos)' <=> LastIn(results, request, c, pos)
  BY RequestStays
<1>2. Flight' = <<>> /\ Quiet'
  BY MailStays DEF InStep, Calm
<1>3. ~FetchSent' /\ left' # 0 /\ ~(left' < Len(Message2Send'))
  BY DEF FetchSent, Receiving
<1>4. (hardware => \E c \in AnyCommand : LastIn(results, request, c, pos) /\ Upcoming(c))'
  BY <1>1, MailStays DEF InStep
<1> QED
  BY <1>1, <1>2, <1>3, <1>4 DEF InStep

\* A chunk of a command or of a fetch is written to the mailbox.
LEMMA SyncSends ==
  ASSUME Typing, PendingInv, InStep, RawResults, SendChunk
  PROVE  InStep' /\ RawResults'
<1>1. /\ tx = <<>> /\ tx' # <<>> /\ left \in 1..2 /\ left' = left - 1
      /\ pc = "send" /\ pc' = "send" /\ UNCHANGED <<requestVars, localVars, firmware, rx>>
  BY SendChunkSends
<1>2. /\ RawResults' /\ Command' = Command /\ Message2Send' = Message2Send /\ rec' = rec
      /\ AnyCommand' = AnyCommand
      /\ \A c : LastIn(results, request, c, pos)' <=> LastIn(results, request, c, pos)
  BY <1>1, RequestStays
<1>3. /\ UNCHANGED <<assembled, answer, hardware, response>> /\ Flight' = Flight
      /\ ~FetchSent /\ Flight = <<>>
  BY <1>1 DEF firmware, localVars, Flight, FetchSent, Receiving, InStep
<1>4. \A c : ~AllOf(c)
  BY <1>1 DEF AllOf
<1>5. Calm => NoMail
  BY <1>4 DEF InStep, Quiet
<1>6. CASE rec.kind \in Fetches
  <2>1. /\ tx'[1] = FetchChunk /\ left = 1 /\ ~Sending
    BY <1>6, SendChunkSends
  <2>2. Calm /\ hardware
    BY <1>1, <1>3, <1>6, <2>1 DEF Calm, PendingInv, Asking
  <2>3. PICK c \in AnyCommand : LastIn(results, request, c, pos) /\ Upcoming(c)
    BY <1>1, <2>2 DEF InStep
  <2>4. answer = c /\ assembled = <<>>
    BY <1>4, <2>3 DEF Upcoming, NoMail
  <2>5. AllOf(FetchPacket)'
    <3>1. Append(assembled', tx'[1]) = <<FetchChunk>> /\ FetchChunk \in AnyChunk
      BY <1>3, <2>1, <2>4, FetchMessage
    <3>2. /\ Message(FetchPacket) \in Seq(AnyChunk) /\ Len(Message(FetchPacket)) = 1
          /\ Message(FetchPacket)[1] = FetchChunk
      BY CommandTyped, MessageTyped, FetchMessage
    <3>3. Message(FetchPacket) = <<Message(FetchPacket)[1]>>
      <4>1. Message(FetchPacket) # <<>>
        BY <3>2
      <4> QED
        BY <3>2, <4>1, OneChunk
    <3>4. Append(assembled', tx'[1]) = Message(FetchPacket)
      BY <3>1, <3>2, <3>3
    <3>5. Message(FetchPacket)' = Message(FetchPacket)
      BY DEF Message, FetchPacket, Chunk
    <3> QED
      BY <1>1, <3>4, <3>5 DEF AllOf
  <2>6. Asked(c)'
    BY <1>1, <1>3, <2>4, <2>5 DEF Asked, GotOf, Receiving
  <2>7. FetchSent' /\ ~Sending' /\ ~Calm'
    BY <1>1, <1>2, <1>6, <2>1 DEF FetchSent, Sending, Calm
  <2> QED
    BY <1>2, <2>3, <2>6, <2>7 DEF InStep
<1>7. CASE rec.kind \notin Fetches
  <2>1. Sending /\ Len(Message2Send) = rec.sends /\ rec.sends \in Nat
    BY <1>1, <1>7, SendChunkSends, RecordTyped DEF Typing, Record
  <2>2. left <= Len(Message2Send)
    BY <1>1 DEF Typing, Places
  <2>3. left = Len(Message2Send) => NoMail
    BY <1>3, <1>5 DEF Calm
  <2>4. left < Len(Message2Send) => HalfOf(Command)
    BY <1>1, <2>1 DEF InStep
  <2>5. /\ left' = 0 => AllOf(Command)'
        /\ left' > 0 => HalfOf(Command)' /\ left' < Len(Message2Send)'
    BY <2>1, <2>3, <2>4, CommandSent
  <2>6. ~FetchSent' /\ ~Calm'
    BY <1>1, <1>2, <1>7, <2>1, <2>2 DEF FetchSent, Receiving, Sending, Calm
  <2>7. left' = 0 \/ left' > 0
    BY <1>1
  <2>8. left' = 0 => Upcoming(Command)'
    BY <2>5 DEF Upcoming
  <2>9. 0 < left' => HalfOf(Command)'
    BY <1>1, <2>5
  <2> QED
    BY <1>2, <1>3, <2>6, <2>8, <2>9 DEF InStep
<1> QED
  BY <1>6, <1>7

\* The next chunk of the answer is received.
LEMMA SyncReceives ==
  ASSUME Typing, InStep, RawResults, ReceiveChunk
  PROVE  InStep' /\ RawResults'
<1>1. /\ pc = "receive" /\ pc' = IF rx[1].more THEN "receive" ELSE "deliver"
      /\ response' = Append(response, rx[1])
      /\ UNCHANGED <<requestVars, tx, firmware>>
  BY DEF ReceiveChunk
<1>2. /\ Flight # <<>> /\ Flight[1] = rx[1] /\ Len(Flight') = Len(Flight) - 1
      /\ \A k \in 1..Len(Flight') : k + 1 \in 1..Len(Flight) /\ Flight'[k] = Flight[k + 1]
  BY FlightReceived
<1>3. Flight \in Seq(AnyChunk) /\ Flight' \in Seq(AnyChunk) /\ response \in Seq(AnyChunk)
  <2>1. Typing'
    BY TypingStep DEF Next, Thread
  <2> QED
    BY <2>1, FlightTyped DEF Typing, Buffers, Mailboxes, Flight
<1>4. /\ RawResults' /\ AnyCommand' = AnyCommand
      /\ \A c : LastIn(results, request, c, pos)' <=> LastIn(results, request, c, pos)
  BY <1>1, RequestStays
<1>5. PICK c \in AnyCommand : LastIn(results, request, c, pos) /\ Asked(c)
  BY <1>1 DEF InStep, FetchSent, Receiving
<1>6. NoMail /\ OnItsWay(c) /\ Receiving /\ Receiving' /\ GotOf = Len(response)
  BY <1>1, <1>2, <1>5 DEF Asked, GotOf, Receiving
<1>7. /\ GotOf' = Len(response) + 1 /\ Len(response') = Len(response) + 1
      /\ response'[Len(response) + 1] = rx[1]
      /\ \A q \in 1..Len(response) : response'[q] = response[q]
      /\ Len(response) \in Nat /\ Len(Flight) \in Nat /\ Len(Flight') \in Nat
  <2>1. rx[1] \in AnyChunk
    BY <1>2, <1>3, EmptySeq
  <2> QED
    BY <1>1, <1>3, <1>6, <2>1 DEF GotOf
<1>8. c.answers \in 1..2 /\ c.answers = Len(response) + Len(Flight)
      /\ \A k \in 1..Len(Flight) : Flight[k] = Chunk(c, Len(response) + k, c.answers)
  BY <1>6 DEF OnItsWay, AnyCommand
<1>q. \A q \in 1..Len(response) : response[q] = Chunk(c, q, c.answers)
  BY <1>6 DEF OnItsWay
<1>9. 1 \in 1..Len(Flight)
  BY <1>2, <1>3, EmptySeq
<1>10. rx[1] = Chunk(c, Len(response) + 1, c.answers)
  BY <1>2, <1>8, <1>9
<1>11. rx[1].more <=> Len(response) + 1 < c.answers
  <2>1. Len(response) + 1 \in Nat /\ c.answers \in Nat
    BY <1>7, <1>8
  <2> QED
    BY <1>10, <2>1, ChunkTyped
<1>12. \A k \in 1..Len(Flight') : Flight'[k] = Chunk(c, Len(response) + 1 + k, c.answers)
  <2> SUFFICES ASSUME NEW k \in 1..Len(Flight')
               PROVE  Flight'[k] = Chunk(c, Len(response) + 1 + k, c.answers)
    OBVIOUS
  <2>1. k + 1 \in 1..Len(Flight) /\ Flight'[k] = Flight[k + 1]
    BY <1>2
  <2>2. Flight[k + 1] = Chunk(c, Len(response) + (k + 1), c.answers)
    BY <1>8, <2>1
  <2>3. Len(response) + (k + 1) = Len(response) + 1 + k
    BY <1>7
  <2> QED
    BY <2>1, <2>2, <2>3
<1>13. \A q \in 1..Len(response') : response'[q] = Chunk(c, q, c.answers)
  <2> SUFFICES ASSUME NEW q \in 1..Len(response')
               PROVE  response'[q] = Chunk(c, q, c.answers)
    OBVIOUS
  <2>1. q \in 1..Len(response) \/ q = Len(response) + 1
    BY <1>7
  <2>2. CASE q \in 1..Len(response)
    <3>1. response'[q] = response[q]
      BY <1>7, <2>2
    <3>2. response[q] = Chunk(c, q, c.answers)
      BY <1>q, <2>2
    <3> QED
      BY <3>1, <3>2
  <2>3. CASE q = Len(response) + 1
    BY <1>7, <1>10, <2>3
  <2> QED
    BY <2>1, <2>2, <2>3
<1>14. OnItsWay(c)'
  <2>1. GotOf' + Len(Flight') = c.answers
    BY <1>2, <1>7, <1>8
  <2> QED
    BY <1>7, <1>12, <1>13, <2>1 DEF OnItsWay, Chunk
<1>15. pc' = "deliver" <=> Flight' = <<>>
  <2>1. Flight' = <<>> <=> Len(Flight') = 0
    BY <1>3, EmptySeq
  <2> QED
    BY <1>1, <1>2, <1>7, <1>8, <1>11, <2>1
<1>16. NoMail'
  BY <1>1, <1>6 DEF NoMail, firmware
<1>17. Asked(c)'
  BY <1>14, <1>15, <1>16 DEF Asked
<1>18. FetchSent' /\ ~Calm' /\ ~Sending'
  BY <1>1 DEF FetchSent, Receiving, Calm, Sending
<1> QED
  BY <1>4, <1>5, <1>17, <1>18 DEF InStep

\* The answer is delivered, or there is no room for its header.
LEMMA SyncDelivers ==
  ASSUME Typing, InStep, RawResults, DeliverRaw
  PROVE  InStep' /\ RawResults'
<1>1. /\ pc = "deliver" /\ ~hardware' /\ (Fails \/ Written(Delivered(TRUE)))
      /\ UNCHANGED <<tx, rx, firmware>>
  BY DEF DeliverRaw
<1>2. PICK c \in AnyCommand : LastIn(results, request, c, pos) /\ Asked(c)
  BY <1>1 DEF InStep, FetchSent, Receiving
<1>3. NoMail /\ OnItsWay(c) /\ Flight = <<>>
  BY <1>1, <1>2 DEF Asked
<1>4. NoMail' /\ Flight' = <<>>
  BY <1>1, <1>3 DEF NoMail, Flight, firmware
<1>5. /\ Delivered(TRUE) \in Result
      /\ \A p \in DOMAIN Delivered(TRUE).parts :
            p \in DOMAIN response /\ Delivered(TRUE).parts[p] = response[p]
      /\ InBatch /\ results \in Seq(Result) /\ response \in Seq(AnyChunk)
  <2>1. /\ InBatch /\ Flags /\ results \in Seq(Result) /\ response \in Seq(AnyChunk)
        /\ TRUE \in BOOLEAN /\ pc # "idle"
    BY <1>1 DEF Typing, Buffers
  <2> QED
    BY <2>1, DeliveredTyped
<1>6. OfCommand(Delivered(TRUE).parts, c)
  <2>1. \A q \in 1..Len(response) : response[q] = Chunk(c, q, c.answers)
    BY <1>1, <1>3 DEF OnItsWay, Receiving
  <2>2. ASSUME NEW q \in DOMAIN response
        PROVE  response[q].command = c /\ response[q].part = q
    <3>1. q \in 1..Len(response)
      BY <1>5
    <3>2. response[q] = Chunk(c, q, c.answers)
      BY <2>1, <3>1
    <3> QED
      BY <3>2 DEF Chunk
  <2> QED
    BY <1>5, <2>2 DEF OfCommand
<1>7. RawResults'
  <2>1. CASE Fails
    BY <2>1 DEF Fails, RawResults
  <2>2. CASE Written(Delivered(TRUE))
    BY <1>1, <1>2, <1>5, <1>6, <2>2, RawWritten
  <2> QED
    BY <1>1, <2>1, <2>2
<1>8. pc' \in {"record", "idle"}
  BY <1>1 DEF Fails, Written
<1> QED
  BY <1>1, <1>4, <1>7, <1>8, InStepBetween DEF Quiet

\* The firmware empties the mailbox.
LEMMA SyncTakes ==
  ASSUME Typing, InStep, RawResults, Firmware
  PROVE  InStep' /\ RawResults'
<1>1. /\ tx # <<>> /\ tx' = <<>>
      /\ UNCHANGED <<pc, requestVars, localVars, left>> /\ hardware' = hardware
      /\ response' = response
  BY DEF Firmware, Empty, localVars
<1>2. /\ RawResults' /\ Command' = Command /\ Message2Send' = Message2Send /\ rec' = rec
      /\ AnyCommand' = AnyCommand
      /\ \A c : LastIn(results, request, c, pos)' <=> LastIn(results, request, c, pos)
  BY <1>1, RequestStays
<1>3. ~NoMail
  BY <1>1 DEF NoMail
<1>4. /\ FetchSent' <=> FetchSent
      /\ Sending' <=> Sending
      /\ Calm' <=> Calm
      /\ Receiving' <=> Receiving
  BY <1>1, <1>2 DEF FetchSent, Sending, Receiving, Calm
<1>s. ASSUME Sending
      PROVE  /\ Command \in AnyCommand /\ Command # Nothing
             /\ left \in Nat /\ left <= Len(Message2Send) /\ Len(Message2Send) \in Nat
  <2>1. Command \in AnyCommand /\ Command.pos = pos /\ pos > 0 /\ pc = "send"
    BY <1>s, CommandTyped, RecordTyped DEF Typing, Places, Sending
  <2>2. Command # Nothing
    BY <2>1 DEF Nothing
  <2>3. Message2Send = Message(Command)
    BY <1>s DEF Sending, Message2Send, Forwarded, Fetches
  <2>4. Len(Message2Send) \in Nat
    BY <2>1, <2>3, MessageTyped
  <2> QED
    BY <2>1, <2>2, <2>4 DEF Typing, Places
<1>5. CASE Calm
  <2>1. PICK d \in AnyCommand : d # Nothing /\ AllOf(d)
    BY <1>3, <1>5 DEF InStep, Quiet
  <2>2. NoMail' /\ answer' = d /\ Flight' = Flight
    BY <2>1, MailTaken
  <2>3. Flight' = <<>> /\ ~FetchSent
    BY <1>5, <2>2 DEF InStep, Calm
  <2>4. Quiet'
    BY <2>2 DEF Quiet
  <2>5. ASSUME hardware, pc # "idle"
        PROVE  \E c \in AnyCommand : LastIn(results, request, c, pos)' /\ Upcoming(c)'
    <3>1. PICK c \in AnyCommand : LastIn(results, request, c, pos) /\ Upcoming(c)
      BY <1>5, <2>5 DEF InStep
    <3>2. AllOf(c)
      BY <1>3, <3>1 DEF Upcoming
    <3>3. c = d
      BY <2>1, <3>2, MessageOfOne DEF AllOf
    <3> QED
      BY <1>2, <2>2, <3>1, <3>3 DEF Upcoming
  <2>6. CASE ~Sending
    BY <1>1, <1>2, <1>4, <2>3, <2>4, <2>5, <2>6 DEF InStep
  <2>7. CASE Sending
    <3>1. left = Len(Message2Send) /\ left > 0
      <4>1. left = Len(Message2Send)
        BY <1>5, <2>7 DEF Calm
      <4>2. Message2Send = Message(Command)
        BY <2>7 DEF Sending, Message2Send, Forwarded, Fetches
      <4>3. Command \in AnyCommand
        BY <1>s, <2>7
      <4>4. Len(Message(Command)) = Command.sends /\ Command.sends \in 1..2
        BY <4>3, MessageTyped
      <4> HIDE DEF Command
      <4>5. Len(Message2Send) \in 1..2
        BY <4>2, <4>4
      <4> QED
        BY <4>1, <4>5
    <3> QED
      BY <1>1, <1>2, <1>4, <1>s, <2>3, <2>4, <2>5, <2>7, <3>1 DEF InStep
  <2> QED
    BY <2>6, <2>7
<1>6. CASE Sending /\ ~Calm
  <2>1. /\ Command \in AnyCommand /\ Command # Nothing /\ ~FetchSent /\ Flight = <<>>
        /\ left \in Nat /\ left < Len(Message2Send) /\ Len(Message2Send) \in Nat
    BY <1>6, <1>s DEF Calm, InStep, FetchSent, Receiving, Sending, Forwarded, Fetches
  <2>2. CASE left = 0
    <3>1. AllOf(Command)
      BY <1>3, <1>6, <2>2 DEF InStep, Upcoming
    <3>2. NoMail' /\ answer' = Command /\ Flight' = Flight
      BY <2>1, <3>1, MailTaken
    <3>3. Upcoming(Command)'
      BY <1>2, <3>2 DEF Upcoming
    <3> QED
      BY <1>1, <1>2, <1>4, <1>6, <2>1, <2>2, <3>2, <3>3 DEF InStep
  <2>3. CASE left > 0
    <3>1. HalfOf(Command)
      BY <1>6, <2>1, <2>3 DEF InStep
    <3>2. /\ Command.sends = 2 /\ assembled' = <<Chunk(Command, 1, 2)>> /\ tx' = <<>>
          /\ Flight' = Flight
      BY <2>1, <3>1, HalfTaken
    <3>3. HalfOf(Command)'
      <4>1. Chunk(Command, 1, 2)' = Chunk(Command, 1, 2)
        BY <1>2 DEF Chunk
      <4> QED
        BY <1>2, <3>2, <4>1 DEF HalfOf
    <3> QED
      BY <1>1, <1>2, <1>4, <1>6, <2>1, <2>3, <3>2, <3>3 DEF InStep
  <2> QED
    BY <2>1, <2>2, <2>3
<1>7. CASE FetchSent
  <2>1. PICK c \in AnyCommand : LastIn(results, request, c, pos) /\ Asked(c)
    BY <1>7 DEF InStep
  <2>2. AllOf(FetchPacket) /\ answer = c /\ Flight = <<>> /\ GotOf = 0 /\ pc # "deliver"
    BY <1>3, <2>1 DEF Asked
  <2>3. NoMail' /\ Answers
    BY <2>2, FetchTaken
  <2>4. /\ Len(Flight') = Len(Flight) + answer.answers /\ answer.answers \in 1..2
        /\ \A k \in 1..answer.answers :
               Flight'[Len(Flight) + k] = Chunk(answer, k, answer.answers)
    BY <2>3, FlightAnswered
  <2>5. Len(Flight) = 0 /\ \A k \in 1..answer.answers : 0 + k = k
    BY <2>2
  <2>6. /\ Len(Flight') = c.answers /\ c.answers \in 1..2
        /\ \A k \in 1..c.answers : Flight'[k] = Chunk(c, k, c.answers)
    BY <2>2, <2>4, <2>5
  <2>7. GotOf' = 0 /\ (Receiving => Len(response) = 0)
    BY <1>1, <1>4, <2>2 DEF GotOf
  <2>8. OnItsWay(c)'
    <3>1. GotOf' + Len(Flight') = c.answers
      BY <2>6, <2>7
    <3>2. Receiving' => \A q \in 1..Len(response') : response'[q] = Chunk(c, q, c.answers)
      BY <1>1, <1>4, <2>7
    <3>3. \A k \in 1..Len(Flight') : Flight'[k] = Chunk(c, GotOf' + k, c.answers)
      BY <2>6, <2>7
    <3> QED
      BY <3>1, <3>2, <3>3 DEF OnItsWay, Chunk
  <2>9. Flight' # <<>> /\ pc' # "deliver"
    BY <1>1, <2>2, <2>6
  <2>10. Asked(c)'
    BY <2>3, <2>8, <2>9 DEF Asked
  <2>11. FetchSent' /\ ~Sending' /\ ~Calm'
    BY <1>4, <1>7 DEF FetchSent, Receiving, Sending, Calm, Forwarded, Fetches
  <2> QED
    BY <1>2, <2>1, <2>10, <2>11 DEF InStep
<1> QED
  BY <1>5, <1>6, <1>7 DEF Calm

LEMMA SyncStep == Typing /\ PendingInv /\ SyncInv /\ [Next]_vars => SyncInv'
<1> SUFFICES ASSUME Typing, PendingInv, SyncInv, [Next]_vars, ~disturbed'
             PROVE  InStep' /\ RawResults'
  BY DEF SyncInv
<1>0. InBatch /\ Flags /\ Places /\ response \in Seq(AnyChunk) /\ request \in Nat
  BY DEF Typing, Buffers, Places
<1>d. ~disturbed
  BY DEF Next, Thread, vars, Accept, MamConfig, LocalCommand, WriteCommand, Forward, Sent,
     SendChunk, SendFails, FetchHardware, FetchLocal, FetchNothing, ReceiveChunk,
     ReceiveFails, DeliverRaw, Firmware, FirmwareAnswers, StopOrStart
<1>i. InStep /\ RawResults
  BY <1>d DEF SyncInv
<1>c. ASSUME pc \in {"idle", "record"} PROVE Calm
  BY <1>c DEF Calm, FetchSent, Receiving, Sending
<1>w. ASSUME Calm, pc # "idle", NEW status \in {"ok", "failed", "nothing"},
             Written(Direct(status)), UNCHANGED <<tx, rx, firmware>>,
             hardware' => hardware /\ (status = "ok" => rec.kind \in Fetches \cup {"mam"})
      PROVE  InStep' /\ RawResults'
  <2>1. /\ Direct(status) \in Result /\ Direct(status).raw = FALSE
        /\ Direct(status).kind = rec.kind /\ Direct(status).status = status
    BY <1>0, <1>w, DirectTyped
  <2>2. hardware' => hardware /\ ~Succeeds(Direct(status))
    BY <1>w, <2>1 DEF Succeeds, IsCommand
  <2>3. UNCHANGED <<tx, assembled, answer>> /\ Flight' = Flight
    BY <1>w DEF firmware, Flight
  <2> QED
    BY <1>i, <1>w, <2>1, <2>2, <2>3, SyncWritten
<1>f. ASSUME Calm, Fails, UNCHANGED <<tx, rx, firmware>> PROVE InStep' /\ RawResults'
  BY <1>i, <1>f, SyncFails DEF firmware, Flight
<1>1. CASE UNCHANGED vars \/ StopOrStart \/ FirmwareAnswers
  <2>1. /\ UNCHANGED requestVars /\ UNCHANGED <<pc, left, hardware, response>>
        /\ UNCHANGED <<tx, assembled, answer>>
    BY <1>1 DEF vars, StopOrStart, FirmwareAnswers, localVars, firmware
  <2>2. Flight' = Flight
    BY <1>1, FlightMoved DEF vars, StopOrStart, firmware, Flight
  <2> QED
    BY <1>i, <2>1, <2>2, SyncStays
<1>2. ASSUME NEW b \in Batches, Accept(b) PROVE InStep' /\ RawResults'
  <2>1. /\ pc = "idle" /\ pc' = "record" /\ ~hardware' /\ results' = <<>>
        /\ UNCHANGED <<tx, assembled, answer>> /\ Flight' = Flight
    BY <1>2 DEF Accept, firmware, Flight
  <2>2. Flight' = <<>> /\ Quiet'
    BY <1>i, <1>c, <2>1, MailStays DEF InStep, Calm
  <2>3. RawResults'
    BY <2>1 DEF RawResults
  <2> QED
    BY <2>1, <2>2, <2>3, InStepBetween
<1>3. CASE MamConfig
  BY <1>3, <1>c, <1>w, <1>f DEF MamConfig, localVars
<1>4. CASE LocalCommand
  BY <1>4, <1>c, <1>w DEF LocalCommand, Installs
<1>5. CASE WriteCommand
  BY <1>5, <1>c, <1>w DEF WriteCommand, Installs
<1>6. CASE Forward
  <2>1. /\ pc = "record" /\ pc' = "send" /\ left' = rec.sends /\ rec.kind \in Forwarded
        /\ hardware' = hardware /\ UNCHANGED requestVars
        /\ UNCHANGED <<tx, assembled, answer>> /\ Flight' = Flight
    BY <1>6 DEF Forward, localVars, firmware, Flight
  <2>2. Message2Send' = Message2Send /\ Message2Send = Message(Command)
    BY <2>1, RequestStays DEF Message2Send, Forwarded, Fetches
  <2>3. Len(Message(Command)) = rec.sends /\ rec.sends \in 1..2
    BY <1>0, <2>1, CommandTyped, MessageTyped
  <2>4. left' = Len(Message2Send') /\ left' > 0
    BY <2>1, <2>2, <2>3
  <2> QED
    BY <1>c, <1>i, <2>1, <2>4, SyncBegins
<1>7. CASE FetchHardware
  <2>1. /\ pc = "record" /\ pc' = "send" /\ left' = 1 /\ rec.kind \in Fetches
        /\ hardware' = hardware /\ UNCHANGED requestVars
        /\ UNCHANGED <<tx, assembled, answer>> /\ Flight' = Flight
    BY <1>7 DEF FetchHardware, AsksFirmware, localVars, firmware, Flight
  <2>2. Message2Send' = Message2Send /\ Message2Send = Message(FetchPacket)
    BY <2>1, RequestStays DEF Message2Send
  <2>3. left' = Len(Message2Send') /\ left' > 0
    BY <2>1, <2>2, FetchMessage
  <2> QED
    BY <1>c, <1>i, <2>1, <2>3, SyncBegins
<1>8. CASE SendChunk
  BY <1>8, <1>i, SyncSends
<1>9. CASE Sent /\ rec.kind \in Fetches
  <2>1. /\ pc = "send" /\ left = 0 /\ pc' = "receive" /\ response' = <<>>
        /\ UNCHANGED <<requestVars, tx, assembled, answer>> /\ Flight' = Flight
    BY <1>9 DEF Sent, firmware, Flight
  <2>2. FetchSent /\ FetchSent' /\ ~Receiving /\ Receiving' /\ ~Calm' /\ ~Sending'
    BY <1>9, <2>1 DEF FetchSent, Receiving, Calm, Sending
  <2>3. PICK c \in AnyCommand : LastIn(results, request, c, pos) /\ Asked(c)
    BY <1>i, <2>2 DEF InStep
  <2>4. /\ RawResults' /\ AnyCommand' = AnyCommand /\ LastIn(results, request, c, pos)'
    BY <1>i, <2>1, <2>3, RequestStays
  <2>5. GotOf = 0 /\ GotOf' = 0 /\ Len(response') = 0
    BY <2>1, <2>2 DEF GotOf
  <2>6. (NoMail' <=> NoMail) /\ (AllOf(FetchPacket)' <=> AllOf(FetchPacket))
    BY <2>1, MailStays DEF AllOf, NoMail, Message, FetchPacket, Chunk
  <2>7. OnItsWay(c) => OnItsWay(c)'
    BY <2>1, <2>5 DEF OnItsWay, Chunk
  <2>8. Asked(c)'
    BY <2>1, <2>3, <2>5, <2>6, <2>7 DEF Asked
  <2> QED
    BY <2>2, <2>4, <2>8 DEF InStep
<1>10. CASE Sent /\ rec.kind \notin Fetches
  <2>1. /\ pc = "send" /\ left = 0 /\ Written(Direct("ok"))
        /\ UNCHANGED <<tx, rx, firmware>>
    BY <1>10 DEF Sent
  <2>2. Sending /\ ~FetchSent
    BY <1>0, <1>10, <2>1 DEF Places, Sending, FetchSent, Receiving
  <2>3. Upcoming(Command) /\ Flight = <<>> /\ Command \in AnyCommand /\ Command # Nothing
    <3>1. Command \in AnyCommand /\ Command.pos = pos /\ pos > 0
      BY <1>0, <2>1, CommandTyped, RecordTyped
    <3>2. Command # Nothing
      BY <3>1 DEF Nothing
    <3> QED
      BY <1>i, <2>1, <2>2, <3>1, <3>2 DEF InStep
  <2>4. Quiet
    BY <2>3 DEF Upcoming, Quiet
  <2>5. UNCHANGED <<tx, assembled, answer>> /\ Flight' = <<>>
    BY <2>1, <2>3 DEF firmware, Flight
  <2>6. /\ Direct("ok") \in Result /\ Direct("ok").raw = FALSE /\ Direct("ok").status = "ok"
        /\ results \in Seq(Result)
    BY <1>0, <2>1, DirectTyped DEF Typing
  <2>7. pc' \in {"record", "idle"} /\ (pc' = "record" => pos' = pos + 1)
    BY <1>0, <2>1, <2>6, WrittenStep
  <2>8. LastIn(results', request', Command, pos + 1)
    BY <2>1, <2>6, LastWritten
  <2>9. \E c \in AnyCommand : LastIn(results', request', c, pos + 1) /\ Upcoming(c)'
    <3> DEFINE c == Command
    <3>1. c \in AnyCommand /\ LastIn(results', request', c, pos + 1) /\ Upcoming(c)
      BY <2>3, <2>8
    <3> HIDE DEF c
    <3> QED
      BY <2>5, <3>1, MailStays
  <2>10. Quiet' /\ RawResults'
    BY <1>i, <2>1, <2>4, <2>5, <2>6, MailStays, RawWritten
  <2> QED
    BY <2>5, <2>7, <2>9, <2>10, InStepBetween
<1>11. CASE SendFails
  <2>1. /\ pc = "send" /\ left > 0 /\ ~(left < Len(Message2Send))
        /\ IF rec.kind \in Fetches THEN Fails ELSE Written(Direct("failed"))
        /\ hardware' = hardware /\ UNCHANGED <<tx, rx, firmware>>
    BY <1>11 DEF SendFails, localVars
  <2>2. Calm
    <3>1. left \in Nat /\ left <= Len(Message2Send) /\ Len(Message2Send) \in Nat
      BY <1>0, <2>1, CommandTyped, MessageTyped DEF Places, Message2Send
    <3>2. left = Len(Message2Send)
      BY <2>1, <3>1
    <3> QED
      BY <2>1, <3>2 DEF Calm, FetchSent, Receiving
  <2> QED
    BY <1>w, <1>f, <2>1, <2>2
<1>12. CASE FetchLocal
  <2>1. /\ pc = "record" /\ Written(Delivered(FALSE)) /\ UNCHANGED <<tx, assembled, answer>>
        /\ Flight' = Flight /\ ~hardware'
    BY <1>12 DEF FetchLocal, firmware, Flight, PendingInv
  <2>2. Delivered(FALSE) \in Result /\ ~Delivered(FALSE).raw
    BY <1>0, <2>1, DeliveredTyped
  <2> QED
    BY <1>c, <1>i, <2>1, <2>2, SyncWritten
<1>13. CASE FetchNothing
  BY <1>13, <1>c, <1>w DEF FetchNothing
<1>14. CASE ReceiveChunk
  BY <1>14, <1>i, SyncReceives
<1>15. CASE ReceiveFails
  BY <1>15 DEF ReceiveFails
<1>16. CASE DeliverRaw
  BY <1>16, <1>i, SyncDelivers
<1>17. CASE Firmware
  BY <1>17, <1>i, SyncTakes
<1> QED
  BY <1>1, <1>2, <1>3, <1>4, <1>5, <1>6, <1>7, <1>8, <1>9, <1>10, <1>11, <1>12, <1>13,
     <1>14, <1>15, <1>16, <1>17 DEF Next, Thread

LEMMA SyncInit == Init => SyncInv
<1> SUFFICES ASSUME Init PROVE InStep /\ RawResults
  BY DEF SyncInv
<1>1. Flight = <<>> /\ results = <<>> /\ pc = "idle" /\ NoMail /\ DOMAIN results = {}
  <2>1. DOMAIN <<>> = {}
    OBVIOUS
  <2> QED
    BY <2>1, EmptyFlight DEF Init, Empty, NoMail
<1> QED
  BY <1>1 DEF InStep, RawResults, Quiet, Calm, FetchSent, Receiving, Sending

LEMMA SyncSound == Typing /\ LocalInv /\ SyncInv => FetchGetsLastResponse
<1> SUFFICES ASSUME Typing, LocalInv, SyncInv, NEW i \in DOMAIN results, Fetched(i),
                    results[i].raw => ~disturbed
             PROVE  OfOneCommand(i) /\ OfLastSuccess(i)
  BY DEF FetchGetsLastResponse
<1> DEFINE c == results[i].parts[1].command
<1>1. results[i].parts \in Seq(AnyChunk) /\ results[i].parts # <<>> /\ i \in Nat
  <2>1. results[i] \in Result /\ i \in Nat
    BY DEF Typing
  <2> QED
    BY <2>1 DEF Result, Fetched
<1>2. 1 \in DOMAIN results[i].parts
  BY <1>1, EmptySeq
<1>3. \A q \in DOMAIN results[i].parts :
         results[i].parts[q].command = c /\ results[i].parts[q].part = q
  <2>1. CASE results[i].raw
    <3>1. PICK d \in AnyCommand : OfCommand(results[i].parts, d)
      BY <2>1 DEF SyncInv, RawResults
    <3> QED
      BY <1>2, <3>1 DEF OfCommand
  <2>2. CASE ~results[i].raw
    BY <2>2 DEF LocalInv, AllHosted, Hosted
  <2> QED
    BY <2>1, <2>2
<1>4. /\ c.request = request /\ c.pos \in 1..i - 1 /\ Reports(results[c.pos])
      /\ \A j \in c.pos + 1..i - 1 : ~Succeeds(results[j])
  <2>1. CASE results[i].raw
    <3>1. PICK d \in AnyCommand : LastIn(results, request, d, i) /\ OfCommand(results[i].parts, d)
      BY <2>1 DEF SyncInv, RawResults
    <3>2. c = d
      BY <1>2, <3>1 DEF OfCommand
    <3> QED
      BY <3>1, <3>2 DEF LastIn, Reports
  <2>2. CASE ~results[i].raw
    <3>1. Hosted(results, batch.records, request, results[i].parts[1], 1, c, i)
      BY <1>2, <2>2 DEF LocalInv, AllHosted
    <3> QED
      BY <3>1 DEF Hosted
  <2> QED
    BY <2>1, <2>2
<1> HIDE DEF c
<1>5. OfOneCommand(i)
  <2>1. c.pos < i
    BY <1>1, <1>4
  <2>2. c = results[i].parts[1].command
    BY DEF c
  <2> QED
    BY <1>3, <1>4, <2>1, <2>2 DEF OfOneCommand
<1>6. OfLastSuccess(i)
  BY <1>4 DEF OfLastSuccess, Reports, Succeeds, c
<1> QED
  BY <1>5, <1>6

\* A fetch gets the response of the last command of its request that succeeded, and all
\* of it from the start, for batches of any length.
THEOREM FetchesLastResponse == Spec => []FetchGetsLastResponse
<1>1. Spec => []SyncInv
  BY SyncInit, SyncStep, TypingInvariant, PendingInvariant, PTL DEF Spec
<1> QED
  BY <1>1, SyncSound, TypingInvariant, LocalInvariant, PTL

\* Both of what a fetch is owed: the whole response of the last command of its request that
\* succeeded, and no response to a command twice.
THEOREM FetchesAreAnswered == Spec => []FetchesAnswered
<1>1. FetchGetsLastResponse /\ ResponseOnce => FetchesAnswered
  BY DEF FetchesAnswered
<1> QED
  BY <1>1, RespondedOnce, FetchesLastResponse, PTL

=============================================================================
