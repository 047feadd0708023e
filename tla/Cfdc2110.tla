------------------------------ MODULE Cfdc2110 ------------------------------
(***************************************************************************)
(* CFDC2110: a request is a batch of records that is executed under        *)
(* TransferMutex.  A command is executed by the host, which installs a     *)
(* local response, or forwarded to the firmware of the board through the   *)
(* BAR1 transport, a mailbox of one chunk in each direction.  A fetch      *)
(* delivers the pending response, asking the firmware for it if need be.   *)
(***************************************************************************)
EXTENDS Naturals, Sequences

CONSTANTS
    Batches,      \* requests the callers make
    RequestMax    \* bound: requests executed

\* A record: what becomes of it and how many chunks the command, its answer and
\* the room for a fetched response (recordOutput less the header) have.  "short"
\* is a fetch without room for the header, "revision" the opcode 0x99 of family 1.
Kinds == {"mam", "forward", "revision", "forward0", "local", "write", "jtag", "fetch",
          "short"}
Record == [kind : Kinds, sends : 1..2, answers : 1..2, room : 0..2]
Forwarded == {"forward", "revision", "forward0"}
Fetches == {"fetch", "short"}

ASSUME BatchesAssumption == \A b \in Batches :
    /\ b.room \in 1..2
    /\ b.records \in Seq(Record) \ {<<>>}
ASSUME RequestMaxAssumption == RequestMax \in Nat

VARIABLES
    started,      \* Started
    pc,           \* where the thread that holds TransferMutex is
    request,      \* number of the request that is executed or was last
    batch,        \* its records and the chunks its response buffer holds
    pos,          \* the record that is executed
    results,      \* what was written for the records before it
    ready,        \* pendingResponseReady
    hardware,     \* hardwareResponsePending
    overridden,   \* pendingResponseLengthOverride is not zero
    response,     \* pendingResponse
    left,         \* chunks of the command or fetch that are still to be sent
    tx, rx,       \* the chunk in the mailbox, by direction
    assembled,    \* firmware: chunks of a message that is not complete
    answer,       \* firmware: the command it answers for
    outgoing,     \* firmware: chunks of its answer not in the mailbox
    disturbed     \* history: the transport failed in a transfer

localVars == <<ready, hardware, overridden, response>>
requestVars == <<request, batch, pos, results>>
firmware == <<assembled, answer, outgoing>>
vars == <<started, pc, requestVars, localVars, left, tx, rx, firmware, disturbed>>

Empty == <<>>
rec == batch.records[pos]

\* A command is known by its request, record and size; the fetch has no number.
Command == [request |-> request, pos |-> pos, sends |-> rec.sends, answers |-> rec.answers]
FetchPacket == [request |-> 0, pos |-> 0, sends |-> 1, answers |-> 1]
Nothing == [request |-> 0, pos |-> 0, sends |-> 1, answers |-> 1]

Chunk(command, part, of) == [command |-> command, part |-> part, more |-> part < of]
Answer(command) == [p \in 1..command.answers |-> Chunk(command, p, command.answers)]
Message(command) == [p \in 1..command.sends |-> Chunk(command, p, command.sends)]

Numbers == 0..RequestMax
Commands == [request : Numbers, pos : 0..4, sends : 1..2, answers : 1..2]
Chunks == [command : Commands, part : 1..2, more : BOOLEAN]

Init ==
    /\ started = TRUE /\ pc = "idle"
    /\ request = 0 /\ batch = [records |-> <<>>, room |-> 1] /\ pos = 0 /\ results = <<>>
    /\ ready = FALSE /\ hardware = FALSE /\ overridden = FALSE /\ response = <<>>
    /\ left = 0
    /\ tx = Empty /\ rx = Empty
    /\ assembled = <<>> /\ answer = Nothing /\ outgoing = <<>>
    /\ disturbed = FALSE

-----------------------------------------------------------------------------
(* The batch.                                                               *)

\* LecIsAllowedCfDc2110: a batch that only fetches is refused.
Allowed(b) == \E i \in DOMAIN b.records : b.records[i].kind \notin Fetches

\* The records are copied and checked, and the mutex is taken.
Accept(b) ==
    /\ pc = "idle" /\ request < RequestMax
    /\ Allowed(b)
    /\ request' = request + 1 /\ batch' = b /\ pos' = 1 /\ results' = <<>>
    /\ ready' = FALSE /\ hardware' = FALSE /\ overridden' = FALSE /\ response' = <<>>
    /\ pc' = "record"
    /\ UNCHANGED <<started, left, tx, rx, firmware, disturbed>>

\* The next record, or the end of the batch and the release of the mutex.
Written(result) ==
    /\ results' = Append(results, result)
    /\ pos' = IF pos < Len(batch.records) THEN pos + 1 ELSE pos
    /\ pc' = IF pos < Len(batch.records) THEN "record" ELSE "idle"
    /\ UNCHANGED <<request, batch>>

\* The loop is left: the caller gets a status and no output.
Fails ==
    /\ pc' = "idle"
    /\ results' = <<>>
    /\ UNCHANGED <<request, batch, pos>>

Direct(status) ==
    [kind |-> rec.kind, status |-> status, parts |-> <<>>, raw |-> FALSE,
     overridden |-> FALSE]

\* A type 1 or type 2 record.
MamConfig ==
    /\ pc = "record" /\ rec.kind = "mam"
    /\ IF started THEN Written(Direct("ok")) ELSE Fails
    /\ UNCHANGED <<started, localVars, left, tx, rx, firmware, disturbed>>

Installs ==
    /\ response' = <<Chunk(Command, 1, 1)>>
    /\ ready' = TRUE /\ hardware' = FALSE

\* Timer, ITMODE, LEDs, MTTCTL, SPI, registers, revisions, the masks 0x0080 and
\* 0x0800 of opcode 0x88 and transfers: a response is installed, good or bad.
LocalCommand ==
    /\ pc = "record" /\ rec.kind = "local"
    /\ Installs
    /\ \E status \in {"ok", "failed"} : Written(Direct(status))
    /\ UNCHANGED <<started, overridden, left, tx, rx, firmware, disturbed>>

\* Mutant: a command that fails writes its response over the pending one.
WriteSpoilsPending ==
    /\ pc = "record" /\ rec.kind \in {"write", "jtag"}
    /\ \/ Installs /\ Written(Direct("ok"))
       \/ /\ Written(Direct("failed"))
          /\ response' = <<Chunk(Command, 1, 1)>> /\ UNCHANGED <<ready, hardware>>
    /\ UNCHANGED <<started, overridden, left, tx, rx, firmware, disturbed>>

\* A response only if it succeeds: the JTAG write, transfers with a token that is
\* unknown, and JTAG, which may have written to the buffer before it fails.
WriteCommand ==
    /\ pc = "record" /\ rec.kind \in {"write", "jtag"}
    /\ \/ Installs /\ Written(Direct("ok"))
       \/ /\ Written(Direct("failed"))
          /\ \/ UNCHANGED response
             \/ /\ rec.kind = "jtag"
                /\ response' = [p \in DOMAIN response |-> Chunk(Command, p, Len(response))]
          /\ UNCHANGED <<ready, hardware>>
    /\ UNCHANGED <<started, overridden, left, tx, rx, firmware, disturbed>>

Forward ==
    /\ pc = "record" /\ rec.kind \in Forwarded
    /\ pc' = "send" /\ left' = rec.sends
    /\ UNCHANGED <<started, requestVars, localVars, tx, rx, firmware, disturbed>>

-----------------------------------------------------------------------------
(* LecTransportSend.                                                        *)

\* Mutant: family 1 leaves the override as it is, too.
OverridesKept == rec.kind = "revision" \/ overridden

\* Family 0 leaves the override as it is.
Overrides == rec.kind = "revision" \/ (rec.kind = "forward0" /\ overridden)

\* Mutant: a local response outlives a command that was forwarded after it.
SentKeepsReady ==
    /\ pc = "send" /\ left = 0
    /\ IF rec.kind \in Fetches
       THEN pc' = "receive" /\ response' = <<>>
            /\ UNCHANGED <<requestVars, ready, hardware, overridden>>
       ELSE /\ hardware' = TRUE
            /\ overridden' = Overrides
            /\ Written(Direct("ok"))
            /\ UNCHANGED <<ready, response>>
    /\ UNCHANGED <<started, left, tx, rx, firmware, disturbed>>

\* The last chunk is in the mailbox.
Sent ==
    /\ pc = "send" /\ left = 0
    /\ IF rec.kind \in Fetches
       THEN pc' = "receive" /\ response' = <<>>
            /\ UNCHANGED <<requestVars, ready, hardware, overridden>>
       ELSE /\ hardware' = TRUE /\ ready' = FALSE
            /\ overridden' = Overrides
            /\ response' = <<>>
            /\ Written(Direct("ok"))
    /\ UNCHANGED <<started, left, tx, rx, firmware, disturbed>>

Message2Send == Message(IF rec.kind \in Fetches THEN FetchPacket ELSE Command)

\* Mutant: the mailbox is not waited for.
SendChunkAtOnce ==
    /\ pc = "send" /\ left > 0
    /\ started
    /\ tx' = <<Message2Send[Len(Message2Send) - left + 1]>>
    /\ left' = left - 1
    /\ UNCHANGED <<started, pc, requestVars, localVars, rx, firmware, disturbed>>

\* LecTransportWaitTxIdle sees the mailbox empty, and a chunk is written.
SendChunk ==
    /\ pc = "send" /\ left > 0
    /\ started /\ tx = Empty
    /\ tx' = <<Message2Send[Len(Message2Send) - left + 1]>>
    /\ left' = left - 1
    /\ UNCHANGED <<started, pc, requestVars, localVars, rx, firmware, disturbed>>

\* The firmware did not empty the mailbox in five seconds, or BAR1 is gone.
SendFails ==
    /\ pc = "send" /\ left > 0
    /\ ~started \/ tx # Empty
    /\ IF rec.kind \in Fetches THEN Fails ELSE Written(Direct("failed"))
    /\ left' = 0
    /\ disturbed' = (disturbed \/ left < Len(Message2Send))
    /\ UNCHANGED <<started, localVars, tx, rx, firmware>>

-----------------------------------------------------------------------------
(* The fetch, and LecTransportReceive.                                      *)

AsksFirmware == pc = "record" /\ rec.kind \in Fetches /\ ~ready /\ hardware

\* Bit 3 of INTEN is committed, which takes a BAR, and the packet is sent.
FetchHardware ==
    /\ AsksFirmware
    /\ pc' = "send" /\ left' = 1
    /\ UNCHANGED <<started, requestVars, localVars, tx, rx, firmware, disturbed>>

Delivered(raw) ==
    [kind |-> rec.kind, status |-> "ok",
     parts |-> SubSeq(response, 1,
                      IF Len(response) < rec.room THEN Len(response) ELSE rec.room),
     raw |-> raw, overridden |-> raw /\ overridden]

Consumed == ready' = FALSE /\ overridden' = FALSE /\ response' = <<>>

\* Mutant: the response is not consumed.
FetchLocalKeeps ==
    /\ pc = "record" /\ rec.kind \in Fetches
    /\ ready
    /\ Written(Delivered(FALSE))
    /\ UNCHANGED <<started, localVars, left, tx, rx, firmware, disturbed>>

\* A local response; it is cut to recordOutput.
FetchLocal ==
    /\ pc = "record" /\ rec.kind \in Fetches
    /\ ready
    /\ Written(Delivered(FALSE))
    /\ Consumed
    /\ UNCHANGED <<started, hardware, left, tx, rx, firmware, disturbed>>

\* There is none: the response of status 0x20.
FetchNothing ==
    /\ pc = "record" /\ rec.kind \in Fetches
    /\ ~ready /\ ~hardware
    /\ Written(Direct("nothing"))
    /\ Consumed
    /\ UNCHANGED <<started, hardware, left, tx, rx, firmware, disturbed>>

TooLarge == Len(response) = batch.room

\* Mutant: the size of the buffer is not checked.
ReceiveUnchecked ==
    /\ pc = "receive"
    /\ started /\ rx # Empty
    /\ response' = Append(response, rx[1])
    /\ rx' = Empty
    /\ pc' = IF rx[1].more THEN "receive" ELSE "deliver"
    /\ UNCHANGED <<started, requestVars, ready, hardware, overridden, left, tx, firmware,
                   disturbed>>

\* A chunk is copied and acknowledged; the last one ends the receive.
ReceiveChunk ==
    /\ pc = "receive"
    /\ started /\ rx # Empty /\ ~TooLarge
    /\ response' = Append(response, rx[1])
    /\ rx' = Empty
    /\ pc' = IF rx[1].more THEN "receive" ELSE "deliver"
    /\ UNCHANGED <<started, requestVars, ready, hardware, overridden, left, tx, firmware,
                   disturbed>>

\* The answer gets a header and is cut to recordOutput.
DeliverRaw ==
    /\ pc = "deliver"
    /\ \/ rec.kind = "short" /\ Fails
       \/ rec.kind # "short" /\ Written(Delivered(TRUE))
    /\ Consumed /\ hardware' = FALSE
    /\ UNCHANGED <<started, left, tx, rx, firmware, disturbed>>

\* Mutant: an answer is waited for without a limit.
ReceiveWaitsForEver ==
    /\ pc = "receive"
    /\ TooLarge \/ ~started
    /\ Fails
    /\ disturbed' = TRUE
    /\ UNCHANGED <<started, localVars, left, tx, rx, firmware>>

\* The firmware did not answer in five seconds, the answer does not fit, which
\* leaves it in the mailbox, or BAR1 is gone.
ReceiveFails ==
    /\ pc = "receive"
    /\ rx = Empty \/ TooLarge \/ ~started
    /\ Fails
    /\ disturbed' = TRUE
    /\ UNCHANGED <<started, localVars, left, tx, rx, firmware>>

-----------------------------------------------------------------------------
(* The firmware, as the driver uses it: it joins the chunks of a message,   *)
(* executes a command at once and answers a fetch for the last command.     *)

Whole(message) == message = Message(message[1].command)
Garbled == Nothing

Firmware ==
    /\ tx # Empty
    /\ tx' = Empty
    /\ LET message == Append(assembled, tx[1]) IN
       IF tx[1].more
       THEN assembled' = message /\ UNCHANGED <<answer, outgoing>>
       ELSE /\ assembled' = <<>>
            /\ \/ /\ message = Message(FetchPacket)
                  /\ outgoing' = outgoing \o Answer(answer)
                  /\ UNCHANGED answer
               \/ /\ message # Message(FetchPacket)
                  /\ answer' = IF Whole(message) THEN message[1].command ELSE Garbled
                  /\ UNCHANGED outgoing
    /\ UNCHANGED <<started, pc, requestVars, localVars, left, rx, disturbed>>

FirmwareAnswers ==
    /\ outgoing # <<>> /\ rx = Empty
    /\ rx' = <<outgoing[1]>>
    /\ outgoing' = Tail(outgoing)
    /\ UNCHANGED <<started, pc, requestVars, localVars, left, tx, assembled, answer,
                   disturbed>>

\* PnP stop and start do not wait for the mutex.
StopOrStart ==
    /\ started' = ~started
    /\ UNCHANGED <<pc, requestVars, localVars, left, tx, rx, firmware, disturbed>>

-----------------------------------------------------------------------------
Thread ==
    \/ MamConfig \/ LocalCommand \/ WriteCommand \/ Forward
    \/ Sent \/ SendChunk \/ SendFails
    \/ FetchHardware \/ FetchLocal \/ FetchNothing
    \/ ReceiveChunk \/ ReceiveFails \/ DeliverRaw

Next ==
    \/ \E b \in Batches : Accept(b)
    \/ Thread
    \/ Firmware \/ FirmwareAnswers \/ StopOrStart

Spec == Init /\ [][Next]_vars

\* The thread runs and its waits are bounded; nothing is assumed of the firmware.
FairSpec == Spec /\ WF_vars(Thread)

-----------------------------------------------------------------------------
(* Properties.                                                              *)

IsCommand(result) == result.kind \notin Fetches \cup {"mam"}

\* The response at i is that of one command of this request, from its start.
OfOneCommand(i) ==
    LET parts == results[i].parts IN
    \A p \in DOMAIN parts :
        /\ parts[p].command = parts[1].command /\ parts[p].part = p
        /\ parts[p].command.request = request
        /\ parts[p].command.pos < i

\* That command succeeded, or failed and reports why, and none after it did.  A
\* JTAG command that failed may have written over the response before it.
OfLastSuccess(i) ==
    LET k == results[i].parts[1].command.pos IN
    /\ results[k].status = "ok" \/ results[k].kind \in {"local", "jtag"}
    /\ \A j \in k + 1..i - 1 : IsCommand(results[j]) => results[j].status # "ok"

Fetched(i) == results[i].kind \in Fetches /\ results[i].parts # <<>>

\* A fetch gets the response of the last command of its request that succeeded:
\* neither that of a command before it, nor of another request, nor one that is
\* torn, whatever commands failed in between.  An answer of the firmware is
\* excepted once a message was torn or a receive given up.
FetchGetsLastResponse ==
    \A i \in DOMAIN results :
        Fetched(i) /\ (results[i].raw => ~disturbed)
            => OfOneCommand(i) /\ OfLastSuccess(i)

\* Nothing after j and before i ends the count that opcode 0x99 set: the count
\* is kept by commands of family 0 and by those that fail.
Counts(i, j) ==
    /\ results[j].kind = "revision" /\ results[j].status = "ok"
    /\ \A k \in j + 1..i - 1 :
          /\ results[k].kind \notin Fetches
          /\ results[k].kind = "forward" => results[k].status # "ok"

\* An answer of the firmware is delivered with the count of opcode 0x99 exactly
\* if one was sent before it and neither a fetch nor a command of family 1 since.
CountIsOfItsCommand ==
    \A i \in DOMAIN results :
        results[i].raw => (results[i].overridden <=> \E j \in 1..i - 1 : Counts(i, j))

\* No response to a command is delivered twice.  What the firmware says to messages
\* that were torn is the answer to no command, and may come again.
ResponseOnce ==
    \A i, j \in DOMAIN results :
        i # j /\ Fetched(i) /\ Fetched(j) /\ results[i].parts[1].command # Garbled
            => results[i].parts[1] # results[j].parts[1]

\* What a fetch is answered is the response it asks for, and it is answered once.
FetchesAnswered == FetchGetsLastResponse /\ ResponseOnce

\* A local response and one that the firmware holds are never both pending, and what is
\* pending fits the buffer that was allocated for the caller's output.
OnePending ==
    /\ ~(ready /\ hardware)
    /\ pc # "idle" => Len(response) <= batch.room

\* Every request ends and releases TransferMutex, whatever the firmware does.
RequestEnds == pc # "idle" ~> pc = "idle"
=============================================================================
