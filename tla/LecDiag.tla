------------------------------- MODULE LecDiag -------------------------------
(***************************************************************************)
(* lecdiag: one command, from the opening of the driver to its exit code.  *)
(* A command is a list of requests; the driver answers each as in Dispatch,*)
(* or walks it as in Framing if it is a CFDC2110 packet.  The tool has its *)
(* own copies of the structures and of the captured packets.               *)
(***************************************************************************)
EXTENDS Dispatch, Framing

CONSTANTS
    DiagCommands   \* name, and the arguments of those that have some

CommandNames ==
    {"build", "stats", "pci", "bars", "trace", "trace-clear", "dallas-id", "dallas-read",
     "start-register", "error-status", "read", "raw-ioctl", "legacy-jtag-poll",
     "legacy-prepoll-replay"}

ASSUME DiagAssumption == \A c \in DiagCommands :
    c.name \in CommandNames /\ {c.in, c.out} \subseteq Nat

VARIABLES
    dgPc,          \* open, send, await or exit
    command,
    dgHandle,      \* the driver is open
    dgAnswers,     \* status, information and bytes used of each answer
    dgExit         \* exit code, -1 before

dgVars == <<dgPc, command, dgHandle, dgAnswers, dgExit>>

DgInit(commands) ==
    /\ dgPc = "open" /\ command \in commands
    /\ dgHandle = FALSE /\ dgAnswers = <<>> /\ dgExit = -1

-----------------------------------------------------------------------------
(* The requests.                                                            *)

\* sizeof of the tool's structures.
TraceEntryBytes == (((6 * 8) + (6 * 4) + 4 + 256 + 128 + 7) \div 8) * 8
\* Mutant: the debug structures of another build of the driver.
RoomOld ==
    [stats |-> (2 * 4) + (4 * 8), bars |-> (2 * 4) + (4 * 16),
     pci |-> (5 * 4) + (4 * 2) + 8 + (6 * 4) + 4 + (2 * 2) + 4 + 4 + 4 + 4,
     trace |-> 16 + (256 * TraceEntryBytes)]

Room == [stats |-> (2 * 4) + (4 * 8) + (2 * 4), bars |-> (2 * 4) + (4 * 16),
         pci |-> (5 * 4) + (4 * 2) + 8 + (6 * 4) + 4 + (2 * 2) + 4 + 4 + 4 + 4,
         trace |-> 16 + (256 * TraceEntryBytes)]

\* used: bytes of the room that the tool looks at, whatever came back.
Ask(code, in, out) ==
    [code |-> code, in |-> in, out |-> out, used |-> out, exact |-> FALSE, records |-> <<>>]
AskExactly(code, in, out) == [Ask(code, in, out) EXCEPT !.exact = TRUE]
AskUpTo(code, in, out) == [Ask(code, in, out) EXCEPT !.used = 0]

PacketBytes(records) ==
    (Len(records) * HeaderBytes) + records[1].plen
    + (IF Len(records) = 2 THEN records[2].plen ELSE 0)
Packet(records, out, used) ==
    [code |-> "CFDC2110", in |-> PacketBytes(records), out |-> out, used |-> used,
     exact |-> FALSE, records |-> records]

Field(kind, plen, arg, bits, room, addr) ==
    [kind |-> kind, out |-> 6, plen |-> plen, arg |-> arg, bits |-> bits, room |-> room,
     addr |-> addr]
Fetch(out) == [Field("fetch", 2, 0, 0, 0, 0) EXCEPT !.out = out]

\* The packet that legacy_jtag_poll sends, and the probe of the replay.
JtagPoll == Packet(<<Field("jtag", 32, 1, 76, 10, 0), Fetch(18)>>, 24, 24)

\* A step that is followed by a fetch, and the words of the MAM.
Fetched(r) == Packet(<<r, Fetch(8)>>, 14, 0)
Mam == Packet(<<Field("mam", 42, 0, 0, 0, 0)>>, 6, 0)
Times(n, step) == [i \in 1..n |-> step]

Replayed ==
    Times(6, Fetched(Field("reg", 10, 1, 0, 0, 196)))
    \o <<Fetched(Field("spi", 14, 12, 40, 0, 0))>>
    \o Times(5, Fetched(Field("jtagWrite", 20, 1, 48, 0, 0)))
    \o <<Fetched(Field("arm", 8, 1, 0, 0, 0)), Fetched(Field("spi", 26, 14, 144, 0, 0))>>
    \o [i \in 1..5 |-> Fetched(Field("spi", 12, i - 1, 24, 0, 0))]
    \o <<Fetched(Field("arm", 8, 1, 0, 0, 0))>>
    \o Times(12, Mam)
    \o <<Fetched(Field("mtt", 6, 1, 0, 0, 0))>>

\* The probe comes first and behind every step.
PrepollReplay ==
    [i \in 1..(2 * Len(Replayed)) + 1 |->
        IF i % 2 = 1 THEN JtagPoll ELSE Replayed[i \div 2]]

\* The arguments the tool accepts, and what it sends for them.
Accepted(c) ==
    /\ c.name = "dallas-read" => c.out \in 1..512
    /\ c.name = "raw-ioctl" => c.in \in 1..65536 /\ c.out <= 65536
    /\ c.name = "read" => c.in <= 2

QueryBuild == <<Ask("CFDC21C8", 0, 4)>>
QueryStats == <<Ask("stats", 0, Room.stats)>>
QueryPci == <<Ask("pci", 0, Room.pci)>>
QueryBars == <<Ask("bars", 0, Room.bars)>>
QueryTrace == <<Ask("trace", 0, Room.trace)>>
ClearTheTrace == <<Ask("clear trace", 0, 0)>>
QueryDallasId == <<Ask("23080", 0, 8)>>
ReadDallasMemory(length) == <<AskUpTo("23084", 0, length)>>
ReadRegister == <<Ask("CFDC21C0", 5, 4)>>
RawIoctl(code, in, out) == <<AskUpTo(code, in, out)>>

\* The start register, and the same register by the request that names it.
QueryLegacyStartRegister == <<AskExactly("23044", 0, 4), AskExactly("CFDC21C0", 5, 4)>>

\* Reads the latch of CFDC2194 and so clears it.
QueryLegacyErrorStatus == <<AskExactly("CFDC2194", 0, 29)>>

RequestsOf(c) ==
    CASE c.name = "build" -> QueryBuild
      [] c.name = "stats" -> QueryStats
      [] c.name = "pci" -> QueryPci
      [] c.name = "bars" -> QueryBars
      [] c.name = "trace" -> QueryTrace
      [] c.name = "trace-clear" -> ClearTheTrace
      [] c.name = "dallas-id" -> QueryDallasId
      [] c.name = "dallas-read" -> ReadDallasMemory(c.out)
      [] c.name = "start-register" -> QueryLegacyStartRegister
      [] c.name = "error-status" -> QueryLegacyErrorStatus
      [] c.name = "read" -> ReadRegister
      [] c.name = "raw-ioctl" -> RawIoctl(c.code, c.in, c.out)
      [] c.name = "legacy-jtag-poll" -> <<JtagPoll>>
      [] c.name = "legacy-prepoll-replay" -> PrepollReplay

-----------------------------------------------------------------------------
(* A command.                                                               *)

Leave(code) == dgPc' = "exit" /\ dgHandle' = FALSE /\ dgExit' = code

\* An interface of the device or its DOS link; no device ends the command.
OpenDriver ==
    /\ dgPc = "open"
    /\ \/ dgPc' = "send" /\ dgHandle' = TRUE /\ UNCHANGED dgExit
       \/ Leave(1)
    /\ UNCHANGED <<command, dgAnswers, dpVars, frVars>>

RefuseArguments ==
    /\ dgPc = "send" /\ ~Accepted(command)
    /\ Leave(IF command.name = "read" THEN 1 ELSE 2)
    /\ UNCHANGED <<command, dgAnswers, dpVars, frVars>>

Current == RequestsOf(command)[Len(dgAnswers) + 1]
IsPacket == Current.records # <<>>

SendRequest ==
    /\ dgPc = "send" /\ Accepted(command) /\ ~IsPacket
    /\ dpPc' = "arrive"
    /\ request' = [code |-> Current.code, in |-> Current.in, out |-> Current.out]
    /\ dpStatus' = "invalid request" /\ information' = 0
    /\ readEnd' = 0 /\ writeEnd' = 0 /\ previews' = <<>>
    /\ dgPc' = "await"
    /\ UNCHANGED <<command, dgHandle, dgAnswers, dgExit, frVars>>

SendPacket ==
    /\ dgPc = "send" /\ Accepted(command) /\ IsPacket
    /\ buffer' = [records |-> Current.records, length |-> Current.in, out |-> Current.out]
    /\ frPc' = "admit" /\ frPos' = 1 /\ frOffset' = 0 /\ forwards' = FALSE
    /\ totalOutput' = 0 /\ outputOffset' = 0 /\ answers' = <<>> /\ readTo' = 0
    /\ shift' = NoShift
    /\ dgPc' = "await"
    /\ UNCHANGED <<command, dgHandle, dgAnswers, dgExit, dpVars>>

DriverWorks ==
    /\ dgPc = "await"
    /\ IF IsPacket THEN FrNext /\ UNCHANGED dpVars ELSE DpNext /\ UNCHANGED frVars
    /\ UNCHANGED dgVars

Answer ==
    IF IsPacket
    THEN [status |-> IF frPc = "done" THEN "success" ELSE "invalid request",
          returned |-> IF frPc = "done" THEN totalOutput ELSE 0,
          used |-> IF frPc = "done" /\ totalOutput >= Current.used THEN Current.used ELSE 0]
    ELSE [status |-> dpStatus, returned |-> information,
          used |-> IF dpStatus # "success" THEN 0
                   ELSE IF Current.used = 0 THEN information ELSE Current.used]

\* Mutant: a request that fails is passed over.
RefusalNever(answer) == FALSE

\* The request failed, or returned other than the bytes that are asked for.
Refusal(answer) ==
    \/ answer.status # "success"
    \/ Current.exact /\ answer.returned # Current.out

\* The contents are wrong: two readings of a register, the layout of an error status.
ContentChecked == command.name \in {"start-register", "error-status"}

\* DeviceIoControl returns: the command breaks off, goes on or is through.
TakeAnswer ==
    /\ dgPc = "await"
    /\ IF IsPacket THEN frPc \in {"done", "refused", "ended"} ELSE dpPc = "done"
    /\ dgAnswers' = Append(dgAnswers, Answer)
    /\ \/ Refusal(Answer) /\ Leave(1)
       \/ ~Refusal(Answer) /\ ContentChecked /\ Leave(1)
       \/ /\ ~Refusal(Answer) /\ Len(dgAnswers') = Len(RequestsOf(command))
          /\ Leave(0)
       \/ /\ ~Refusal(Answer) /\ Len(dgAnswers') < Len(RequestsOf(command))
          /\ dgPc' = "send" /\ UNCHANGED <<dgHandle, dgExit>>
    /\ UNCHANGED <<command, dpVars, frVars>>

DgNext ==
    \/ OpenDriver \/ RefuseArguments \/ SendRequest \/ SendPacket \/ DriverWorks
    \/ TakeAnswer

-----------------------------------------------------------------------------
(* Properties.                                                              *)

\* Tool and driver agree although they share no header: whatever the tool asks of its
\* own accord has lengths the driver admits, every packet it replays is admitted and
\* each of its records executed; what the tool prints was returned by the driver; and
\* the exit code is 0 only if every request of the command succeeded.
DiagTruthful ==
    /\ command.name # "raw-ioctl" => \A i \in DOMAIN dgAnswers :
          dgAnswers[i].status \notin {"invalid size", "invalid request", "too small",
                                      "not implemented"}
    /\ \A i \in DOMAIN dgAnswers : dgAnswers[i].used <= dgAnswers[i].returned
    /\ dgPc = "await" /\ IsPacket => \A i \in DOMAIN answers : answers[i] = 0
    /\ dgExit = 0 =>
          /\ Len(dgAnswers) = Len(RequestsOf(command))
          /\ \A i \in DOMAIN dgAnswers : dgAnswers[i].status = "success"
    /\ dgHandle <=> dgPc \in {"send", "await"}
=============================================================================
