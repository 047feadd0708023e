------------------------------ MODULE Framing ------------------------------
(***************************************************************************)
(* CFDC2110 walks a buffer of packed records three times: to admit it      *)
(* before hardware is touched, to add up the output it asks for, and to    *)
(* execute it.  The passes check different things and the last one trusts  *)
(* the first.  A record has a header of HeaderBytes and plen bytes of      *)
(* payload; of the payload, the fields that a check reads are kept.        *)
(***************************************************************************)
EXTENDS Integers, Sequences

CONSTANTS
    Buffers,        \* what callers send: records, length and room for output
    Captured        \* record lists that were captured and are admitted as they are

HeaderBytes == 8

\* By kind: mam is of type 1 or 2, jtagWrite is 0x42 of family 0, jtag that of family
\* 1, reg 0x92, arm, mtt, itmode and led 0x01, 0x02, 0x05 and 0x10 of family 2, enable
\* 0x85, mask 0x88, pfreg 0xA0, spi 0x90, launch 0x50, revision 0xA1, forward what goes
\* to the firmware, reset 0x40 of family 2, fetch and status are 85FB, and unknown has
\* another type, signature, family or opcode.
Kinds == {"mam", "jtagWrite", "jtag", "reg", "arm", "mtt", "itmode", "led", "enable",
          "mask", "pfreg", "spi", "launch", "revision", "forward", "reset", "fetch",
          "status", "unknown"}

\* out: recordOutput; arg: the byte behind the opcode, mode or selector; bits: the count
\* of a shift; room: bytes of data a JTAG response is to hold; addr: register offset.
FrRecord ==
    [kind : Kinds, out : Nat, plen : Nat, arg : Nat, bits : Nat, room : Nat, addr : Nat]

\* Where the records of a list begin, and where the last one ends.
StartsOf(records) ==
    LET start[i \in 1..Len(records) + 1] ==
            IF i = 1 THEN 0 ELSE start[i - 1] + (HeaderBytes + records[i - 1].plen)
    IN  start

\* The records of a buffer are those that begin in it; the last one may reach behind its
\* end, and less than a header may follow.
ASSUME BuffersAssumption == \A b \in Buffers :
    /\ b.length \in Nat /\ b.out \in Nat /\ b.records \in Seq(FrRecord)
    /\ \A i \in 1..Len(b.records) : StartsOf(b.records)[i] < b.length

VARIABLES
    buffer,       \* the request
    frPc,         \* admit, measure, execute, shift, shiftWrite, done, refused or ended
    frPos,        \* the record the walk is at
    frOffset,     \* offset, inputOffset
    forwards,     \* sawForwardCommand
    totalOutput, outputOffset,
    answers,      \* protocol status of each record that was executed
    readTo,       \* history: no byte from here on was read
    shift         \* the JTAG loop: bits and words to go, offsets, JTAGNUM, bits shifted

frVars == <<buffer, frPc, frPos, frOffset, forwards, totalOutput, outputOffset, answers,
            readTo, shift>>
frWalk == <<frPos, frOffset>>

NoShift ==
    [left |-> 0, in |-> 0, end |-> 0, out |-> 0, room |-> 0, num |-> 0, shifted |-> 0]

FrInit(buffers) ==
    /\ buffer \in buffers
    /\ frPc = "admit" /\ frPos = 1 /\ frOffset = 0 /\ forwards = FALSE
    /\ totalOutput = 0 /\ outputOffset = 0 /\ answers = <<>> /\ readTo = 0
    /\ shift = NoShift

-----------------------------------------------------------------------------
frRecord == buffer.records[frPos]
Rest == buffer.length - frOffset
Span == HeaderBytes + frRecord.plen
Payload == frOffset + HeaderBytes
Words(bits) == (bits + 15) \div 16
Furthest(a, b) == IF a > b THEN a ELSE b

\* The walk goes on, and comes to an end where a pass ends.
Walk ==
    /\ frPos' = frPos + 1
    /\ frOffset' = frOffset + Span

Rewind == frPos' = 1 /\ frOffset' = 0

\* Fewest bytes of payload by kind, and the exact number where one is asked for.
Fewest == [k \in Kinds |->
    CASE k \in {"jtagWrite", "arm", "spi"} -> 8
      [] k = "mtt" -> 4
      [] k = "led" -> 5
      [] k \in {"enable", "mask", "pfreg"} -> 6
      [] k = "jtag" -> 12
      [] k = "fetch" -> 2
      [] k = "mam" -> 0
      [] OTHER -> 3]
Exactly == [k \in {"reg", "launch", "revision"} |-> IF k = "revision" THEN 4 ELSE 10]

ArgOk(r) ==
    /\ r.kind \in {"jtagWrite", "jtag", "mtt"} => r.arg <= 1
    /\ r.kind = "arm" => r.arg = 1
    /\ r.kind = "reg" => r.arg = 1 /\ r.addr % 4 = 0
    /\ r.kind = "spi" => r.arg \in 0..4 \cup {12, 14}

\* Mutant: a last word that is not full is not counted.
ShiftFitsWhole(r, rest) ==
    /\ r.kind = "jtagWrite" => r.plen - 3 >= 5 + 4 * (r.bits \div 16)
    /\ r.kind = "spi" => r.plen - 3 >= 5 + 2 * Words(r.bits)
    /\ r.kind = "jtag" => rest - HeaderBytes - 3 >= 9 + 4 * (r.bits \div 16)

\* The words a shift takes: those of family 1 may reach into the records behind.
ShiftFits(r, rest) ==
    /\ r.kind = "jtagWrite" => r.plen - 3 >= 5 + 4 * Words(r.bits)
    /\ r.kind = "spi" => r.plen - 3 >= 5 + 2 * Words(r.bits)
    /\ r.kind = "jtag" => rest - HeaderBytes - 3 >= 9 + 4 * Words(r.bits)

\* What LecIsStructurallySupportedCfDc2110 asks of the record at the offset.
Supported(r, rest) ==
    /\ rest >= HeaderBytes /\ HeaderBytes + r.plen <= rest
    /\ r.kind \notin {"unknown", "reset", "status"}
    /\ r.plen >= Fewest[r.kind]
    /\ r.kind \in DOMAIN Exactly => r.plen = Exactly[r.kind]
    /\ r.kind = "mam" => r.plen % 2 = 0 /\ r.plen \div 2 <= 255
    /\ ArgOk(r)
    /\ ShiftFits(r, rest)

AdmitRecord ==
    /\ frPc = "admit" /\ Rest > 0 /\ frPos <= Len(buffer.records)
    /\ Supported(frRecord, Rest)
    /\ forwards' = (forwards \/ frRecord.kind # "fetch")
    /\ Walk
    /\ UNCHANGED <<buffer, frPc, totalOutput, outputOffset, answers, readTo, shift>>

\* The walk has met the end of the buffer, or a record or rest it does not admit; then
\* one of the captured packets is admitted as a whole.
Structural == Rest = 0 /\ forwards
Stops == Rest = 0 \/ frPos > Len(buffer.records) \/ ~Supported(frRecord, Rest)

IsCaptured ==
    /\ buffer.records \in Captured
    /\ buffer.length = Len(buffer.records) * HeaderBytes
                        + buffer.records[1].plen
                        + (IF Len(buffer.records) = 2 THEN buffer.records[2].plen ELSE 0)

AdmitEnds ==
    /\ frPc = "admit" /\ Stops
    /\ frPc' = IF Structural \/ IsCaptured THEN "measure" ELSE "refused"
    /\ Rewind
    /\ UNCHANGED <<buffer, forwards, totalOutput, outputOffset, answers, readTo, shift>>

-----------------------------------------------------------------------------
\* The first pass of the handler; a buffer it does not accept ends the request.
MeasureRecord ==
    /\ frPc = "measure" /\ Rest > 0
    /\ IF Rest < HeaderBytes \/ frRecord.plen > Rest - HeaderBytes
          \/ frRecord.out > buffer.out - totalOutput
       THEN frPc' = "ended" /\ UNCHANGED <<frWalk, totalOutput>>
       ELSE /\ totalOutput' = totalOutput + frRecord.out
            /\ Walk
            /\ UNCHANGED frPc
    /\ UNCHANGED <<buffer, forwards, outputOffset, answers, readTo, shift>>

MeasureEnds ==
    /\ frPc = "measure" /\ Rest = 0
    /\ frPc' = "execute" /\ Rewind
    /\ UNCHANGED <<buffer, forwards, totalOutput, outputOffset, answers, readTo, shift>>

-----------------------------------------------------------------------------
(* The execution.                                                           *)

\* How much of its payload a handler reads once its own checks have passed.
PayloadRead(r) ==
    CASE r.kind = "mam" -> r.plen
      [] r.kind \in {"arm"} -> 8
      [] r.kind \in {"reg", "launch"} -> 10
      [] r.kind = "mtt" -> 4
      [] r.kind = "led" -> 5
      [] r.kind \in {"enable", "mask", "pfreg"} -> 6
      [] r.kind = "spi" -> 8 + 2 * Words(r.bits)
      [] r.kind = "jtagWrite" -> 5
      [] r.kind = "jtag" -> 10
      [] r.kind \in {"fetch", "status"} -> 2
      [] OTHER -> 3

\* What was captured: a shift, or a record with the payload its handler reads, and behind
\* it a fetch.
ASSUME CapturedAssumption == \A c \in Captured :
    /\ c \in Seq(FrRecord) /\ Len(c) \in 1..2
    /\ \/ c[1].kind = "jtag"
       \/ c[1].kind \in {"reset", "status", "mask"} /\ PayloadRead(c[1]) <= c[1].plen
    /\ Len(c) = 2 => c[2].kind = "fetch" /\ PayloadRead(c[2]) <= c[2].plen

\* The checks a handler repeats, and the protocol status it gives if one fails; 0 stands
\* for everything that happens when they hold.
Checked(r) ==
    CASE r.kind = "unknown" -> 2
      [] r.kind = "arm" /\ (r.plen < 8 \/ r.arg # 1) -> 4
      [] r.kind = "led" /\ r.plen < 5 -> 4
      [] r.kind = "reg" /\ (r.plen # 10 \/ r.arg # 1) -> 4
      [] r.kind = "reg" /\ r.addr % 4 # 0 -> 8
      [] r.kind = "mask" /\ r.plen < 6 -> 4
      [] r.kind \in {"enable", "pfreg"} /\ r.plen < 6 -> 8
      [] r.kind = "launch" /\ r.plen # 10 -> 4
      [] r.kind = "spi" /\ (r.plen < 8 \/ r.plen - 3 < 5 + 2 * Words(r.bits)) -> 4
      [] r.kind = "spi" /\ r.arg \notin 0..4 \cup {12, 14} -> 4
      [] r.kind = "jtagWrite" /\ (r.plen < 8 \/ r.arg > 1) -> 4
      [] r.kind = "jtag" /\ (Rest - HeaderBytes - 3 < 9 \/ r.arg > 1) -> 4
      [] r.kind = "jtag" /\ Furthest(buffer.out, 8) < 8 + r.room -> 8
      [] OTHER -> 0

IsA5fb(r) == r.kind \notin {"mam", "fetch", "status"}
TooSmall(r) == IsA5fb(r) /\ (r.out < 6 \/ r.plen < 3)
Shifts(r) == r.kind \in {"jtag", "jtagWrite"} /\ ~TooSmall(r) /\ Checked(r) = 0

Answered(answer) ==
    /\ answers' = Append(answers, answer)
    /\ outputOffset' = outputOffset + frRecord.out
    /\ Walk

\* A status query needs ten bytes of output and a response from the firmware six.
NoOutput(r) ==
    \/ r.kind = "status" /\ r.out < 10
    \/ r.kind = "fetch" /\ r.out < 6

ExecuteRecord ==
    /\ frPc = "execute" /\ Rest > 0 /\ ~Shifts(frRecord)
    /\ readTo' = Furthest(readTo, Payload +
          IF TooSmall(frRecord) \/ Checked(frRecord) # 0 THEN 0 ELSE PayloadRead(frRecord))
    /\ \/ NoOutput(frRecord) /\ frPc' = "ended"
          /\ UNCHANGED <<frWalk, answers, outputOffset>>
       \/ /\ frRecord.kind = "status" => ~NoOutput(frRecord)
          /\ Answered(IF TooSmall(frRecord) THEN 2 ELSE Checked(frRecord))
          /\ UNCHANGED frPc
    /\ UNCHANGED <<buffer, forwards, totalOutput, shift>>

ExecuteEnds ==
    /\ frPc = "execute" /\ Rest = 0
    /\ frPc' = "done"
    /\ UNCHANGED <<buffer, frWalk, forwards, totalOutput, outputOffset, answers, readTo,
                   shift>>

\* LecJtagExecute and LecJtagWriteOnly: a request of the rest of the input, or of the
\* payload, with words of four bytes from behind its fields.
BeginShift ==
    /\ frPc = "execute" /\ Rest > 0 /\ Shifts(frRecord)
    /\ frPc' = IF frRecord.kind = "jtag" THEN "shift" ELSE "shiftWrite"
    /\ readTo' = Furthest(readTo, Payload + PayloadRead(frRecord))
    /\ shift' =
        [left |-> frRecord.bits, num |-> 0, shifted |-> 0, out |-> 8,
         in   |-> Payload + (IF frRecord.kind = "jtag" THEN 12 ELSE 8),
         end  |-> IF frRecord.kind = "jtag" THEN buffer.length ELSE Payload + frRecord.plen,
         room |-> IF frRecord.kind = "jtag" THEN 8 + frRecord.room ELSE 8]
    /\ UNCHANGED <<buffer, frWalk, forwards, totalOutput, outputOffset, answers>>

\* Mutant: JTAGNUM keeps the count of the full words.
ProgrammedOnce == 0

\* JTAGNUM: no count for a run of full words, that of the bits left for the last one.
Programmed == IF shift.left >= 16 THEN 0 ELSE shift.left

OutOfWords == shift.in + 4 > shift.end
OutOfRoom == frPc = "shift" /\ shift.out + 2 > shift.room

\* JTAGDAT shifts what JTAGNUM says, sixteen bits without a count.
ShiftWord ==
    /\ frPc \in {"shift", "shiftWrite"} /\ shift.left > 0 /\ ~OutOfWords /\ ~OutOfRoom
    /\ readTo' = Furthest(readTo, shift.in + 4)
    /\ shift' = [shift EXCEPT
            !.num = Programmed, !.in = @ + 4,
            !.shifted = @ + (IF Programmed = 0 THEN 16 ELSE Programmed),
            !.left = IF @ >= 16 THEN @ - 16 ELSE 0,
            !.out = IF frPc = "shift" THEN @ + 2 ELSE @]
    /\ UNCHANGED <<buffer, frPc, frWalk, forwards, totalOutput, outputOffset, answers>>

\* All is shifted, or the request or the room of the response breaks it off.
EndShift ==
    /\ frPc \in {"shift", "shiftWrite"}
    /\ shift.left = 0 \/ OutOfWords \/ OutOfRoom
    /\ frPc' = "execute"
    /\ Answered(IF shift.left = 0 THEN 0 ELSE 4)
    /\ UNCHANGED <<buffer, forwards, totalOutput, readTo, shift>>

FrNext ==
    \/ AdmitRecord \/ AdmitEnds \/ MeasureRecord \/ MeasureEnds
    \/ ExecuteRecord \/ ExecuteEnds \/ BeginShift \/ ShiftWord \/ EndShift

-----------------------------------------------------------------------------
(* Properties.                                                              *)

\* Why a record of an admitted buffer may be answered with 2 or 4 all the same: there is
\* no room for an answer, a response has too little room for its data, or it is one of
\* the captured packets, which name a mode the board does not have.
Excused(r) ==
    \/ r.out < 6
    \/ r.kind = "jtag" /\ r.room < 2 * Words(r.bits)
    \/ r.kind = "jtag" /\ \E c \in Captured : c[1] = r

\* The three passes agree: of a buffer that was admitted, every record is executed as
\* the class it was admitted as, nothing behind the buffer is read and no output behind
\* its end is written, the pass that measures finds no fault with the framing, and a
\* JTAG command that succeeds has shifted the bits it names.
AdmittedIsExecuted ==
    /\ readTo <= buffer.length
    /\ outputOffset <= totalOutput /\ totalOutput <= buffer.out
    /\ frPc = "ended" /\ answers = <<>> /\ readTo = 0 =>
          frRecord.out > buffer.out - totalOutput
    /\ \A i \in DOMAIN answers :
          answers[i] \in {2, 4} => Excused(buffer.records[i])
    /\ frPc = "execute" => frPos = Len(answers) + 1
    /\ frPc \in {"shift", "shiftWrite"} => shift.shifted + shift.left = frRecord.bits
    /\ frPc = "done" => Len(answers) = Len(buffer.records)
=============================================================================
