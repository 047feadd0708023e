------------------------------ MODULE OneWire ------------------------------
(***************************************************************************)
(* The Dallas chip behind the one-wire controller of BAR2.  Its id is read *)
(* with ten attempts and a CRC, its memory with one attempt and none, both *)
(* under DallasMutex.  Every bit is a command to the controller, which the *)
(* driver polls a limited number of times.  STOP does not take the mutex.  *)
(* A byte is the set of its bits that are 1.                               *)
(***************************************************************************)
EXTENDS Integers, Sequences, FiniteSets

CONSTANTS
    Rom,           \* the chip's id: bytes, the last one is their CRC
    Memory,        \* its memory: bytes
    MemLength,     \* bytes that are asked for, at most 512
    PollLimit,     \* LECS65_ONEWIRE_POLL_LIMIT
    Attempts,      \* 10 in the code
    MaxFlips       \* bound: bits that noise turns

Bits == 0..7

-----------------------------------------------------------------------------
\* LecDallasCrc8: the bits of the data in turn, least significant first; 0x8C.
Xor(a, b) == (a \ b) \cup (b \ a)
BitAt(data, n) == (n - 1) % 8 \in data[((n - 1) \div 8) + 1]

Crc8(data) ==
    LET crc[n \in 0..8 * Len(data)] ==
            IF n = 0 THEN {}
            ELSE LET last == crc[n - 1]
                     half == {b - 1 : b \in last \ {0}}
                 IN  IF (0 \in last) # BitAt(data, n) THEN Xor(half, {2, 3, 7}) ELSE half
    IN  crc[8 * Len(data)]

\* Mutant: the id is taken without a look at its last byte.
CrcRightAlways(id) == Len(id) = Len(Rom)

CrcRight(id) == Crc8(SubSeq(id, 1, Len(id) - 1)) = id[Len(id)]

ASSUME ChipAssumption ==
    /\ Rom \in Seq(SUBSET Bits) /\ Memory \in Seq(SUBSET Bits)
    /\ Len(Rom) > 1 /\ CrcRight(Rom)
    /\ MemLength \in 1..Len(Memory)
ASSUME LimitsAssumption ==
    PollLimit \in Nat \ {0} /\ Attempts \in Nat \ {0} /\ MaxFlips \in Nat

\* The bits in which two ids differ; what is read when the chip did not hear its command.
Turned(a, b) == {p \in (1..Len(Rom)) \X Bits : (p[2] \in a[p[1]]) # (p[2] \in b[p[1]])}
Unheard == [i \in 1..Len(Rom) |-> Bits]

\* What the polynomial has to be good for: no other id with MaxFlips turned bits, or with
\* MaxFlips of which one was spent on the command, has a last byte that is right.
ASSUME CrcAssumption ==
    \A id \in [1..Len(Rom) -> SUBSET Bits] :
        /\ \/ Cardinality(Turned(id, Rom)) <= MaxFlips
           \/ Cardinality(Turned(id, Unheard)) < MaxFlips
        /\ Crc8(SubSeq(id, 1, Len(Rom) - 1)) = id[Len(Rom)]
        => id = Rom

Callers == {"id", "memory"}

VARIABLES
    dallasMutex,   \* who holds DallasMutex: a caller or none
    caller,        \* what each request is at
    ctrl,          \* controller: busy, the command and bit 1
    chip,          \* the chip: what it expects or sends
    wire,          \* the line: good, low or open
    bar2,          \* BAR2 is mapped and the device started
    fault,         \* an access behind the unmapping
    flips          \* history: bits that were turned

owVars == <<dallasMutex, caller, ctrl, chip, wire, bar2, fault, flips>>

\* pc: start, next, poll, sample, done; at: bytes done; bit: bits done of the next one
Idle == [pc |-> "start", attempt |-> 0, at |-> 0, bit |-> 0, polls |-> 0,
         byte |-> {}, bytes |-> <<>>, status |-> "none"]

OwInit ==
    /\ dallasMutex = "none" /\ caller = [c \in Callers |-> Idle]
    /\ ctrl = [busy |-> FALSE, command |-> "none", data |-> TRUE]
    /\ chip = [expects |-> "reset", bits |-> 0, byte |-> {}]
    /\ wire \in {"good", "low", "open"}
    /\ bar2 = TRUE /\ fault = FALSE /\ flips = 0

-----------------------------------------------------------------------------
(* The driver.                                                              *)

\* What a request sends behind the reset, and how many bytes it then reads.
Sends == [c \in Callers |->
    IF c = "id" THEN <<{0, 1, 4, 5}>>                                  \* 0x33
                ELSE <<{2, 3, 6, 7}, {4, 5, 6, 7}, {}, {}>>]           \* 0xCC 0xF0 0 0
Wants == [c \in Callers |-> IF c = "id" THEN Len(Rom) ELSE MemLength]

\* at counts the reset as one, the bytes sent and the bytes read.
Resetting(c) == caller[c].at = 0
Sending(c)   == caller[c].at \in 1..Len(Sends[c])
AllRead(c)   == caller[c].at = 1 + Len(Sends[c]) + Wants[c]

Command(c) ==
    CASE Resetting(c) -> "reset"
      [] Sending(c) ->
            IF caller[c].bit \in Sends[c][caller[c].at] THEN "write1" ELSE "write0"
      [] OTHER        -> "read"

\* Mutant: the mutex is not waited for.
LockAlways(c) == dallasMutex' = c

\* KeWaitForSingleObject on DallasMutex.
LockDallas(c) == dallasMutex = "none" /\ dallasMutex' = c

Take(c) ==
    /\ caller[c].pc = "start" /\ LockDallas(c)
    /\ caller' = [caller EXCEPT ![c].pc = "next"]
    /\ UNCHANGED <<ctrl, chip, wire, bar2, fault, flips>>

\* The request ends and releases the mutex.
End(c, status) ==
    /\ caller' = [caller EXCEPT ![c].pc = "done", ![c].status = status]
    /\ dallasMutex' = "none"

\* A failure is retried for the id, from the reset on, and ends the read of the memory.
Failed(c, status) ==
    \/ /\ c = "id" /\ caller[c].attempt + 1 < Attempts
       /\ caller' = [caller EXCEPT ![c] = [Idle EXCEPT !.pc = "next",
                                           !.attempt = caller[c].attempt + 1]]
       /\ UNCHANGED dallasMutex
    \/ (c = "memory" \/ caller[c].attempt + 1 = Attempts) /\ End(c, status)

\* LecOneWireIssue: the register is looked up again for every command.
Issue(c) ==
    /\ caller[c].pc = "next" /\ ~AllRead(c)
    /\ \/ bar2 /\ ctrl' = [ctrl EXCEPT !.busy = TRUE, !.command = Command(c)]
          /\ caller' = [caller EXCEPT ![c].pc = "poll", ![c].polls = 0]
          /\ UNCHANGED dallasMutex
       \/ ~bar2 /\ Failed(c, "not ready") /\ UNCHANGED ctrl
    /\ UNCHANGED <<chip, wire, bar2, fault, flips>>

\* It polls; the register that was looked up may be unmapped by now.
Poll(c) ==
    /\ caller[c].pc = "poll" /\ bar2
    /\ \/ /\ ~ctrl.busy
          /\ caller' = [caller EXCEPT ![c].pc = "sample"]
          /\ UNCHANGED dallasMutex
       \/ /\ ctrl.busy /\ caller[c].polls + 1 < PollLimit
          /\ caller' = [caller EXCEPT ![c].polls = @ + 1]
          /\ UNCHANGED dallasMutex
       \/ ctrl.busy /\ caller[c].polls + 1 = PollLimit /\ Failed(c, "timeout")
    /\ UNCHANGED <<ctrl, chip, wire, bar2, fault, flips>>

\* A bit of a byte is done: the last one ends the byte.
BitDone(c, data) ==
    LET me == caller[c]
        byte == IF data THEN me.byte \cup {me.bit} ELSE me.byte
    IN  caller' = [caller EXCEPT ![c] =
            IF me.bit < 7
            THEN [me EXCEPT !.pc = "next", !.bit = @ + 1, !.byte = byte]
            ELSE [me EXCEPT !.pc = "next", !.at = @ + 1, !.bit = 0, !.byte = {},
                            !.bytes = IF Sending(c) THEN @ ELSE Append(@, byte)]]

\* LecOneWireReset, LecOneWireWriteByte and LecOneWireReadByte behind the command: the
\* reset and a read look at bit 1 of the register once more.
Sample(c) ==
    /\ caller[c].pc = "sample" /\ (Sending(c) \/ bar2)
    /\ \/ Resetting(c) /\ ctrl.data /\ Failed(c, "no device")
       \/ /\ Resetting(c) /\ ~ctrl.data
          /\ caller' = [caller EXCEPT ![c].pc = "next", ![c].at = 1]
          /\ UNCHANGED dallasMutex
       \/ ~Resetting(c) /\ BitDone(c, ctrl.data /\ ~Sending(c)) /\ UNCHANGED dallasMutex
    /\ UNCHANGED <<ctrl, chip, wire, bar2, fault, flips>>

\* All is read; the id is looked at.
Check(c) ==
    /\ caller[c].pc = "next" /\ AllRead(c)
    /\ \/ (c = "memory" \/ CrcRight(caller[c].bytes)) /\ End(c, "success")
       \/ c = "id" /\ ~CrcRight(caller[c].bytes) /\ Failed(c, "crc error")
    /\ UNCHANGED <<ctrl, chip, wire, bar2, fault, flips>>

-----------------------------------------------------------------------------
(* The controller, the chip and PnP.                                        *)

ChipByte(byte) ==
    CASE chip.expects = "rom" /\ byte = {0, 1, 4, 5}      -> "sendsRom"
      [] chip.expects = "rom" /\ byte = {2, 3, 6, 7}      -> "function"
      [] chip.expects = "function" /\ byte = {4, 5, 6, 7} -> "low"
      [] chip.expects = "low" /\ byte = {}                -> "high"
      [] chip.expects = "high" /\ byte = {}               -> "sendsMemory"
      [] OTHER                                            -> "reset"

Contents == IF chip.expects = "sendsRom" THEN Rom ELSE Memory
SendsNow == chip.expects \in {"sendsRom", "sendsMemory"} /\ chip.bits < 8 * Len(Contents)

\* A slot in which the chip takes a bit or sends its next one.
ChipSlot(bit) ==
    LET byte == IF bit THEN chip.byte \cup {chip.bits} ELSE chip.byte IN
    IF SendsNow THEN chip' = [chip EXCEPT !.bits = @ + 1]
    ELSE IF chip.expects \notin {"rom", "function", "low", "high"} THEN UNCHANGED chip
    ELSE IF chip.bits < 7 THEN chip' = [chip EXCEPT !.bits = @ + 1, !.byte = byte]
    ELSE chip' = [expects |-> ChipByte(byte), bits |-> 0, byte |-> {}]

\* What the line shows in a slot: the chip pulls it low, or nobody does.
Line(bit) == bit /\ (SendsNow => BitAt(Contents, chip.bits + 1))

\* The command is carried out, and noise may turn its bit.
Carry ==
    /\ ctrl.busy /\ ctrl.command # "reset"
    /\ \E noise \in BOOLEAN :
          LET bit == (ctrl.command # "write0") # (noise /\ ctrl.command # "read")
              shown == CASE wire = "low"  -> FALSE
                         [] wire = "open" -> TRUE
                         [] OTHER         -> Line(bit) # (noise /\ ctrl.command = "read")
          IN  /\ noise => wire = "good" /\ flips < MaxFlips
              /\ flips' = IF noise THEN flips + 1 ELSE flips
              /\ ctrl' = [ctrl EXCEPT !.busy = FALSE, !.data = shown]
              /\ IF wire = "good" THEN ChipSlot(bit) ELSE UNCHANGED chip
    /\ UNCHANGED <<dallasMutex, caller, wire, bar2, fault>>

CarryReset ==
    /\ ctrl.busy /\ ctrl.command = "reset"
    /\ ctrl' = [ctrl EXCEPT !.busy = FALSE, !.data = (wire = "open")]
    /\ chip' = IF wire = "good" THEN [expects |-> "rom", bits |-> 0, byte |-> {}] ELSE chip
    /\ UNCHANGED <<dallasMutex, caller, wire, bar2, fault, flips>>

StopUnmaps ==
    /\ bar2 /\ bar2' = FALSE
    /\ UNCHANGED <<dallasMutex, caller, ctrl, chip, wire, fault, flips>>

\* A register that was looked up before is read behind the unmapping: the machine stops.
Touch(c) ==
    /\ ~bar2
    /\ caller[c].pc = "poll" \/ (caller[c].pc = "sample" /\ ~Sending(c))
    /\ fault' = TRUE
    /\ UNCHANGED <<dallasMutex, caller, ctrl, chip, wire, bar2, flips>>

CallerStep(c) == Take(c) \/ Issue(c) \/ Poll(c) \/ Sample(c) \/ Check(c) \/ Touch(c)

OwNext ==
    /\ ~fault
    /\ (\E c \in Callers : CallerStep(c)) \/ Carry \/ CarryReset \/ StopUnmaps

-----------------------------------------------------------------------------
(* Properties.                                                              *)

\* With fewer turned bits than the CRC finds, a request that succeeds returns what the
\* chip holds, whatever timed out, failed or was turned in the attempts before, and
\* although another request waits for the same wire; the memory, which has no CRC, when
\* no bit was turned.  A wire that is held low shows a presence and an id of zeros, whose
\* CRC is right: the code cannot tell.  Nobody keeps the mutex.
IdGenuine ==
    /\ caller["id"].status = "success" =>
          \/ caller["id"].bytes = Rom
          \/ wire = "low" /\ \A i \in 1..Len(Rom) : caller["id"].bytes[i] = {}
    /\ caller["memory"].status = "success" /\ flips = 0 /\ wire = "good" =>
          caller["memory"].bytes = SubSeq(Memory, 1, MemLength)
    /\ \A c \in Callers : caller[c].pc \in {"next", "poll", "sample"} <=> dallasMutex = c
=============================================================================
