--------------------------- MODULE SpiCommand ---------------------------
(***************************************************************************)
(* Opcode 0x90 drives a serial line through SPICTL and SPIDAT of BAR1.  It *)
(* changes SPICTL through a copy, under TransferMutex; SetOneRegister      *)
(* stores and writes the same copy without it.                             *)
(***************************************************************************)
EXTENDS Integers, Sequences

CONSTANTS
    SpiRequests,   \* commands: line, bits and whether the line is pulsed first
    ControlWords   \* what SetOneRegister writes to SPICTL

SpiLine == {"0", "1", "2", "3", "4", "C", "E"}
MaxBits == 65535           \* the count of bits is a USHORT

\* A control word: the lines whose bit is set, the mode bits that are, and the count.
Control == [high : SUBSET SpiLine, mode : SUBSET (5..9), count : 0..31]

ASSUME SpiAssumption ==
    /\ SpiRequests \subseteq [line : SpiLine, bits : 0..MaxBits, pulse : BOOLEAN]
    /\ ControlWords \subseteq Control

VARIABLES
    spiPc,         \* where the command is
    spiJob,        \* its line and bits
    spiLeft,       \* remainingBits
    spiShadow, spiKnown,   \* LegacySpiControlShadow, LegacySpiInitialized
    spiThen,       \* what follows the write of SPICTL
    setter,        \* SetOneRegister on SPICTL: the value it stores and writes
    spictl,        \* board: SPICTL
    sent,          \* board: the control words with which words were shifted
    spiBefore,     \* history: the copy when the command began
    crossed,       \* history: SetOneRegister overlapped a command
    spiBehind      \* history: SPICTL was written, or lost, behind its copy

spiCopy == <<spiShadow, spiKnown>>
spiHistory == <<spiBefore, crossed, spiBehind>>
spiVars == <<spiPc, spiJob, spiLeft, spiCopy, spiThen, setter, spictl, sent, spiHistory>>

NoControl == [high |-> {}, mode |-> {}, count |-> 0]
FirstControl == [high |-> SpiLine, mode |-> {}, count |-> 0]      \* 0x001FF000
NoCommand == [line |-> "none", bits |-> 0]

SpiInit ==
    /\ spiPc = "idle" /\ spiJob = NoCommand /\ spiLeft = 0
    /\ spiShadow = NoControl /\ spiKnown = FALSE /\ spiThen = "idle"
    /\ setter = <<>>
    /\ spictl = NoControl /\ sent = <<>>
    /\ spiBefore = NoControl /\ crossed = FALSE /\ spiBehind = FALSE

-----------------------------------------------------------------------------
\* Bits 5 to 9 that LecLegacySpiSelect clears and sets for a selector.
ModeCleared == [l \in SpiLine |->
    CASE l = "0" -> 5..9
      [] l = "1" -> 6..9
      [] l = "2" -> {5, 7, 9}
      [] l = "3" -> {7, 9}
      [] l = "4" -> {5, 6, 9}
      [] l = "C" -> {}
      [] l = "E" -> {6, 8}]
ModeSet == [l \in SpiLine |->
    CASE l = "0" -> {}
      [] l = "1" -> {5}
      [] l = "2" -> {6, 8}
      [] l = "3" -> {5, 6, 8}
      [] l = "4" -> {7, 8}
      [] l = "C" -> {8, 9}
      [] l = "E" -> {5, 7, 9}]

\* Mutant: the mode of the line selected before is kept.
SelectedKeeps(control, line, asserted) ==
    [control EXCEPT !.high = IF asserted THEN @ \cup {line} ELSE @ \ {line},
                    !.mode = @ \cup ModeSet[line]]

\* LecLegacySpiSelect; asserted sets the line's bit.
Selected(control, line, asserted) ==
    [control EXCEPT !.high = IF asserted THEN @ \cup {line} ELSE @ \ {line},
                    !.mode = (@ \ ModeCleared[line]) \cup ModeSet[line]]

\* Mutant: only the low four bits of the count are used.
FirstCountNibble(bits) == IF bits < 17 THEN bits % 16 ELSE 16

\* What SPICTL counts for the first words.
FirstCount(bits) == IF bits < 17 THEN bits ELSE 16

\* The copy is filled, and SPICTL written, by the first command.
SpiBegin(s) ==
    /\ spiPc = "idle"
    /\ spiJob' = [line |-> s.line, bits |-> s.bits]
    /\ spiLeft' = s.bits
    /\ spiShadow' = IF spiKnown THEN spiShadow ELSE FirstControl
    /\ spictl' = IF spiKnown THEN spictl ELSE FirstControl
    /\ spiKnown' = TRUE
    /\ spiBefore' = spiShadow'
    /\ crossed' = (crossed \/ setter # <<>>)
    /\ spiPc' = IF s.pulse THEN "low" ELSE "select"
    /\ UNCHANGED <<spiThen, setter, sent, spiBehind>>

\* The copy is changed in one step and written in another.
SpiChange(control, next) ==
    /\ spiShadow' = control
    /\ spiPc' = "spiWrite" /\ spiThen' = next
    /\ UNCHANGED <<spiJob, spiLeft, spiKnown, setter, spictl, sent, spiHistory>>

SpiWrite ==
    /\ spiPc = "spiWrite"
    /\ spictl' = spiShadow
    /\ spiPc' = spiThen
    /\ UNCHANGED <<spiJob, spiLeft, spiCopy, spiThen, setter, sent, spiHistory>>

\* The line is pulsed on request, and goes low for the words.
SpiPulseLow ==
    spiPc = "low" /\ SpiChange(Selected(spiShadow, spiJob.line, FALSE), "high")
SpiPulseHigh ==
    spiPc = "high" /\ SpiChange(Selected(spiShadow, spiJob.line, TRUE), "select")
SpiSelect ==
    /\ spiPc = "select"
    /\ LET low == Selected(spiShadow, spiJob.line, FALSE)
       IN  SpiChange([low EXCEPT !.count = FirstCount(spiJob.bits)], "words")

\* SPIDAT: as many bits are shifted as SPICTL counts.
SpiShift(rest, next) ==
    /\ sent' = Append(sent, spictl)
    /\ spiLeft' = rest /\ spiPc' = next
    /\ UNCHANGED <<spiJob, spiCopy, spiThen, setter, spictl, spiHistory>>

SpiWord == spiPc = "words" /\ spiLeft > 15 /\ SpiShift(spiLeft - 16, "words")

\* The bits that are left get a count of their own.
SpiCountLast ==
    /\ spiPc = "words" /\ spiLeft \in 1..15
    /\ SpiChange([spiShadow EXCEPT !.count = spiLeft], "last")
SpiLastWord  == spiPc = "last" /\ SpiShift(0, "words")

SpiDeselect ==
    /\ spiPc = "words" /\ spiLeft = 0
    /\ SpiChange([Selected(spiShadow, spiJob.line, TRUE) EXCEPT !.count = 0], "sent")

SpiEnd ==
    /\ spiPc = "sent"
    /\ spiPc' = "idle" /\ spiJob' = NoCommand /\ spiLeft' = 0 /\ sent' = <<>>
    /\ spiBefore' = NoControl
    /\ UNCHANGED <<spiKnown, spiShadow, spiThen, setter, spictl, crossed, spiBehind>>

\* Mutant: the copy is not stored.
SpiSetStoreForgets(value) ==
    /\ setter = <<>>
    /\ setter' = <<value>>
    /\ spiKnown' = TRUE
    /\ crossed' = (crossed \/ spiPc # "idle")
    /\ UNCHANGED <<spiPc, spiJob, spiLeft, spiShadow, spiThen, spictl, sent, spiBefore,
                   spiBehind>>

\* SetOneRegister stores the value in the copy and then writes it.
SpiSetStore(value) ==
    /\ setter = <<>>
    /\ setter' = <<value>>
    /\ spiShadow' = value /\ spiKnown' = TRUE
    /\ crossed' = (crossed \/ spiPc # "idle")
    /\ UNCHANGED <<spiPc, spiJob, spiLeft, spiThen, spictl, sent, spiBefore, spiBehind>>

SpiSetWrite ==
    /\ setter # <<>>
    /\ spictl' = setter[1] /\ setter' = <<>>
    /\ UNCHANGED <<spiPc, spiJob, spiLeft, spiCopy, spiThen, sent, spiHistory>>

\* Opcode 0x92 or CFDC21C4 on SPICTL, or a loss of power.
SpiWrittenBehind ==
    /\ spictl' \in ControlWords \cup {NoControl}
    /\ spiBehind' = TRUE
    /\ UNCHANGED <<spiPc, spiJob, spiLeft, spiKnown, spiShadow, spiThen, setter, sent,
                   spiBefore, crossed>>

-----------------------------------------------------------------------------
SpiStep ==
    \/ \E s \in SpiRequests : SpiBegin(s)
    \/ SpiPulseLow \/ SpiPulseHigh \/ SpiSelect
    \/ SpiWord \/ SpiCountLast \/ SpiLastWord \/ SpiDeselect
    \/ SpiWrite \/ SpiEnd

SpiNext ==
    \/ SpiStep
    \/ \E v \in ControlWords : SpiSetStore(v)
    \/ SpiSetWrite \/ SpiWrittenBehind

-----------------------------------------------------------------------------
(* Properties.                                                              *)

\* The bits that n words have shifted.
Shifted[n \in 0..Len(sent)] == IF n = 0 THEN 0 ELSE Shifted[n - 1] + sent[n].count

\* An SPI command shifts exactly its bits while its line, and no other than before, is
\* low, in the mode of its line (selector 0x0C keeps bits of the mode before), and leaves
\* the lines as they were, unless SetOneRegister or a raw write crosses it; and SPICTL
\* and its copy agree between the steps.
SpiFramed ==
    ~crossed /\ ~spiBehind =>
        /\ spiPc \in {"words", "sent"} =>
              /\ Shifted[Len(sent)] = spiJob.bits - spiLeft
              /\ \A n \in DOMAIN sent :
                    /\ sent[n].high = spiBefore.high \ {spiJob.line}
                    /\ spiJob.line # "C" => sent[n].mode = ModeSet[spiJob.line]
        /\ spiPc = "sent" =>
              spictl.high = spiBefore.high \cup {spiJob.line} /\ spictl.count = 0
        /\ spiPc # "spiWrite" /\ setter = <<>> /\ spiKnown => spictl = spiShadow

\* docs/ioctl-map.md: SetOneRegister keeps the copy of SPICTL coherent.  Nobody is
\* between a change of the copy and its write, and no raw write went behind it: SPICTL
\* and the copy agree.
SpiCoherent ==
    ~spiBehind /\ spiPc = "idle" /\ setter = <<>> /\ spiKnown => spictl = spiShadow
=============================================================================
