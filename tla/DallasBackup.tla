---------------------------- MODULE DallasBackup ----------------------------
(***************************************************************************)
(* lecdiag dallas-backup: the memory of the Dallas chip, read twice between*)
(* two reads of its id, written to a new file and read back from it.  The  *)
(* memory has no check sum, so a single disturbed read is found by the     *)
(* comparison only; another program may write the chip meanwhile.            *)
(***************************************************************************)
EXTENDS Integers, Sequences

VARIABLES
    dallas,        \* what the chip holds: "old" or, once it was written, "new"
    everHeld,      \* history: what it held while the command ran
    bkPc,          \* id1, image1, image2, id2, compare, create, write, reopen, verify,
                   \* delete, done
    ids, images,   \* what was read
    found,         \* history: somebody else's file had that name
    target,        \* the destination: absent, somebody else's, or ours with its content
    exitCode,      \* of the command, -1 before
    warned         \* a file that could not be deleted was named

chipVars == <<dallas, everHeld>>
bkVars == <<chipVars, bkPc, ids, images, found, target, exitCode, warned>>

\* A saved image may be cut, changed or longer than it was written.
Ours(image, intact) == [owner |-> "lecdiag", image |-> image, intact |-> intact]
Absent == [owner |-> "nobody", image |-> "none", intact |-> TRUE]
Theirs == [owner |-> "user", image |-> "precious", intact |-> TRUE]

BkInit ==
    /\ dallas = "old" /\ everHeld = {"old"}
    /\ bkPc = "id1" /\ ids = <<>> /\ images = <<>>
    /\ found \in BOOLEAN
    /\ target = IF found THEN Theirs ELSE Absent
    /\ exitCode = -1 /\ warned = FALSE

-----------------------------------------------------------------------------
\* XStream writes the chip.
ChipWritten ==
    /\ dallas = "old" /\ bkPc # "done"
    /\ dallas' = "new"
    /\ everHeld' = everHeld \cup {"new"}
    /\ UNCHANGED <<bkPc, ids, images, target, exitCode, warned, found>>

\* A request fails, or returns fewer bytes than asked for.
ReadingFails ==
    /\ bkPc \in {"id1", "image1", "image2", "id2"}
    /\ bkPc' = "done" /\ exitCode' = 1
    /\ UNCHANGED <<chipVars, ids, images, target, warned, found>>

\* The id has a CRC; the driver does not return one that is disturbed.
ReadId ==
    /\ bkPc \in {"id1", "id2"}
    /\ bkPc' = IF bkPc = "id1" THEN "image1" ELSE "compare"
    /\ ids' = Append(ids, "rom")
    /\ UNCHANGED <<chipVars, images, target, exitCode, warned, found>>

\* Two disturbed reads are not disturbed in the same way.
ReadImage ==
    /\ bkPc \in {"image1", "image2"}
    /\ bkPc' = IF bkPc = "image1" THEN "image2" ELSE "id2"
    /\ \E image \in {dallas, IF bkPc = "image1" THEN "noise1" ELSE "noise2"} :
          images' = Append(images, image)
    /\ UNCHANGED <<chipVars, ids, target, exitCode, warned, found>>

\* Mutant: only the ids are compared.
StableIds == ids[1] = ids[2]

Stable == images[1] = images[2] /\ ids[1] = ids[2]

Compare ==
    /\ bkPc = "compare"
    /\ IF Stable THEN bkPc' = "create" /\ UNCHANGED exitCode
                 ELSE bkPc' = "done" /\ exitCode' = 1
    /\ UNCHANGED <<chipVars, ids, images, target, warned, found>>

\* Mutant: CREATE_ALWAYS.
CreateAlways ==
    /\ bkPc = "create"
    /\ target' = Ours("none", FALSE) /\ bkPc' = "write" /\ UNCHANGED exitCode
    /\ UNCHANGED <<chipVars, ids, images, warned, found>>

\* CREATE_NEW; it may fail for another reason too.
CreateNew ==
    /\ bkPc = "create"
    /\ \/ /\ target = Absent
          /\ target' = Ours("none", FALSE) /\ bkPc' = "write" /\ UNCHANGED exitCode
       \/ bkPc' = "done" /\ exitCode' = 1 /\ UNCHANGED target
    /\ UNCHANGED <<chipVars, ids, images, warned, found>>

\* WriteFile, FlushFileBuffers and CloseHandle: reported as done although what is on the
\* disk is not intact, or as failed.
WriteImage ==
    /\ bkPc = "write"
    /\ \E intact \in BOOLEAN, reported \in BOOLEAN :
          /\ target' = Ours(images[1], intact)
          /\ bkPc' = IF reported THEN "reopen" ELSE "delete"
    /\ UNCHANGED <<chipVars, ids, images, exitCode, warned, found>>

Reopen ==
    /\ bkPc = "reopen"
    /\ bkPc' \in {"verify", "delete"}
    /\ UNCHANGED <<chipVars, ids, images, target, exitCode, warned, found>>

\* Mutant: the content is not compared.
VerifiedAlways == TRUE

\* 512 bytes, those that were read, and no more; or the read fails.
Verified == target.image = images[1] /\ target.intact

Verify ==
    /\ bkPc = "verify"
    /\ \/ Verified /\ bkPc' = "done" /\ exitCode' = 0
       \/ bkPc' = "delete" /\ UNCHANGED exitCode
    /\ UNCHANGED <<chipVars, ids, images, target, warned, found>>

\* DeleteFileA, or a warning.
DeleteUnverified ==
    /\ bkPc = "delete"
    /\ bkPc' = "done" /\ exitCode' = 1
    /\ \/ target' = Absent /\ UNCHANGED warned
       \/ warned' = TRUE /\ UNCHANGED target
    /\ UNCHANGED <<chipVars, ids, images, found>>

BkNext ==
    \/ ChipWritten \/ ReadingFails \/ ReadId \/ ReadImage \/ Compare \/ CreateNew
    \/ WriteImage \/ Reopen \/ Verify \/ DeleteUnverified

-----------------------------------------------------------------------------
(* Properties.                                                              *)

\* A backup that reports success is an intact file with an image the chip held while it
\* was read, whichever read was disturbed, whoever wrote the chip meanwhile and whatever
\* the disk reports; a file of that name is left alone; and a command that fails leaves
\* no file behind, or says so.
BackupGenuine ==
    /\ exitCode = 0 => target \in {Ours(image, TRUE) : image \in everHeld}
    /\ found => target = Theirs
    /\ exitCode = 1 /\ target.owner = "lecdiag" => warned
    /\ exitCode = 0 => ~warned
=============================================================================
