-------------------------- MODULE DescriptorTable --------------------------
(***************************************************************************)
(* The scatter-gather table of a registered transfer.  The user's buffer   *)
(* is locked in chunks, one MDL each; the table names its pages to the     *)
(* board, one run of DWORDs per slot.  The last slot of a table page is a  *)
(* link to the next one, and a slot of zeros ends the table.  A page of    *)
(* memory has PageBytes, a page of the table SlotsPerPage (512 in the      *)
(* code), and a frame from HighFrame on lies above 4 GiB.                  *)
(***************************************************************************)
EXTENDS Integers, Sequences

CONSTANTS
    PageBytes, SlotsPerPage, TablePages,
    ChunkBytes,       \* LECS65_DMA_MDL_CHUNK_BYTES
    MaxBytes,         \* bound: length of a buffer
    HighFrame,
    SourceFrames,     \* where the pages of a buffer may lie: functions
    TableFrames       \* where the pages of the table may lie: functions

ASSUME GeometryAssumption ==
    /\ PageBytes \in Nat \ {0} /\ PageBytes % 4 = 0
    /\ SlotsPerPage \in Nat \ {0, 1} /\ TablePages \in Nat \ {0}
    /\ ChunkBytes \in Nat \ {0} /\ ChunkBytes % PageBytes = 0
    /\ MaxBytes \in Nat /\ HighFrame \in Nat

\* The pages of the table are apart, and frame 0 is never handed out.
ASSUME FramesAssumption ==
    /\ \A f \in SourceFrames : \A p \in 0..MaxBytes : p * PageBytes < PageBytes + MaxBytes =>
          f[p] \in Nat
    /\ \A f \in TableFrames :
          /\ \A p \in 0..TablePages - 1 : f[p] \in Nat \ {0}
          /\ \A p, q \in 0..TablePages - 1 : f[p] = f[q] => p = q

VARIABLES
    source,        \* the buffer: offset in its first page, length, frames
    tableFrame,    \* the frames of the table
    dtPc,          \* chain, alloc, table, done or failed
    chain,         \* SourceMdlChain: offset and length of each locked chunk
    table,         \* slot -> count and address
    tableSlot, totalDwords,
    cursor,        \* the MDL, remaining, pageIndex and pageOffset of the loops
    dtStatus

dtVars == <<source, tableFrame, dtPc, chain, table, tableSlot, totalDwords, cursor,
            dtStatus>>

ZeroEntry == [count |-> 0, address |-> 0]
Slots == 0..TablePages * SlotsPerPage - 1

Sources == [offset : 0..PageBytes - 1, length : 1..MaxBytes, frames : SourceFrames]

\* The table's buffer is zeroed when it is allocated.
DtInit(sources, frames) ==
    /\ source \in sources
    /\ tableFrame \in frames
    /\ dtPc = "chain" /\ chain = <<>>
    /\ table = [s \in Slots |-> ZeroEntry] /\ tableSlot = 0 /\ totalDwords = 0
    /\ cursor = [mdl |-> 0, remaining |-> 0, pageIndex |-> 0, pageOffset |-> 0]
    /\ dtStatus = "none"

Least(a, b) == IF a < b THEN a ELSE b

-----------------------------------------------------------------------------
\* A failure undoes what was locked and allocated so far.
Fail(status) ==
    /\ dtPc' = "failed" /\ dtStatus' = status /\ chain' = <<>>
    /\ UNCHANGED <<source, tableFrame, table, tableSlot, totalDwords, cursor>>

LockedBytes == IF chain = <<>> THEN 0 ELSE chain[Len(chain)].at + chain[Len(chain)].count

\* One round of LecBuildSourceMdlChain: the next chunk is locked.
LockChunk ==
    /\ dtPc = "chain" /\ LockedBytes < source.length
    /\ chain' = Append(chain, [at    |-> LockedBytes,
                               count |-> Least(source.length - LockedBytes, ChunkBytes)])
    /\ UNCHANGED <<source, tableFrame, dtPc, table, tableSlot, totalDwords, cursor,
                   dtStatus>>

\* An MDL cannot be allocated, or its pages cannot be locked.
LockFails ==
    /\ dtPc = "chain" /\ LockedBytes < source.length
    /\ Fail("not locked")

ChainBuilt ==
    /\ dtPc = "chain" /\ LockedBytes >= source.length
    /\ dtPc' = "alloc"
    /\ UNCHANGED <<source, tableFrame, chain, table, tableSlot, totalDwords, cursor,
                   dtStatus>>

-----------------------------------------------------------------------------
\* MmGetMdlByteOffset, and the page its PFN array begins with.
ByteOffset(mdl)  == (source.offset + mdl.at) % PageBytes
FirstPage(mdl)   == (source.offset + mdl.at) \div PageBytes

EnterMdl(i) ==
    [mdl |-> i, remaining |-> chain[i].count, pageIndex |-> 0,
     pageOffset |-> ByteOffset(chain[i])]

AllocateTable ==
    /\ dtPc = "alloc"
    /\ \/ Fail("no memory")
       \/ tableFrame[0] >= HighFrame /\ Fail("not supported")
       \/ /\ tableFrame[0] < HighFrame
          /\ dtPc' = "table" /\ cursor' = EnterMdl(1)
          /\ UNCHANGED <<source, tableFrame, chain, table, tableSlot, totalDwords,
                         dtStatus>>

\* The next MDL of the chain.
NextMdl ==
    /\ dtPc = "table" /\ cursor.remaining = 0 /\ cursor.mdl < Len(chain)
    /\ cursor' = EnterMdl(cursor.mdl + 1)
    /\ UNCHANGED <<source, tableFrame, dtPc, chain, table, tableSlot, totalDwords,
                   dtStatus>>

BytesThisPage == Least(cursor.remaining, PageBytes - cursor.pageOffset)
SourceFrame == source.frames[FirstPage(chain[cursor.mdl]) + cursor.pageIndex]
Physical == SourceFrame * PageBytes + cursor.pageOffset

\* Mutant: the link is written one slot late.
LinkHereLate == tableSlot % SlotsPerPage = 0 /\ tableSlot # 0

LinkHere == tableSlot % SlotsPerPage = SlotsPerPage - 1
NextPage == tableSlot \div SlotsPerPage + 1

\* Mutant: the run takes the slot of the link.
RunSlotIsLink == tableSlot

\* The slot the run goes to: behind the link, if this slot is one.
RunSlot == IF LinkHere THEN tableSlot + 1 ELSE tableSlot

Linked ==
    IF LinkHere
    THEN [table EXCEPT ![tableSlot] =
             [count |-> 0, address |-> tableFrame[NextPage] * PageBytes]]
    ELSE table

\* Mutant: the offset in the first page is kept for the pages after it.
PassRunKeepsOffset ==
    cursor' = [cursor EXCEPT !.remaining = @ - BytesThisPage, !.pageIndex = @ + 1]

PassRun ==
    cursor' = [cursor EXCEPT !.remaining = @ - BytesThisPage, !.pageIndex = @ + 1,
                             !.pageOffset = 0]

\* The body of the loop over the pages of an MDL.
DescribePage ==
    /\ dtPc = "table" /\ cursor.remaining # 0
    /\ \/ LinkHere /\ NextPage >= TablePages /\ Fail("overflow")
       \/ LinkHere /\ NextPage < TablePages /\ tableFrame[NextPage] >= HighFrame
          /\ Fail("not supported")
       \/ /\ LinkHere => NextPage < TablePages /\ tableFrame[NextPage] < HighFrame
          /\ \/ SourceFrame >= HighFrame /\ Fail("not supported")
             \/ SourceFrame < HighFrame /\ BytesThisPage % 4 # 0 /\ Fail("misaligned")
             \/ /\ SourceFrame < HighFrame /\ BytesThisPage % 4 = 0
                /\ table' = [Linked EXCEPT ![RunSlot] =
                                [count |-> BytesThisPage \div 4, address |-> Physical]]
                /\ totalDwords' = totalDwords + BytesThisPage \div 4
                /\ tableSlot' = RunSlot + 1
                /\ PassRun
                /\ UNCHANGED <<source, tableFrame, dtPc, chain, dtStatus>>

\* The slot that ends the table.
Terminate ==
    /\ dtPc = "table" /\ cursor.remaining = 0 /\ cursor.mdl = Len(chain)
    /\ \/ tableSlot \div SlotsPerPage >= TablePages /\ Fail("overflow")
       \/ /\ tableSlot \div SlotsPerPage < TablePages
          /\ table' = [table EXCEPT ![tableSlot] = ZeroEntry]
          /\ dtPc' = "done" /\ dtStatus' = "success"
          /\ UNCHANGED <<source, tableFrame, chain, tableSlot, totalDwords, cursor>>

DtNext ==
    \/ LockChunk \/ LockFails \/ ChainBuilt
    \/ AllocateTable \/ NextMdl \/ DescribePage \/ Terminate

-----------------------------------------------------------------------------
(* Properties.                                                              *)

\* Where the board is: a slot, and the bytes it has moved before.  It knows nothing of the
\* table's virtual pages: behind the last slot of a page lies memory that is not the
\* table's.
Nowhere == -1
AtRun(b) == b.slot # Nowhere /\ table[b.slot].count # 0
AtEnd(b) == b.slot # Nowhere /\ table[b.slot] = ZeroEntry

SlotAt(address) ==
    CHOOSE s \in Slots :
        /\ s % SlotsPerPage = 0
        /\ tableFrame[s \div SlotsPerPage] * PageBytes = address

\* It moves a run, follows a link, or stops.
AfterSlot(b) ==
    IF AtRun(b)
    THEN [slot |-> IF (b.slot + 1) % SlotsPerPage # 0 THEN b.slot + 1 ELSE Nowhere,
          moved |-> b.moved + 4 * table[b.slot].count]
    ELSE [slot |-> IF b.slot = Nowhere \/ AtEnd(b) THEN Nowhere
                   ELSE SlotAt(table[b.slot].address),
          moved |-> b.moved]

BoardAt[n \in 0..TablePages * SlotsPerPage] ==
    IF n = 0 THEN [slot |-> 0, moved |-> 0] ELSE AfterSlot(BoardAt[n - 1])

\* Where the bytes of the buffer lie.
ByteAt(i) ==
    LET place == source.offset + i - 1
    IN  (source.frames[place \div PageBytes] * PageBytes) + (place % PageBytes)

\* A run takes the bytes from where the board is.
MovesBytes(b) ==
    AtRun(b) => \A i \in 0..4 * table[b.slot].count - 1 :
                  table[b.slot].address + i = ByteAt(b.moved + i + 1)

\* A table that is built spells the buffer, byte for byte, to a board that follows its
\* links from the page SGTA names, and IIMTC counts its DWORDs; and a buffer is refused
\* for want of room only when all slots but the links are taken.
TableSpells ==
    /\ dtPc = "done" =>
        /\ \E n \in DOMAIN BoardAt :
              /\ AtEnd(BoardAt[n]) /\ BoardAt[n].moved = source.length
              /\ \A m \in 0..n - 1 : MovesBytes(BoardAt[m])
        /\ 4 * totalDwords = source.length
    /\ dtStatus = "overflow" =>
        tableSlot - (tableSlot \div SlotsPerPage) = TablePages * (SlotsPerPage - 1)
=============================================================================
