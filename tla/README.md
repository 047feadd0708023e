# A verification of the LeCroy WR6K x64 driver

TLA+ models of the 64-bit Windows kernel driver for the LeCroy WaveRunner 6000
acquisition boards and of the tools beside it, checked with TLC on small instances
and, where it matters most, proved with TLAPS for every instance. Paths are relative
to the repository root; `PROJECT.json` maps each definition to the lines it stands for.

## 1. The system

### Parts, state and operations

The driver (`driver/`):

| Part | State | Operations | Module |
|---|---|---|---|
| Transfer registry and DMA acquisition (`Acquisition.c`, CFDC2138 in `Ioctl.c`) | list of transfers with token, owner and use; `CurrentTransfer`; `NextTransferToken`; `TransferMutex` | register, unregister, acquire, CREATE/CLOSE with its release loop, release on STOP | `Transfers` |
| Scatter-gather descriptor table (`Acquisition.c`) | chain of locked chunks, table pages with links | lock a buffer in chunks, build the table, refuse | `DescriptorTable` |
| Interrupt delivery (`Acquisition.c`: ISR, DPC, CFDC2400; event requests) | `InterruptPendingShadow`, five event slots, command status and mask, HWINT | ISR, DPC, injection, event registration (single, three at once), status queries, reset, STOP | `Interrupts` |
| Interrupt masks and error latch (CFDC2190, CFDC2194, SetOneRegister, ERRS branch of the ISR) | `InterruptEnableShadow`, `LegacyErrmShadow`, the error latch and the registers behind them | mask commits under the mutex and without it, raw writes, error query, reset | `InterruptMask` |
| CFDC2110 executor and BAR1 transport | the pending response of a batch, the mailbox in both directions | command batches, chunked send and receive, response fetch | `Cfdc2110` |
| Validation of CFDC2110 buffers | position in the buffer, output so far | admit, measure, execute a list of packed records; the JTAG shift loops | `Framing` |
| MAM configuration | `LegacyMamShadow`, `LegacyMamSeqShadow` | records of type 1 and 2, channel set-up of an acquisition | `MamCache` |
| SPI commands (opcode 0x90) | `LegacySpiControlShadow` | select, shift, deselect; SetOneRegister beside them | `SpiCommand` |
| One-wire bus and Dallas memory | `DallasMutex`, attempts, CRC | id, memory | `OneWire` |
| Embedded timer | KTIMER, its start and duration in 32-bit milliseconds | opcode 0x01 arms or extends, 0x02 waits and writes MTTCTL | `LegacyTimer` |
| Device start and removal (`Device.c`, `Driver.c`) | BARs, interrupt, interfaces, handles | AddDevice, START with the probe, STOP, SURPRISE_REMOVAL, REMOVE, CREATE, CLOSE | `Lifecycle` |
| Request dispatch | the shared system buffer, status and Information | one request of any code from arrival to completion | `Dispatch` |
| Debug trace | ring of the last requests, sequence numbers | record, read, clear, under `TraceLock` | `TraceRing`, `TraceLog` |

The tools (`tools/`):

| Part | State | Operations | Module |
|---|---|---|---|
| lecwatch | worker: handle, last sequence; window: ring of rows, counts, list, baseline, action | poll, synchronise, post, handle; filter, learn a baseline, actions, clear session; summary of a saved session | `LecWatch`, `LecWatchSession` |
| lecdiag | the answers of one command | every command with its requests; backup of the Dallas memory; capture and saving of the trace | `LecDiag`, `DallasBackup`, `TraceCapture` |
| xstream-ioctl-trace | import tables, log file, its lock and numbers, last errors | launch, hooked calls, patching of modules loaded later, end of the process | `XStreamHook` |
| trace-diff, scripts, Ghidra exports | | | not modelled |

### How they interact

- Requests run on their callers' threads. `TransferMutex` is held for a whole
  CFDC2138 acquisition and a whole CFDC2110 batch (including the five-second waits
  and the unlimited timer wait), and briefly by register, unregister and release.
  CFDC2190, CFDC2194, CFDC21C4, CFDC2400, SetOneRegister and the event requests
  take no `TransferMutex`. `LegacyEventLock` guards event slots and command masks,
  `DallasMutex` the one-wire bus, `TraceLock` the trace ring.
- Every request passes `LecS65DeviceControl`, which records it in the trace unless it is
  one of the debug requests. A CFDC2110 request is then walked three times: admitted,
  measured, executed. Its records reach MAM, SPI, JTAG, the timer, the transfers (MTT)
  and the firmware.
- The ISR interrupts any of these; the DPC it queues may run on another processor,
  reads `CurrentTransfer` without a lock and signals its event.
- PnP STOP clears `Started`, disconnects the interrupt, detaches events, releases
  all transfers under the mutex and unmaps the BARs, while requests that passed the
  `Started` check are still running. It waits neither for them nor for the DPC.
- lecwatch polls the ring every 10 ms in a thread and posts messages to its window;
  `lecdiag trace-capture` polls it every 250 ms; either tool may clear it at any time.
- The tools have their own copies of control codes, structures and captured packets.
  xstream-ioctl-trace does not meet the driver: it records XStream's calls in its process.

### What is hard

Interleavings of request threads, ISR, DPC and PnP; read-modify-write of shadows
without a lock; a cached register that suppresses writes; time-outs whose late answer
arrives anyway, for DMA and for the firmware mailbox; a message torn by a time-out; a
buffer that is walked three times by code that checks different things; a buffer that is
input and output at once; page and table boundaries of a descriptor chain; 32-bit
arithmetic of milliseconds and of tokens; retries under noise; a START that fails half
way; a trace that is wrapped or cleared between two polls; two threads that patch one
import table. The list with lines and properties is `hazards` in `PROJECT.json`.

## 2. The modules

### Actors that race

**Transfers.** `Record` are allocations of `LECS65_TRANSFER` with a `state` (free,
building, listed, unlinked); each request is a thread with a program counter whose steps
are those another processor can see (an interlocked operation, a register access, taking
and leaving the mutex). The DMA engine, INTST and the DPC queue are variables. The DPC
routine has a `Runner`, a processor or a thread in CFDC2400. A registration draws its
token under the mutex, leaves it to build the descriptor table and inserts the transfer
later, as in `LecRegisterTransfer`. A time-out may stop the engine or not (`IIMCL`),
which the hardware documents leave open. `TransferThread`s register, acquire and close;
`DirectThread`s go without `TransferMutex` where a completion passes: CFDC2400, which
ORs bit 0 or another bit into the pending word and dispatches; commits of INTEN by
SetOneRegister and CFDC2190, whose bit 0 is any value since it may be an old one; and
writes of INTEN, INTST, IIMCL and MAMRGO by CFDC21C4. Histories: `timedOut` (an
acquisition gave up), `forged` (a client injected bit 0 or started the engine),
`crossed` (a client cleared or wrote what the present acquisition depends on, or took
its pending bit). `TokenMax` stands for 2^32 - 1, and the model assumes that fewer than
`TokenMax` registrations complete while one is being built. MTT transfers take the same
steps under the same mutex, so `AcquireProgress` stands for both.

**Interrupts.** All sources of INTST but the transfer completion: bit 0, also that of a
CFDC2400, is in `Transfers`. The ISR is five
steps in the order of the code (accept, CLRIRQ, pend, acknowledge, queue). A
`Runner` is a DPC on a processor or a thread in CFDC2400; both exchange the pending
word and signal events. The registration of one or three events is refer, clear,
swap, dereference, and may fail after any handle. Histories: `owed` (HWINT bits the
board raised), `unseen` (command bits the client has not been told), `dropped` (bits
wiped out by the write of zero to HWINT).

**InterruptMask.** An update of INTEN is read shadow, check `Started`, exchange
shadow, write register; of ERRM exchange and write. `Locked` threads hold the mutex
over it, `Unlocked` ones do not. `overlap` notes that two updates overlapped, and
`bypassed` that one side of a shadow and register pair was changed alone, by a raw
write or the reset of the shadows.

**Cfdc2110.** A request is one of `Batches`, a list of records; a record is known
by what it does to the pending response (`kind`) and by the chunks of its command,
answer and room. Every chunk is a step, as are the firmware's reading and answering,
so a device stop, a time-out or a late answer falls between any two. Commands the
host executes install their response in one step: no other actor sees the buffer.
`BatchesAssumption` is what such a buffer is: it has a record, and room for a chunk.
A chunk made of two torn messages names no command, and `ResponseOnce` leaves it out.
The firmware (external) joins the chunks of a message, answers a fetch for the last
command, and may take any time. A record of signature C5FB, which gets a constant
reply, is left out.

**SpiCommand.** A control word is the set of lines whose bit is set, the mode bits and
the bit count (`Control`). The command changes the copy and then the register for each
of its steps; `setter` is a SetOneRegister between the same two. Histories: `crossed`
(the two overlapped), `spiBehind` (SPICTL changed without its copy).

**OneWire.** Two requests wait for `DallasMutex`. Each bit is a command to the
controller, the polls that wait for it and the sampling; STOP may come between any two.
Controller, chip and noise (`MaxFlips` turned bits, a wire that is held low) are external.
The CRC is computed as the code does, and what it has to be good for is an assumption
(`CrcAssumption`), not a guard.

**LegacyTimer.** Time in ticks of the performance counter, `TicksPerMs` to a millisecond;
the elapsed ticks are cut down to whole milliseconds (`ElapsedMs`), counted modulo `Wrap`
(for 2^32), with the casts to LONG as the code makes them; KTIMER with its three states
(never set, set, signalled), expiring up to `Latency` ticks late and never early: that
the kernel's own clock is coarser than the counter is left out.

**Lifecycle.** START looks at one resource per step, and each mapping, the connection of
the interrupt, the probe's writes and each interface may fail. PnP sends one IRP at a
time, in the orders Windows documents; a memory resource is never empty (`Resource`);
users open and close handles and leave events and transfers behind (`held`).

### Walks over data

**DescriptorTable.** One step per chunk locked and per slot filled. The property
compares the table with the buffer through `BoardAt`, a board that moves a run, or
follows a link, at each slot. `FramesAssumption`: the pages of a table are apart, and none
is page 0 of the memory.

**Framing.** One step per record and pass, and per word of a JTAG shift. A record keeps
the fields that some check reads (`FrRecord`), and begins behind those before it
(`StartsOf`). `readTo` notes how far the buffer was read: beyond its length would be
another's memory. Two assumptions say which buffers there are. The records of a buffer
are those that begin in it, the last one perhaps cut off: it is how a buffer is read
as records, not a condition (`BuffersAssumption`). The packets that are admitted for
being byte for byte those XStream sends are a shift, or a reset, status or mask record
with its payload, and behind it perhaps a fetch (`CapturedAssumption`), as the tables of
`driver/Ioctl.c` have them.

**MamCache.** One step per index. Two writes go behind the copies, a raw one and a loss
of power; `behind` notes them.

**Dispatch.** Arrival, handler, record in the trace, completion. A handler is the
set of results it can have: status, how far it read, how far it wrote, Information.

### The tools

**LecDiag** extends `Dispatch` and `Framing`: the tool's lengths, from its own
structures, meet the driver's checks, and the packets it replays go through the driver's
three walks. **DallasBackup** is the sequence id, image, image, id, compare, create,
write, reopen, verify, delete, with failures and disturbed reads at each.
**TraceCapture** extends `TraceRing` with a poller, a file and another tool that clears
the ring. The loops that pick the new records out of a poll, here and in lecwatch, and
the sum of what the queue dropped are recursive functions over the length of the list,
as the code runs them. The filter of lecwatch's list is one too, and its sort by time is
written as the place each row takes (the rows before it, those of the same time in their
order): the proof of the session reads both.

**LecWatch** extends the ring with worker, message queue and window; a post may fail
when the queue is full, as may the allocation of a batch. **LecWatchSession** is what
the window makes of the requests it is sent. Which rates the baseline takes for calm is
left open (`calm`), its threshold of three in five seconds is one request, and where a
batch ends is left open. Histories: `untold` (the last message about the device was
lost), `disturbed` (a clear, a return of the device or a lost batch), `session` (every
row), `learned`, `missed` (a request unlike those learned was hidden with the baseline),
`quiet` (nothing was on the way when an action began and ended), `restarted` (the
numbers began again).

**XStreamHook.** A call is a stack of frames, since `DeviceIoControl` calls a function
that is hooked too; a record is written in two halves, so that a process may end in it.
The kernel answers, answers with a warning, fails, or leaves the call pending; the output
is copied by the length that is found, whatever the result (`Output`). `ioBuffer` stands
for the buffer of a request and for the place of the handle of a `CreateFile`; `"sent"` is
what the caller left there.
Patching an import is look, make writable, write and restore, for each of two threads.

### Refinement, composition and instances

`TraceLog` is the abstract promise of the trace: the last `Capacity` records since the
last clear, oldest first, numbered without gaps. `TraceRing` implements it (refinement
mapping `recent <- FillTrace`, `total <- nextSequence`), and `LecWatch` and
`TraceCapture` are built on it.

`MCParts` and `MCLecWatch` check parts that share no state in one run: `part` is chosen
at the start, a behaviour stays in its part, and the states of the run are the sum of
the states of the parts. The other `MC*` modules hold the sets and the symmetries of the
runs (threads of one process are interchangeable, as are records, mutex holders, events
and error bits); the `*_proofs` modules and `Induction` hold theorems (section 4). A
definition whose comment says `Mutant` is a plausible error in the definition below it,
used to see that a property would notice it.

## 3. The runs

| Run | Bounds | Question |
|---|---|---|
| `transfers_safety` | 2 threads of a process, 2 records, 1 DPC, tokens 1..2, so the counter wraps, a direct thread with 2 requests; `TimedOutOrDirect` | pinning, unique tokens, nothing left after the last close, no unmapped BAR in use; no freed record in use, success only after the DMA |
| `transfers_live` | a transfer thread, a direct thread with 2 requests, 2 records, 2 processors; `Unexcused` | a finished DMA ends the wait without its time-out |
| `transfers_done` | as `transfers_safety`, without the direct thread | violated: success means that this DMA has finished |
| `interrupts_events` | a command source, an event, a client, a DPC | a wake-up is never lost across re-registration, resets and stops |
| `interrupts_hw` | HWINT with one bit, a DPC and a CFDC2400 thread | pending bits are always served; a HWINT bit is lost only in the window of the write of zero; liveness |
| `interrupts_refs` | 2 clients, 2 events, slots 0 to 3 | references on events balance |
| `mask` | 2 threads with and one without the mutex, bits 0 and 1, 2 error bits, `Bounded` | no update of INTEN is lost, register and shadow agree, no error is lost between ERRS and the latch |
| `cfdc2110` | 3 requests out of 12 batches of 2 to 4 records, messages of 1 or 2 chunks | which response a fetch gets, and that a request ends |
| `parts` | table below | what each part that stands by itself promises |
| `timer_uptime` | as `timer` of `parts`, first delay asked for late | violated: a request arms the timer |
| `spi_coherent` | one command, one value of SetOneRegister | violated: the copy of SPICTL is kept coherent |
| `lecwatch` | `polling`: ring of 2, 4 records, queue of 2 messages; `window`: 4 steps of requests and inputs, rings of 4 rows, 2 in the list, 2 codes, 2 variants a code | nothing logged twice, every record accounted for, the status line right, the ring implements the log, the monitor catches up; what the window shows and counts is what was traced |

The parts of `parts`:

| Part | Bounds | Property |
|---|---|---|
| `timer` | 16 values of a ULONG, 80 ticks, 2 to a millisecond, delays 0, 1, 3 and 7 ms | `DueIsLongest`, `Settled`, `WaitEnds`: the timer runs to the end of the longest delay, a wait ends not before it, but for less than a millisecond, and it ends |
| `table` | pages of 8 bytes, 3 slots a page, 3 pages, chunks of 3 pages, lengths to 56 at every offset, frames apart, adjacent, above 4 GiB | `TableSpells`: the chained table spells the buffer to a board that follows it; it is refused only when it is full |
| `framing` | records at the edge of every check, alone and beside a plain one; the buffer ends before, with or behind them; room for the answer exact or one less; captured packets | `AdmittedIsExecuted`: the three walks agree, none leaves the buffer |
| `mam` | 2 indices, values 0, 7 and 0xFFFF, 2 of MAMSEQ | `MamRuns`: the board runs the request's values, also those not written |
| `spi` | lines 0, 4 and C, 0, 16 and 21 bits, one setter | `SpiFramed`: exactly the bits asked for, with only its line low |
| `oneWire` | an id of a byte and its CRC, one byte of memory, 2 attempts, 1 poll, 1 turned bit, wire good, low or open | `IdGenuine`: an id that is returned is the chip's; the mutex is given back |
| `lifecycle` | 7 resource lists, 2 interfaces | `ResourcesOwned`: whatever fails and in whatever order, nothing is lost, used unmapped or left enabled |
| `dispatch` | all codes, 19 lengths each way | `BufferDiscipline`: a request reads what it was given and returns what was written |
| `diag` | all commands | `DiagTruthful`: tool and driver agree on lengths and packets; exit code 0 is success |
| `backup` | a chip with two contents | `BackupGenuine`: a backup is an intact image the chip held, and no file is overwritten |
| `capture` | ring of 2, 5 records, 3 polls | `CaptureComplete`: every request once and in order, unless the ring was outrun |
| `hook` | 2 threads, 2 imports, a flush every 3 records, 2 calls | `TraceFaithful`: the trace is whole, true and in order, XStream does not notice, no import stays unpatched |

*Why these bounds are enough.* The mutex admits one holder, so a race needs the
holder and one or two others. Two records and two token values give a registration
that draws while another is in the list, and the wrap. Two runners are needed for a
collision on the pending word and on HWINT, and there are no more than two roles
there. Three requests are a request that times out, the one that gets its late
answer, and the one after it; two chunks are a first and a last one. A ring of two
holds old and new records and wraps with the third. Sixteen values of a ULONG have
all sign combinations of the subtraction, and 40 ms pass the range twice. A table of three
pages of three slots has a first, a middle and a last page and both kinds of slot, and the
longest buffer does not fit. The lengths of `dispatch` are the sizes that some check
compares with, and their neighbours. A MAM program of two values has one written and one
left out. What does not depend on the size of these sets is proved (section 4).

`Bounded` keeps `mask` small: nothing is explored once two updates have overlapped, no
request begins once a register was written alone, and errors and requests under the mutex
take turns. The properties promise nothing of masks behind an overlap; that `ErrorsKept`
holds there as well, and while requests run, is shown by its proof only.

`Unexcused` ends a behaviour of `transfers_live` with the first time-out or forged
completion: its property promises nothing from there on, for ever, and no fair action
leads there. `TimedOutOrDirect` lets `transfers_safety` go on after time-outs until the
device is started again, as long as the direct thread has done nothing; with it,
time-outs and forged completions end a behaviour. The proofs of section 4 have no such
bounds.

*Deadlock* is checked except in `cfdc2110`, `parts`, `lecwatch`, `timer_uptime` and
`spi_coherent`: there a bound on requests, records or time ends a behaviour, or the part is
one request or command that ends.

### Fairness

- `transfers_live`: a running acquisition is scheduled, the DMA engine finishes, an
  interrupt that INTEN lets through is delivered, a queued DPC and a DPC routine under way
  run. These are promises
  of Windows and of the board. No time-out is owed, nor any step of clients or PnP,
  so the result does not lean on the five-second limit.
- `interrupts_hw`: an ISR that has begun and a queued or running dispatcher go on.
- `cfdc2110`: the thread in the request goes on; its waits count milliseconds. The
  firmware has no fairness at all.
- `parts`, for the timer alone: the clock runs, the kernel expires a timer and wakes its
  waiter.
- `lecwatch`, for the polling alone: the worker polls and the window handles messages.
  Neither the device nor the users of the trace are fair; the property assumes that the
  device is eventually available for good (`<>[]available`), and `RecordMax` ends the
  records.

## 4. What is proved

All theorems hold for every value of the constants that satisfies the named `ASSUME`s of
the component's module, and TLC evaluates these in every run. They state every invariant
and every action property that a run expects to hold. None of the invariants is inductive
alone: what each proof adds is the subject of this section.
A step of the proof is an action of the module.

### The actors that race

`Transfers_proofs`, for any number of threads, processes, records and processors, and any
`TokenMax`:

- `TypeCorrect`, and `CurrentIsPinned`, `TokensAreUnique`, `LastCloseReleasesAll` and
  `AcquisitionMmioIsMapped`. `IInv` adds that the holder of the mutex is exactly the
  thread in an acquisition (`MutexHeld`); what each thread's local pointer refers to
  at each step and that no two actors hold the same record (`ReqInv`, `ReqDistinct`,
  `VictimInv`); that `CurrentTransfer` is set only between selection and deselection
  (`CurrentInv`); the order of the steps of PnP (`PnpInv`); that tokens differ from
  the moment they are drawn, not only once listed (`TokenInv`); and that a request
  needs an open handle (`HandleInv`).
- `NothingDangles` and `SuccessIsGenuine`. Until a first time-out or forged completion, a
  completion is at one station at a time: engine, INTST and the ISR, the pending bit, a
  runner that has taken it, the event (`OneStation`); and what is there is of the
  acquisition that waits, and has left the engine (`OfTheWaiter`). So an acquisition that
  starts finds all stations empty, which is what a time-out and an injected bit 0 break.
  A dispatcher that has yet to look at the pending bit carries nothing, which is why
  CFDC2400 with other bits does no harm here.

`Interrupts_proofs`, for any number of processors, injectors, clients and events:

- `PendingIsServed` and `WakeupIsNotLost`. `IInv` adds the types of the slots and of what
  registrations hold. The lemma `LatchKeepsWakeup` is the heart: a bit latched under a
  registered event has its signal in the same step.
- `HwBitIsTracked`. `HwInv` says where a bit is at each moment: in the register and
  announced (by INTST, the ISR, the pending word or a runner), or in the hands of a runner
  that has read it (`HwBitHeld`); and that who is about to write zero knows all bits of
  the register but those given up (`ClearerKnows`).
- `ReferencesAreBalanced`. `RefInv` counts: the references of an event are the slots it is
  in, those a stop has taken out, and those that registrations hold (`Balanced`); a
  registration holds references only for the slots it replaces (`LocalsHold`).

`InterruptMask_proofs`, for any sets of threads, of mask bits among the four and of error
bits, proves every property of `mask`. `TypeCorrect` needs that
only requests without the mutex change ERRM (`PcFits`). `MaskIsSerialised` needs that
while nothing has overlapped at most one update is under way and that its mask is its
change of the present shadow (`SerialInv`). `MasksAreCoherent` adds what is about to be
written: by a request to INTEN (`IntenInv`), by a request or the ISR to ERRM
(`ErrmInv`). `ErrorsAreKept` needs that between its read of ERRS and the
acknowledgement the ISR clears only what has been latched or reported (`ErrorsInv`).

`Cfdc2110_proofs`, for batches of any length, any number of them, and messages of one or
two chunks:

- `OneIsPending` (`PendingInv`: the two flags of a pending response exclude each other, and
  who asks the firmware has the one of the hardware set) and `CountOfItsCommand`
  (`CountInv` finds the record that set the count, with none behind it that would have
  cleared it).
- `FetchesAreAnswered` joins `RespondedOnce` and `FetchesLastResponse`.
- `RespondedOnce`. A fetched chunk is one the host installed for the last success before
  the fetch, or came from the firmware (`LocalInv`). The firmware answers only commands
  that were sent (`PastInv`) and each of them once (`FreshInv`: between two fetches a
  new command reaches it), and no chunk of an answer is in two places (`ApartInv`).
- `FetchesLastResponse`. Unless the transport failed, driver and firmware are in step
  (`InStep`): outside of a fetch no chunk is on its way; while a response is pending with
  the firmware, it is about to answer for the last command that succeeded; of a message
  that is being sent it has got exactly the part before; during a fetch the chunks
  received and those on their way make up one answer, in order.

### The parts of the board

`Board_proofs` holds six parts that share no state:

- `ResourcesAreOwned` of `Lifecycle`, for resource lists of any length and content.
  `LcInv` says where the handler of an IRP is and what it has done by then: which IRP
  (`LcPlace`), which BARs are mapped, each at most once and long enough (`LcBars`), what is
  connected, started and enabled (`LcLinked`), and which writes of the probe are left
  (`LcProbe`). The number of mappings is the cardinality of the set of mapped BARs.
- `DueStaysLongest` and `SettledAlways` of `LegacyTimer`, for any `Wrap`, delays and
  times that keep `ShortDelays`: the delays, the time of the first one and the lateness
  of the kernel fit a LONG of milliseconds. Without it the code is wrong, as
  `timer_uptime` shows. The lemma `RemainingIsCeiling` is what it is for: the division,
  the subtraction modulo `Wrap` and the cast give the true remainder and less than a
  millisecond on top while the timer runs, and a negative number when it was never set.
  That the shortfall of a request that does not extend the timer never adds up is the
  strengthening: `asked < due + TicksPerMs` is kept because an extension is to
  `now + requested` and a request that does not extend it falls short of it by less than a
  millisecond (`ArmKeeps`). `SettledAlways` is also that a request leaves the timer
  armed (`RequestArms`), so the deviation of `timer_uptime` is absent under
  `ShortDelays`.
- `SpiIsFramed` of `SpiCommand`, for any number of bits. While nobody else touches SPICTL,
  its copy has at each place of the command the lines, mode and count that the
  place calls for (`SpiShape`), the register agrees with it (`SpiCopied`), and the
  counts of the words sent and the bits left add up to the bits asked for (`SpiCounted`;
  `IsShifted` stands for the recursive sum).
- `MamRunsAlways` of `MamCache`, for any number of indices, any values and any
  programs that fit. `MamInv` adds where the request stands (`MamPlace`), that a copy the
  driver trusts is what the board has until something goes behind it (`CopiesTrue`), and
  that the indices done hold the program's values (`MamProgress`): a write that is left out
  would have changed nothing.
- `TableSpellsAlways` of `DescriptorTable`, for pages, chunks, tables and buffers of any
  size. `DtInv`: the chunks follow one another (`DtChain`); page and offset of the loops
  are those of the next byte (`DtCursor`); and there is a count for each slot, of the
  bytes before it, such that the run in the slot moves the bytes from there on and the
  last slot of a page links to the next page (`Described`). `PageIs` and `SlotIs` are the
  arithmetic of both, for any size of page, and `BoardGoesOn` says that the board
  goes through such a table slot by slot. The check for room behind the loops never
  refuses: a run leaves a slot for the terminator, by `SlotIs`.
- `IdIsGenuine` of `OneWire`, for any id, memory, limits and number of turned bits that the
  CRC tells. `OwInv` follows the two ends of the wire: which byte and bit the chip is at
  when it follows the request, also after a time-out left a command on the wire
  (`OwCommand`), and that no more bits of the id read so far are wrong than were turned
  (`Heard`). A turned bit in the command itself is the hard case: the chip is silent, the
  line reads as ones, and one of the turned bits is spent (`Deaf`). `CrcAssumption` is
  what the polynomial has to be good for: among the ids with so few wrong bits, of
  either kind, the chip's is the only one whose last byte is right. It is an assumption
  on the constants and not on the code, which TLC evaluates for the instance. For the ids of
  eight bytes of the code it holds for one and two turned bits, by calculation of the
  syndromes; not for three, since a word of ones with two bits turned may have a right
  CRC.

### Requests

`Requests_proofs`:

- `BuffersAreDisciplined` of `Dispatch`, for any set of codes, the unknown ones
  included, and any lengths. Each kind of handler has a lemma: its results read within
  the input, write within the output and report no more than they wrote (`HandlerIs`
  collects them); the completion and the record in the trace change neither extent.
- `AdmittedIsExecutedAlways` of `Framing`, for buffers of any number of records. Behind
  the first pass the records fill the buffer, and each was admitted where it lies, or all
  of them were captured (`FrPlace`); the second pass has summed what the third one
  writes (`FrCounted`); within a shift the bits shifted and left are those of the
  record, and unless it is excused there are words and room for them (`FrShift`). Starts
  and sizes of the records are prefix sums: the lemmas about `SumsOf` show that they exist,
  are unique, and grow.
- `DiagIsTruthful` of `LecDiag`, for every command with any arguments. Tool and driver have
  no header in common, so nothing but such a proof ties the lengths in one to the checks in
  the other: `RequestsAre` goes through all that a command sends and finds it suited, that
  is, a request whose every result in `Handler` is no rejection and returns what the tool
  looks at, or a packet whose records are admitted wherever they lie and have room
  for their answers (`GoodPacket`). `DgInv` adds that the driver is at the request that the
  tool waits for, and takes `DpInv` and `FrInv` of the two results above along; for this
  the invariant of `Framing` holds of any buffer that is well framed, and not only of those
  a run enumerates. A packet that fits is not refused in any pass and has words and room for
  each of its shifts (`WalkIsGood`).
- `TracesAreFaithful` of `XStreamHook`, for any number of threads, imports and calls, and
  any rhythm of the flush. `LogInv`: half a record in the file is that of the lock's owner
  (`HkFile`, `HkOwn`); a thread is in the last of its calls, and a call has a record from
  the moment the function it forwards to has returned until it writes its own
  (`HkThreads`, `HkRecords`); numbers are given once, before the lock is taken, and rise
  with the records of each thread (`HkApart`, `HkOrdered`, `HkNumbers`); and what XStream
  finds as last error is what the function left, whatever the hook called since
  (`HkErrors`). `HkPatch` adds that every thread on its way through the imports has left
  none unpatched behind it, and that while a module is half patched one of these will not
  fault (`Guides`): it need not be the thread that began, so it is chosen anew at each step.

### The tools

`Tools_proofs`:

- `RingTypeCorrect` and `RingImplementsLog` of `TraceRing`, for every capacity. The lemmas
  `SlotsApart` and `SlotsMove` say where the records lie in the ring and how a write moves
  them; `RecordAppends` maps a write to the step of the log.
- `CapturesAreComplete` of `TraceCapture`, and `LogIsInOrder`, `RecordsAreAccounted` and
  `StatusIsHonest` of `LecWatch`, for every capacity, length of the queue and number of
  records, with clears at any time. Records have an `id` that never repeats beside the
  number that a clear resets, and both tools know the number only. The loops over a
  poll are first shown to keep exactly the end of the list behind the last number seen
  (`Skips`, `EndOf`, `NewerAre`). In `CapInv`, `CapEpoch` relates number and id: since
  the last clear a record's id is its number plus the records before the clear, so a
  number above `capLast` is that of a line not yet written unless the ring was outrun.
  `WatchInv` says the same of the way from ring to log (`Way`: what is logged, and the ids
  in the messages of the queue), counts it (`WayAccounted`: logged, on the way, dropped
  and before the baseline make up the last number seen), and notes that the last
  message about the device in the queue, or the window if there is none, has the
  worker's state (`ToldAtLast`), whatever was cleared and which batches were lost, unless
  the last of these messages was lost (`untold`).
- `SessionIsKept` of `LecWatchSession`, for any sizes of ring, statistics and baseline:
  the part of `SwInv` about the ring (`Retains`) says which row of the session each place
  has, and `PushRetains` that a push takes the oldest away; a code that has no slot in the
  statistics has no row either while slots are left (`RowsHaveSlots`), without which a
  count that begins late would be wrong; and every variant of the baseline is that of a
  request that was learned (`HashesLearned`), so what hides a request has seen its like.
- `SessionIsShown` adds what the window makes of the rows (`ShownInv`). Of the *list*:
  it ends as the rows of the session that its boxes let through do, and has as many
  of them as the ring gives it room for (`ListEnds`); that a request which is handled
  extends the list as building it anew would rests on `AmongConcat` and `EndsAmong`, which
  say that filtering keeps the end of a sequence an end. Of the *details*: as long as the
  numbers go on, no two requests, handled or on their way, have the same
  (`RowsNumbered`), so the first row of the ring with the number of a row is that row. Of
  an *action* that began with nothing on the way (`ActionWritten`): its first row divides
  the session, no row before it is later and no row after it earlier, for the clock only
  rises and what is on the way was traced since (`TimesPast`); the statistics remember the
  number of requests before that row (`CountedFrom`); and once it has ended, the lines
  after its last row have the numbers of requests between the two (`LinesWritten`). What
  the script reads is the ring sorted by time: `PlaceOnce` and `PlaceTaken` show that a
  stable sort permutes the rows, `DividerStays` that a row which divides them
  keeps its place, so the rows between the two marks are the same before and after
  (`SortedNumber`), and `LastInRing` that this holds of a ring that has lost the oldest
  rows but not the marks.
- `BackupIsGenuine` of `DallasBackup`: `BkInv` says at each step which images were read,
  where they may come from, and whose file the destination is.

`Induction` is the base of the proofs about sums and loops. The library's rule of induction
takes an operator and is out of reach of the provers; `LeastNat` (a set of
numbers that is not empty has a least element, from the library's well-foundedness) and
`AllNats` (a set of numbers with zero and every successor is all of them) state the same
about sets. From them follow that a loop over numbers has a function of its rounds
(`IterationExists`), `Product` of a sequence in a monoid and how `Append`
and `Tail` change it: the ids in the queue and the count of the dropped are two of these.

### Model-checked only

- Liveness: `CompletionDelivered` of `transfers_live`, `AcceptedIsDispatched` of
  `interrupts_hw`, `RequestEnds` of `cfdc2110`, `WaitEnds` of the timer, `LogCatchesUp` of
  `lecwatch`. Fairness and ENABLED are beyond this prover.
- `CrcAssumption` of `OneWire`: which turned bits a polynomial tells is evaluated, for the
  id of the run, and not proved for every id.

That the ring is a part of `LecWatch` is checked by `lecwatch`. The predicates `TypeOK` of
`Transfers` and `InterruptMask` are proved and need no run.

## 5. Known deviations

Three runs show that the code does not do what a document says (`findings`):

- `transfers_done`: after a time-out the completion of the old DMA, which carries no
  identity, ends the next acquisition with success. `NoDanglingUse` and
  `CompletionGenuine` therefore hold until a first time-out.
- `timer_uptime`: 24.9 days after boot the first delay no longer arms the timer, and a
  wait for it would hold the mutex without end. `parts` assumes that the first
  delay is asked for earlier (`FirstArmMax`), and `SettledAlways` proves that this
  is what it takes.
- `spi_coherent`: SetOneRegister on SPICTL stores the copy and writes the register in two
  steps; a command of another thread between them leaves the two different
  (`driver/Ioctl.c:1226` against `docs/ioctl-map.md:87`).

The models contain more behaviours of this kind, and the properties say where they
begin:

- CFDC2400 with bit 0 ends the acquisition under way with success while its DMA runs;
  its transfer may then be unregistered and freed under the engine, or under the
  caller's thread between loading and signalling it (`driver/Acquisition.c:839`). A
  client that starts the engine by writing MAMRGO does the same (`forged` in
  `NoDanglingUse`, `CompletionGenuine` and `CompletionDelivered`).
- A client may delay an acquisition to its time-out (`crossed` in `CompletionDelivered`):
  CFDC2190 commits the bit 0 of INTEN it read before the acquisition set it
  (`driver/Ioctl.c:4336`), SetOneRegister and CFDC21C4 write INTEN, INTST or IIMCL; and
  CFDC2400 with no bit set takes a completion between the ISR's record of it and its
  acknowledgement, which then wipes out the completion of the acquisition that follows.
- A mask update without the mutex that overlaps another one may be lost or leave
  register and shadow different (`overlap` in `MaskSerialised` and `MaskCoherent`);
  so may bit 3 of INTEN, which the comment at `driver/Ioctl.c:3296` calls permanent.
- STOP resets the shadows and not the registers, and only if the interrupt was
  connected; the next START may connect with bit 0 still set in the shadow, against
  the comment at `driver/Device.c:506` (`bypassed`).
- The MAM shadow is not reset by STOP and START, nor by a loss of power, so a value the
  board has lost is taken for present and never written again (`behind` in `MamRuns`,
  `driver/Ioctl.c:1751`).
- A delay that seems to be covered by the one that runs does not extend it, and the rest
  of that one is reckoned from elapsed time cut down to whole milliseconds
  (`driver/Ioctl.c:1843`). With 10 ms asked for at 0 and 6 ms at 4.9 the timer expires at
  10.0, not at 10.9: MTTCTL may be written almost a millisecond before a delay is over.
  `DueIsLongest` and `Settled` are stated with that margin, and it does not grow.
- The KTIMER is kept across STOP and START, so a delay asked for before still holds up an
  opcode 0x02 afterwards (`driver/Ioctl.c:2694`).
- After a receive that timed out, the late answer stays in the mailbox and is
  delivered to the next fetch (`disturbed` in `FetchGetsLastResponse`). Chunks of no words
  with the more flag never fill the buffer: while the firmware sends them, a receive does
  not end (`driver/Ioctl.c:861`; no firmware of `Cfdc2110` does).
- A JTAG command that fails may have written over a response that is pending
  (`OfLastSuccess`), and the count of opcode 0x99 is kept by commands of family 0
  (`CountIsOfItsCommand`). A JTAG record may be admitted and then refused
  (`Excused` in `AdmittedIsExecuted`).
- SPI selector 0x0C keeps mode bits of the command before it (`SpiFramed`).
- One-wire: a wire that is held low yields an id of zeros, whose CRC is right
  (`IdGenuine`). The memory has no CRC, and `DallasBackup` assumes that two reads are not
  disturbed alike.
- CFDC21C4, the debug register requests and the one-wire bus use a BAR they have checked
  before while STOP may unmap it: no lock is held (`fault` of `OneWire`).
- lecwatch does not look whether a message could be posted. With the queue full the one
  that tells of the loss or the return of the device is gone, and the status line is wrong
  until the device is next lost or opened (`untold` in `StatusHonest`).
- When the trace is cleared and refilled between two polls, lecwatch takes new records
  for old ones (`disturbed` in `EveryRecordAccounted`). It finds the details of a row by
  sequence number, so after a clear a click may open another row's (`restarted`). The
  count of an action includes requests that were on their way when it began, while
  `summarize-actions.py` goes by time (`quiet`). Requests of a code beyond the 96th are
  not counted, and two requests that differ behind their first 64 bytes count as one
  variant.
- `trace-capture` takes no snapshot after its deadline, does not report that the ring was
  outrun, and skips records after another tool has cleared it (`outrun`).
- The record of a failed call may have output: `HookDeviceIoControl` goes by `*bytesOut`
  and `HookNtDeviceIoControlFile` by `Information`, which such a call leaves as the caller
  had them, so the trace shows what lay in the buffer (`xstream_io_hook.c:515`, `:592`);
  a failed `NtCreateFile` shows the handle the caller had. Of a pending `DeviceIoControl`
  the record may have nothing, what was sent or the answer. Who compares traces must go by
  `success`, `pending` and `ntstatus`; `RecordsTrue` promises that a failed call never
  shows an answer, and that the record of an Nt function has the answer there was.
- xstream-ioctl-trace: a thread whose write to an import table faults, since the other one
  has restored the page, returns from LoadLibrary while the other still patches
  (`ModulePatched` waits for the last). Imports of modules that come as dependencies or by
  LoadLibraryEx are not patched, a snapshot of the modules that fails means that nothing
  is traced, and writes of the log that fail are not noticed. Records lie in the file in
  the order of the lock, not of their numbers (`RecordsOrdered` compares within a thread).

## 6. Plan

Done: the models of the driver, of its requests and of the tools with their runs; the
proofs of section 4.

Next:

1. The MTT transfer as a record of `Cfdc2110` that makes the acquisition of `Transfers`
   while its batch holds the mutex: the two modules have the mutex in common and are
   checked apart.
2. A refusal of `DescriptorTable` as the failure of a registration in `Transfers`, where
   it is a choice.

## 7. Not modelled, and why

- Response layouts and the values of single register writes (LED, opcodes 0x92, 0xA0):
  data; that they are admitted, answered and stay within their buffers is in `Framing` and
  `Dispatch`.
- Power requests, other PnP requests and unload: passed on, no state.
- Of lecwatch: the table of activity, drawing, layout, files, and the end of its thread.
- Of xstream-ioctl-trace: `HookGetProcAddress`, the formatting of records, a heap that has
  no room for a copy, and calls of
  other DLLs after the log was closed.
- trace-diff, scripts and tests: comparison of files, no state of their own.
- The exports of the legacy driver: reference material, not part of the program.

The firmware, the hardware registers, the one-wire controller and chip, KTIMER, the
message queue, files and disks, PnP and the I/O manager are external: they are modelled
from how the code uses them.
