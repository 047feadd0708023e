---------------------------- MODULE LegacyTimer ----------------------------
(***************************************************************************)
(* The embedded KTIMER of family 2 of CFDC2110: opcode 0x01 arms or extends*)
(* it, opcode 0x02 waits for it before MTTCTL is written.  Both hold       *)
(* TransferMutex.  Time is counted in ticks of the performance counter; the*)
(* delays the code keeps are whole milliseconds in 32 bits, and Wrap stands*)
(* for 2^32.                                                               *)
(***************************************************************************)
EXTENDS Integers

CONSTANTS
    Wrap,          \* values of a ULONG
    TicksPerMs,    \* ticks of the counter in a millisecond
    Durations,     \* delays that are requested, ULONGs of milliseconds
    UptimeMax,     \* bound: ticks since boot
    ArmMax,        \* bound: no delay is requested after this tick
    FirstArmMax,   \* assumption: no first delay is requested after this tick
    Latency        \* bound: ticks the kernel expires a timer late

Half == Wrap \div 2

ASSUME WrapAssumption == Wrap \in Nat \ {0} /\ Wrap = 2 * Half
ASSUME DurationsAssumption == Durations \subseteq 0..Wrap - 1
ASSUME TicksAssumption == TicksPerMs \in Nat \ {0}
ASSUME TimesAssumption ==
    UptimeMax \in Nat /\ ArmMax \in Nat /\ FirstArmMax \in Nat /\ Latency \in Nat

VARIABLES
    now,           \* the performance counter: ticks since boot
    initialized,   \* LegacyTimerInitialized
    startTime,     \* LegacyTimerStartTime
    durationMs,    \* LegacyTimerDurationMs
    timer,         \* the KTIMER: not set, set or signalled
    due,           \* its due time
    waiting,       \* an opcode 0x02 waits for it
    asked          \* history: the tick at which the longest delay asked for ends

vars == <<now, initialized, startTime, durationMs, timer, due, waiting, asked>>

\* The driver is loaded at any time after the first millisecond.
Init ==
    /\ now \in TicksPerMs..UptimeMax
    /\ initialized = FALSE /\ startTime = 0 /\ durationMs = 0
    /\ timer = "unset" /\ due = 0
    /\ waiting = FALSE
    /\ asked = 0

-----------------------------------------------------------------------------
\* The (LONG) of a ULONG.
Signed(x) == IF x < Half THEN x ELSE x - Wrap

\* The ticks since the start, cut down to whole milliseconds.
ElapsedMs == (now - startTime) \div TicksPerMs

\* (LONG)LegacyTimerDurationMs - (LONG)elapsedMs
Remaining == Signed((durationMs - ElapsedMs) % Wrap)

InTicks(ms) == ms * TicksPerMs

AtLeastOne(requested) == IF requested = 0 THEN 1 ELSE requested

\* KeSetTimer, and what is noted of it.
Set(requested) ==
    /\ timer' = "set"
    /\ due' = now + InTicks(AtLeastOne(requested))
    /\ startTime' = now
    /\ durationMs' = AtLeastOne(requested)

Noted(requested) ==
    /\ ~waiting
    /\ now <= IF initialized THEN ArmMax ELSE FirstArmMax
    /\ initialized' = TRUE
    /\ LET end == now + InTicks(requested)
       IN asked' = IF end > asked THEN end ELSE asked
    /\ UNCHANGED <<now, waiting>>

\* Mutant: every request restarts the timer.
ArmAlways(requested) == Noted(requested) /\ Set(requested)

\* Mutant: the comparison is turned round.
ArmIfShorter(requested) ==
    /\ Noted(requested)
    /\ \/ (timer = "signalled" \/ Remaining > Signed(requested)) /\ Set(requested)
       \/ /\ timer # "signalled" /\ Remaining <= Signed(requested)
          /\ UNCHANGED <<timer, due, startTime, durationMs>>

\* LecLegacyTimerArmOrExtend
ArmOrExtend(requested) ==
    /\ Noted(requested)
    /\ \/ timer = "signalled" /\ Set(requested)
       \/ timer # "signalled" /\ Remaining < Signed(requested) /\ Set(requested)
       \/ /\ timer # "signalled" /\ Remaining >= Signed(requested)
          /\ UNCHANGED <<timer, due, startTime, durationMs>>

\* Opcode 0x02; without a first delay nothing is waited for.
BeginWait ==
    /\ ~waiting /\ initialized
    /\ waiting' = TRUE
    /\ UNCHANGED <<now, initialized, startTime, durationMs, timer, due, asked>>

\* Mutant: the wait is not made.
WriteAtOnce ==
    /\ waiting
    /\ waiting' = FALSE
    /\ UNCHANGED <<now, initialized, startTime, durationMs, timer, due, asked>>

\* The wait ends and MTTCTL is written.
WriteMttCtl ==
    /\ waiting /\ timer = "signalled"
    /\ waiting' = FALSE
    /\ UNCHANGED <<now, initialized, startTime, durationMs, timer, due, asked>>

\* The kernel's timer and the clock.
Expire ==
    /\ timer = "set" /\ due <= now
    /\ timer' = "signalled"
    /\ UNCHANGED <<now, initialized, startTime, durationMs, due, waiting, asked>>

Tick ==
    /\ now < UptimeMax
    /\ timer = "set" => now < due + Latency
    /\ now' = now + 1
    /\ UNCHANGED <<initialized, startTime, durationMs, timer, due, waiting, asked>>

Arm == \E requested \in Durations : ArmOrExtend(requested)
Next == Arm \/ BeginWait \/ WriteMttCtl \/ Expire \/ Tick

Spec == Init /\ [][Next]_vars

\* The clock runs, the kernel expires its timers and wakes the waiter.
FairSpec == Spec /\ WF_vars(Tick) /\ WF_vars(Expire) /\ WF_vars(WriteMttCtl)

-----------------------------------------------------------------------------
(* Properties.                                                              *)

\* docs/ioctl-map.md: a request for a delay arms the timer.
RequestArms == initialized => timer # "unset"

\* MTTCTL is never written a millisecond or more before a delay that was asked for is
\* over, whatever was asked for before and in between.  Less than that it may be: the
\* elapsed time is cut down to whole milliseconds, so the rest of the delay that runs is
\* taken for longer than it is, and a request it seems to cover does not extend it.  What
\* is lost does not add up over the requests.
Settled == [][waiting /\ ~waiting' => now + TicksPerMs > asked]_vars

\* The timer that runs ends less than a millisecond before the longest delay asked for,
\* and at most a millisecond behind it (a request of zero gets one).
DueIsLongest ==
    timer = "set" => /\ asked - TicksPerMs < due
                     /\ due <= asked + TicksPerMs

\* An opcode 0x02 gets its answer, and with it TransferMutex is released.
WaitEnds == waiting ~> ~waiting
=============================================================================
