--------------------------- MODULE LecWatchSession ---------------------------
(***************************************************************************)
(* The window of lecwatch: the ring of rows a session retains, the counts  *)
(* of the request codes, the idle baseline, the list with its filters, the *)
(* action windows, and the summary that summarize-actions.py makes of a    *)
(* saved session.  How requests reach the window is in LecWatch.           *)
(***************************************************************************)
EXTENDS Integers, Sequences, SequencesExt

CONSTANTS
    Traced,        \* the requests XStream makes, as the trace shows them
    Described,     \* g_ioctl_desc: codes and their confidence
    DallasCodes,   \* is_sensitive_ioctl
    FilterMatches, \* codes the text of the filter matches
    MaxStats, MaxEvents, MaxLogRows, MaxHashes, \* 96, 20000, 2000, 32
    NovelHold,     \* 5 s
    StepMax, ClockMax                           \* bounds

ASSUME SessionAssumption ==
    /\ Len(Described) \in Nat /\ DOMAIN Described = 1..Len(Described)
    /\ MaxStats \in Nat /\ Len(Described) <= MaxStats
    /\ {MaxEvents, MaxLogRows} \subseteq Nat \ {0}
    /\ {MaxHashes, NovelHold, StepMax, ClockMax} \subseteq Nat

VARIABLES
    clock,         \* the performance counter of driver and tool
    onTheWay,      \* requests the driver has traced and the window has not handled
    traceSeq,      \* sequence number of the last
    total,         \* history: requests made
    restarted,     \* history: the numbers began again
    stats,         \* g_stats
    log,           \* g_events, g_eventHead, g_eventCount
    session,       \* history: every row of the session
    list,          \* the rows of the list view
    boxes,         \* the boxes that are ticked, and "text" if the filter has one
    baseline,      \* none, active or ready
    calm,          \* codes whose rate is like that of the baseline
    learned,       \* history: the requests handled while the baseline was learned
    missed,        \* history: a request unlike those was hidden with the baseline
    action,        \* g_actionActive
    quiet,         \* history: nothing was on the way when the action began and ended
    inputs         \* number of inputs of the user

viewVars == <<list, boxes>>
learnVars == <<baseline, calm, learned, missed>>
actVars == <<action, quiet>>
driverVars == <<onTheWay, traceSeq, total, restarted>>
windowVars == <<clock, driverVars, stats, log, session, viewVars, learnVars, actVars,
                inputs>>

-----------------------------------------------------------------------------
(* What the window makes of a request.                                      *)

Functional ==
    {<<2, 64>>, <<1, 66>>, <<0, 66>>, <<0, 136>>, <<0, 144>>, <<0, 160>>, <<2, 1>>, <<2, 2>>,
     <<2, 5>>, <<2, 16>>, <<1, 80>>, <<1, 81>>}
Partial ==
    {<<0, 146>>, <<0, 133>>}
    \cup {1} \X {74, 129, 130, 144, 145, 150, 151, 153}
    \cup {0} \X {74, 132, 134, 135, 150, 151, 161, 162}

\* The confidence of a request: of its code, or of the first record of a packet.
DecodeNested(e) ==
    IF e.code # "CFDC2110"
    THEN IF \E i \in DOMAIN Described : Described[i].code = e.code
         THEN (CHOOSE d \in Range(Described) : d.code = e.code).confidence
         ELSE "unknown"
    ELSE CASE e.length < 8 -> "unknown"
           [] e.length >= 8 /\ e.first.frame = "fetch" -> "functional"
           [] e.length >= 8 /\ e.first.frame = "command" /\ e.first.type \in {1, 2} ->
                "functional"
           [] e.length >= 11 /\ e.first.frame = "command" /\ e.first.type = 3 ->
                IF e.first.command \in Functional THEN "functional"
                ELSE IF e.first.command \in Partial THEN "partial" ELSE "unknown"
           [] OTHER -> "unknown"

\* trace_variant_hash: the lengths and the first 64 bytes, unless they are secret.
Variant(e) == IF e.code \in DallasCodes THEN <<e.length>> ELSE <<e.length, e.first>>

NewStat(code) ==
    [code |-> code, count |-> 0, learnFrom |-> 0, rated |-> FALSE, hashes |-> {},
     overflow |-> FALSE, novelAt |-> 0, actionFrom |-> 0]

\* find_stat: no room, no statistics.
WithSlot(code) ==
    IF (\A i \in DOMAIN stats : stats[i].code # code) /\ Len(stats) < MaxStats
    THEN Append(stats, NewStat(code)) ELSE stats

\* baseline_add_hash
Learn(s, e) ==
    IF Variant(e) \in s.hashes THEN s
    ELSE IF Cardinality(s.hashes) < MaxHashes
         THEN [s EXCEPT !.hashes = @ \cup {Variant(e)}]
         ELSE [s EXCEPT !.overflow = TRUE]

Novel(s, e) == Variant(e) \notin s.hashes \/ s.overflow

\* Mutant: what is new is taken into the baseline.
CountedLearnsOn(s, e) ==
    LET t == [s EXCEPT !.count = @ + 1] IN
    CASE baseline = "active" -> Learn(t, e)
      [] baseline = "ready" /\ Novel(t, e) -> [Learn(t, e) EXCEPT !.novelAt = e.time]
      [] OTHER -> t

\* The statistics of record_trace.
Counted1(s, e) ==
    LET t == [s EXCEPT !.count = @ + 1] IN
    CASE baseline = "active" -> Learn(t, e)
      [] baseline = "ready" /\ Novel(t, e) -> [t EXCEPT !.novelAt = e.time]
      [] OTHER -> t

-----------------------------------------------------------------------------
(* The rows and the list.                                                   *)

TraceRow(e) == [kind |-> "trace", time |-> e.time, request |-> e]
Marker(text, code, n) ==
    [kind |-> "marker", time |-> clock, text |-> text, code |-> code, n |-> n]
Mark(text) == Marker(text, "", 0)

\* push_log_row
Push(l, row) ==
    [rows |-> [l.rows EXCEPT ![l.head] = row], head |-> (l.head + 1) % MaxEvents,
     count |-> IF l.count < MaxEvents THEN l.count + 1 ELSE l.count]

\* Mutant: the ordinals of a full ring begin at its head's successor.
EventAfterHead(l, ordinal) == l.rows[(l.head + 1 + ordinal) % MaxEvents]

\* event_by_ordinal
EventByOrdinal(l, ordinal) ==
    l.rows[(((l.head + MaxEvents) - l.count) + ordinal) % MaxEvents]

Retained(l) == [k \in 1..l.count |-> EventByOrdinal(l, k - 1)]

LastOf(rows, n) == IF Len(rows) > n THEN SubSeq(rows, Len(rows) - n + 1, Len(rows)) ELSE rows

\* stat_is_baseline_noise; no code is calm until the baseline is ready.
Noise(st, quiets, code) ==
    /\ code \in quiets
    /\ \E i \in DOMAIN st :
          st[i].code = code /\ ~(st[i].novelAt # 0 /\ clock - st[i].novelAt <= NovelHold)

\* should_show_trace, with the boxes that are ticked
Shows(st, quiets, ticked, row) ==
    row.kind = "trace" =>
        /\ "errors" \in ticked => ~row.request.ok
        /\ "known" \in ticked =>
              DecodeNested(row.request) \notin {"confirmed", "functional"}
        /\ "baseline" \in ticked => ~Noise(st, quiets, row.request.code)
        /\ "text" \in ticked => row.request.code \in FilterMatches

\* The rows that are in a set, in their order.
Among(rows, set) ==
    LET among[i \in 0..Len(rows)] ==
            IF i = 0 THEN <<>>
            ELSE IF rows[i] \in set THEN Append(among[i - 1], rows[i])
            ELSE among[i - 1]
    IN among[Len(rows)]

Shown(rows, st, quiets, ticked) ==
    Among(rows, {row \in Range(rows) : Shows(st, quiets, ticked, row)})

\* rebuild_log
Rebuilt(st, quiets, l, ticked) ==
    IF "pause" \in ticked THEN <<>>
    ELSE LastOf(Shown(Retained(l), st, quiets, ticked), MaxLogRows)

Pushed(l, rows) ==
    LET after[n \in 0..Len(rows)] == IF n = 0 THEN l ELSE Push(after[n - 1], rows[n])
    IN after[Len(rows)]

\* Rows are pushed and the list is built anew.
PushAndRebuild(rows, st, quiets) ==
    /\ log' = Pushed(log, rows)
    /\ session' = session \o rows
    /\ list' = Rebuilt(st, quiets, log', boxes)

EmptyLog == [rows |-> [i \in 0..MaxEvents - 1 |-> Mark("")], head |-> 0, count |-> 0]

SwInit ==
    /\ clock = 1 /\ onTheWay = <<>> /\ traceSeq = 0 /\ total = 0 /\ restarted = FALSE
    /\ stats = [i \in DOMAIN Described |-> NewStat(Described[i].code)]
    /\ log = EmptyLog /\ session = <<>> /\ list = <<>> /\ boxes = {}
    /\ baseline = "none" /\ calm = {} /\ learned = {} /\ missed = FALSE
    /\ action = FALSE /\ quiet = FALSE /\ inputs = 0

\* Whether two requests look alike to the owner; the bytes of some are not shown.
Alike(d, e) ==
    /\ d.code = e.code /\ d.length = e.length
    /\ d.first = e.first \/ e.code \in DallasCodes

-----------------------------------------------------------------------------
(* The driver, and the messages it takes to the window.                     *)

TimePasses ==
    /\ clock < ClockMax /\ clock' = clock + 1
    /\ UNCHANGED <<driverVars, stats, log, session, viewVars, learnVars, actVars, inputs>>

TraceRequest ==
    /\ total + inputs < StepMax
    /\ \E e \in Traced :
          onTheWay' = Append(onTheWay, [code |-> e.code, length |-> e.length,
              first |-> e.first, ok |-> e.ok, id |-> total + 1, seq |-> traceSeq + 1,
              time |-> clock])
    /\ traceSeq' = traceSeq + 1 /\ total' = total + 1
    /\ UNCHANGED <<clock, restarted, stats, log, session, viewVars, learnVars, actVars,
                   inputs>>

\* Another tool clears the trace, or the device comes back.
RestartTrace ==
    /\ traceSeq > 0 /\ ~restarted
    /\ traceSeq' = 0 /\ restarted' = TRUE
    /\ UNCHANGED <<clock, onTheWay, total, stats, log, session, viewVars, learnVars,
                   actVars, inputs>>

\* record_trace, of the next request of a batch; where a batch ends is left open.
HandleRecord ==
    LET e == Head(onTheWay)  slotted == WithSlot(e.code)
        st == [i \in DOMAIN slotted |->
                 IF slotted[i].code = e.code THEN Counted1(slotted[i], e) ELSE slotted[i]]
    IN
    /\ onTheWay # <<>> /\ onTheWay' = Tail(onTheWay)
    /\ stats' = st
    /\ log' = Push(log, TraceRow(e))
    /\ session' = Append(session, TraceRow(e))
    /\ list' = IF "pause" \notin boxes /\ Shows(st, calm, boxes, TraceRow(e))
               THEN LastOf(Append(list, TraceRow(e)), MaxLogRows) ELSE list
    /\ learned' = IF baseline = "active" THEN learned \cup {e} ELSE learned
    /\ missed' = \/ missed
                 \/ /\ Noise(st, calm, e.code) /\ clock - e.time <= NovelHold
                    /\ \A l \in learned : ~Alike(l, e)
    /\ UNCHANGED <<clock, traceSeq, total, restarted, boxes, baseline, calm, actVars,
                   inputs>>

-----------------------------------------------------------------------------
(* The timer and the user; a message of another program counts as one.      *)

\* The codes the baseline had often enough; the count that takes, three in the five
\* seconds, is abstracted to one.
Rated(st) == {st[i].code : i \in {j \in DOMAIN st : st[j].rated}}

\* update_rates: which rates are like those of the baseline is left open.
UpdateRates ==
    /\ baseline = "ready" /\ calm' \in SUBSET Rated(stats)
    /\ UNCHANGED <<clock, driverVars, stats, log, session, viewVars, baseline, learned,
                   missed, actVars, inputs>>

\* finish_baseline, on the timer that follows the five seconds
FinishBaseline ==
    /\ baseline = "active" /\ baseline' = "ready"
    /\ stats' = [i \in DOMAIN stats |->
                   [stats[i] EXCEPT !.rated = stats[i].count > stats[i].learnFrom]]
    /\ calm' \in SUBSET Rated(stats')
    /\ PushAndRebuild(<<Mark("baseline")>>, stats', calm')
    /\ UNCHANGED <<clock, driverVars, boxes, learned, missed, actVars, inputs>>

UserInput == total + inputs < StepMax /\ inputs' = inputs + 1

\* begin_baseline; the button is greyed while it learns.
BeginBaseline ==
    /\ UserInput /\ baseline # "active" /\ baseline' = "active"
    /\ stats' = [i \in DOMAIN stats |->
                   [stats[i] EXCEPT !.learnFrom = stats[i].count, !.rated = FALSE,
                                    !.hashes = {}, !.overflow = FALSE, !.novelAt = 0]]
    /\ calm' = {} /\ learned' = {}
    /\ PushAndRebuild(<<Mark("baseline")>>, stats', calm')
    /\ UNCHANGED <<clock, driverVars, boxes, missed, actVars>>

\* Ticking the pause stops the list; every other box, and its end, build it anew.
TickBox(b) ==
    /\ UserInput
    /\ boxes' = IF b \in boxes THEN boxes \ {b} ELSE boxes \cup {b}
    /\ list' = IF b = "pause" /\ b \in boxes' THEN list ELSE Rebuilt(stats, calm, log, boxes')
    /\ UNCHANGED <<clock, driverVars, stats, log, session, learnVars, actVars>>

AddMarker ==
    /\ UserInput
    /\ PushAndRebuild(<<Mark("user")>>, stats, calm)
    /\ UNCHANGED <<clock, driverVars, stats, boxes, learnVars, actVars>>

\* start_action_named
StartActionNamed ==
    /\ UserInput /\ ~action /\ action' = TRUE
    /\ quiet' = (onTheWay = <<>>)
    /\ stats' = [i \in DOMAIN stats |-> [stats[i] EXCEPT !.actionFrom = stats[i].count]]
    /\ PushAndRebuild(<<Mark("start")>>, stats', calm)
    /\ UNCHANGED <<clock, driverVars, boxes, learnVars>>

\* Mutant: a code that was first seen in the action is left out.
CountLinesOfKnown ==
    LET of(i) == stats[i].count - stats[i].actionFrom
        lines[i \in 0..Len(stats)] ==
            IF i = 0 THEN <<>>
            ELSE IF of(i) # 0 /\ stats[i].actionFrom # 0
            THEN Append(lines[i - 1], Marker("count", stats[i].code, of(i)))
            ELSE lines[i - 1]
    IN IF lines[Len(stats)] = <<>> THEN <<Mark("none")>> ELSE lines[Len(stats)]

\* A line for each code that was counted since the action began.
CountLines ==
    LET of(i) == stats[i].count - stats[i].actionFrom
        lines[i \in 0..Len(stats)] ==
            IF i = 0 THEN <<>>
            ELSE IF of(i) # 0
            THEN Append(lines[i - 1], Marker("count", stats[i].code, of(i)))
            ELSE lines[i - 1]
    IN IF lines[Len(stats)] = <<>> THEN <<Mark("none")>> ELSE lines[Len(stats)]

\* end_action
EndActionNow ==
    /\ UserInput /\ action /\ action' = FALSE
    /\ quiet' = (quiet /\ onTheWay = <<>>)
    /\ PushAndRebuild(<<Mark("end")>> \o CountLines, stats, calm)
    /\ UNCHANGED <<clock, driverVars, stats, boxes, learnVars>>

\* clear_session; what is on the way is counted in the new session.
ClearSessionRows ==
    /\ UserInput
    /\ stats' = [i \in DOMAIN stats |-> NewStat(stats[i].code)]
    /\ log' = [log EXCEPT !.head = 0, !.count = 0]
    /\ session' = <<>> /\ list' = <<>>
    /\ baseline' = "none" /\ calm' = {} /\ learned' = {}
    /\ action' = FALSE /\ quiet' = FALSE
    /\ UNCHANGED <<clock, driverVars, boxes, missed>>

Boxes == {"known", "baseline", "errors", "text", "pause"}

SwNext ==
    \/ TimePasses \/ TraceRequest \/ RestartTrace \/ HandleRecord
    \/ UpdateRates \/ FinishBaseline \/ BeginBaseline
    \/ \E b \in Boxes : TickBox(b)
    \/ AddMarker \/ StartActionNamed \/ EndActionNow \/ ClearSessionRows

-----------------------------------------------------------------------------
(* What is made of a session.                                               *)

\* show_trace_details: the first row with the number of the row that was clicked.
Details(row) ==
    LET rows == Retained(log)
        same == Among(rows, {r \in Range(rows) :
                  r.kind = "trace" /\ r.request.seq = row.request.seq})
    IN IF same = <<>> THEN row ELSE same[1]

\* extract_actions: the rows of a saved session by their time; those between the start
\* and the end that come last are the last action.
ByTime(rows) ==
    LET before(i, j) ==
            rows[i].time < rows[j].time \/ (rows[i].time = rows[j].time /\ i < j)
        place(i) == Cardinality({j \in DOMAIN rows : before(j, i)}) + 1
    IN [k \in DOMAIN rows |-> rows[CHOOSE i \in DOMAIN rows : place(i) = k]]

IsMark(row, text) == row.kind = "marker" /\ row.text = text
LastMark(rows, text) == SelectLastInSeq(rows, LAMBDA row : IsMark(row, text))

LastAction(rows) ==
    LET sorted == ByTime(rows) IN
    Among(SubSeq(sorted, LastMark(sorted, "start"), LastMark(sorted, "end")),
          {row \in Range(rows) : row.kind = "trace"})

-----------------------------------------------------------------------------
(* Properties.                                                              *)

Requests1(rows, code) ==
    Cardinality({k \in DOMAIN rows : rows[k].kind = "trace" /\ rows[k].request.code = code})

\* The ring has the last rows of the session, in their order.
RowsRetained == Retained(log) = LastOf(session, MaxEvents)

\* A count is the number of requests of its code since the session began.
CountsExact ==
    \A i \in DOMAIN stats : stats[i].count = Requests1(session, stats[i].code)

\* The list ends with the last row that the boxes let through and lacks none that the
\* session retains; only the baseline judges a row by more than the row.
ListComplete ==
    boxes \cap {"pause", "baseline"} = {} =>
        LET all == Shown(session, stats, calm, boxes)
            kept == LastOf(Shown(Retained(log), stats, calm, boxes), MaxLogRows) IN
        /\ IsSuffix(list, all) /\ Len(list) <= MaxLogRows
        /\ Len(list) >= Len(kept)

\* The details that a click opens are those of the row, as long as the sequence numbers
\* go on.
DetailsOfRow ==
    ~restarted => \A row \in Range(list) : row.kind = "trace" => Details(row) = row

\* The counts the window writes at the end of an action are those of the summary, if
\* nothing was on its way at either end and the action is retained.
SummaryAgrees ==
    LET rows == Retained(log)  end == LastMark(rows, "end") IN
    ~action /\ quiet /\ LastMark(rows, "start") # 0 /\ end # 0 =>
        \A i \in DOMAIN stats :
            LET line == Among(SubSeq(rows, end, Len(rows)), {row \in Range(rows) :
                          IsMark(row, "count") /\ row.code = stats[i].code})
                counted == Requests1(LastAction(rows), stats[i].code) IN
            IF counted = 0 THEN line = <<>> ELSE line # <<>> /\ line[1].n = counted

\* What a session keeps is what was traced: rows and counts are those of the requests, and
\* a request unlike any the baseline had is not hidden with it.
SessionKept == RowsRetained /\ CountsExact /\ ~missed

\* What is shown of a session is what it keeps: list, details and summary.
SessionShown == ListComplete /\ DetailsOfRow /\ SummaryAgrees
=============================================================================
