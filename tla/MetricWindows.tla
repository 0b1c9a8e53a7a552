--------------------------- MODULE MetricWindows ---------------------------
(***************************************************************************)
(* From a counter in a process to a row of model inputs: a process counts  *)
(* its work in a cumulative OTLP metric and exports points of it, it may   *)
(* restart (its counter starts again from nothing, with a new start time), *)
(* points may be flagged as holding no value, lost, delivered twice or out *)
(* of order, and OtlpWindowCompiler.compile turns the capture into one     *)
(* value per event-time window. materialize_compiled_telemetry then fills  *)
(* the empty windows forward, within a limit.                              *)
(*                                                                         *)
(* The process and its exporter are external; the compiler and the fill    *)
(* are src/src/quantis_core/otlp_windowing.py. A value is kept as the      *)
(* fraction the code divides out: its numerator and its denominator.       *)
(***************************************************************************)
EXTENDS Integers, Sequences, FiniteSets, FiniteSetsExt, SequencesExt

CONSTANTS
    Statistic,   \* sum_rate, histogram_count_rate or histogram_mean
    Stamped,     \* whether the exporter writes startTimeUnixNano
    Period,      \* ticks in a window
    LastTick,    \* the capture ends at this tick
    Sizes,       \* what one unit of work may add to the histogram's sum
    MaxGap,      \* ForwardFillPolicy.max_gap_windows
    MaxSent,     \* points on their way at a time
    MaxWork, MaxRestarts, MaxFlagged, MaxLost, MaxCopies

VARIABLES
    now,        \* the clock
    process,    \* [life, begun, count, sum]: the counting process
    sent,       \* points exported and not yet written to the capture
    capture,    \* the points of the capture file, in file order
    used,       \* how often the environment did what it may do a few times
    compiled,   \* the CompiledTelemetry, once compile ran
    filled      \* the MaterializedTelemetry, once the fill ran

vars == <<now, process, sent, capture, used, compiled, filled>>

(***************************************************************************)
(* A point. "life" is not in the file: it is which run of the process the  *)
(* point is of, and only the properties read it.                           *)
(***************************************************************************)
Point(flagged) ==
    [time |-> now,
     start |-> IF Stamped THEN process.begun ELSE 0,
     count |-> IF flagged THEN 0 ELSE process.count,
     sum |-> IF flagged THEN 0 ELSE process.sum,
     flagged |-> flagged,
     life |-> process.life]

Init ==
    /\ now = 1
    /\ process = [life |-> 1, begun |-> 1, count |-> 0, sum |-> 0]
    /\ sent = {}
    /\ capture = <<>>
    /\ used = [work |-> 0, restarts |-> 0, flagged |-> 0, lost |-> 0,
               copies |-> 0]
    /\ compiled = <<>>
    /\ filled = <<>>

Capturing == compiled = <<>>

Spend(kind, limit) ==
    /\ used[kind] < limit
    /\ used' = [used EXCEPT ![kind] = @ + 1]

Tick ==
    /\ Capturing
    /\ now < LastTick
    /\ now' = now + 1
    /\ UNCHANGED <<process, sent, capture, used, compiled, filled>>

Work(size) ==
    /\ Capturing
    /\ Spend("work", MaxWork)
    /\ process' = [process EXCEPT !.count = @ + 1, !.sum = @ + size]
    /\ UNCHANGED <<now, sent, capture, compiled, filled>>

\* A restart is never in the tick the last one was: start times differ.
Restart ==
    /\ Capturing
    /\ process.begun < now
    /\ Spend("restarts", MaxRestarts)
    /\ process' = [life |-> process.life + 1, begun |-> now, count |-> 0,
                   sum |-> 0]
    /\ UNCHANGED <<now, sent, capture, compiled, filled>>

\* One export a tick: the reader's interval is at least a tick.
Export(flagged) ==
    /\ Capturing
    /\ Cardinality(sent) < MaxSent
    /\ \A p \in sent \cup ToSet(capture) : p.time # now
    /\ IF flagged THEN Spend("flagged", MaxFlagged) ELSE UNCHANGED used
    /\ sent' = sent \cup {Point(flagged)}
    /\ UNCHANGED <<now, process, capture, compiled, filled>>

\* The collector writes a point to the file, in whatever order they come.
Deliver(p) ==
    /\ Capturing
    /\ sent' = sent \ {p}
    /\ capture' = Append(capture, p)
    /\ UNCHANGED <<now, process, used, compiled, filled>>

\* The exporter's request was served and its answer lost: it sends it again.
DeliverTwice(p) ==
    /\ Capturing
    /\ Spend("copies", MaxCopies)
    /\ sent' = sent \ {p}
    /\ capture' = capture \o <<p, p>>
    /\ UNCHANGED <<now, process, compiled, filled>>

Lose(p) ==
    /\ Capturing
    /\ Spend("lost", MaxLost)
    /\ sent' = sent \ {p}
    /\ UNCHANGED <<now, process, capture, compiled, filled>>

-----------------------------------------------------------------------------
(***************************************************************************)
(* The compiler.                                                           *)
(***************************************************************************)
\* A value is a fraction; the code's NaN is the one with denominator zero.
NaN == [num |-> 0, den |-> 0]

(* Faulty MatchingPoints: the points are read in the order of the file. *)
UnsortedPoints == capture

MatchingPoints == SortSeq(capture, LAMBDA p, q : p.time < q.time)

(* Faulty WindowEnd: a point on a boundary falls into the next window. *)
FloorWindow(time) == time \div Period + 1

\* Windows are numbered from one; window n ends at n * Period.
WindowEnd(time) == (time + Period - 1) \div Period

(* Faulty ValuesDecreased: only the count of a histogram is compared. *)
CountDecreased(previous, point) == point.count < previous.count

ValuesDecreased(previous, point) ==
    \/ point.count < previous.count
    \/ /\ Statistic = "histogram_mean"
       /\ point.sum < previous.sum

IntervalValue(previous, point) ==
    IF Statistic = "histogram_mean"
    THEN [num |-> point.sum - previous.sum,
          den |-> point.count - previous.count]
    ELSE [num |-> point.count - previous.count,
          den |-> point.time - previous.time]

\* What the loop over a cumulative stream carries: the last point, flagged or
\* not, the last one to subtract from, and what it has found so far.
StreamStart ==
    [stream |-> <<>>, valid |-> <<>>, values |-> <<>>, resets |-> {},
     refused |-> FALSE]

(* Faulty CumulativeStep: a new start time does not forget the last value. *)
KeepsTheBase(s, point) ==
    LET decreased == /\ s.valid # <<>>
                     /\ ~point.flagged
                     /\ ValuesDecreased(s.valid[1], point)
        value == IntervalValue(s.valid[1], point)
        next == [s EXCEPT
                   !.stream = <<point>>,
                   !.valid = IF point.flagged THEN @ ELSE <<point>>,
                   !.resets = IF decreased THEN @ \cup {point.time} ELSE @]
    IN CASE s.refused -> s
         [] point.flagged \/ s.valid = <<>> \/ decreased -> next
         [] OTHER -> [next EXCEPT !.values =
                        Append(@, [time |-> point.time, value |-> value])]

CumulativeStep(s, point) ==
    LET restarted == s.stream # <<>> /\ s.stream[1].start # point.start
        valid == IF restarted THEN <<>> ELSE s.valid
        decreased == /\ valid # <<>>
                     /\ ~point.flagged
                     /\ ValuesDecreased(valid[1], point)
        value == IntervalValue(valid[1], point)
        next == [s EXCEPT
                   !.stream = <<point>>,
                   !.valid = IF point.flagged THEN valid ELSE <<point>>,
                   !.resets = IF restarted \/ decreased
                              THEN @ \cup {point.time} ELSE @]
    IN CASE s.refused -> s
         [] s.stream # <<>> /\ point.time <= s.stream[1].time ->
              [s EXCEPT !.refused = TRUE]
         [] point.flagged \/ valid = <<>> \/ decreased -> next
         [] value.den <= 0 -> [s EXCEPT !.refused = TRUE]
         [] OTHER -> [next EXCEPT !.values =
                        Append(@, [time |-> point.time, value |-> value])]

CumulativeObservations ==
    FoldLeft(CumulativeStep, StreamStart, MatchingPoints)

Matrix(found, resets) ==
    LET ends == {WindowEnd(p.time) : p \in ToSet(capture)}
        InWindow(n) ==
            SelectSeq(found.values, LAMBDA o : WindowEnd(o.time) = n)
    IN [values |-> [n \in Min(ends) .. Max(ends) |->
                      IF InWindow(n) = <<>> THEN NaN
                      ELSE Last(InWindow(n)).value],
        resets |-> resets]

(* Faulty CompiledWindows: a reset is marked at its time, not its window. *)
ResetsAtTimes == Matrix(CumulativeObservations, CumulativeObservations.resets)

\* The matrix: the last observation of a window is the one that stays.
CompiledWindows ==
    LET found == CumulativeObservations
    IN Matrix(found, {WindowEnd(time) : time \in found.resets})

Refused == [values |-> <<>>, resets |-> {}]

Compile ==
    /\ Capturing
    /\ now = LastTick
    /\ compiled' = IF capture = <<>> \/ CumulativeObservations.refused
                   THEN Refused ELSE CompiledWindows
    /\ UNCHANGED <<now, process, sent, capture, used, filled>>

Compiled == compiled # <<>> /\ compiled # Refused

(***************************************************************************)
(* materialize_compiled_telemetry, for one feature.                        *)
(***************************************************************************)
FillStart == [last |-> NaN, gap |-> 0, values |-> <<>>, refused |-> FALSE]

(* Faulty FillStep: a reset does not end the fill. *)
FillsAcrossResets(s, n) ==
    LET seen == compiled.values[n]
        gap == s.gap + 1
    IN CASE s.refused -> s
         [] seen # NaN -> [s EXCEPT !.last = seen, !.gap = 0,
                                    !.values = Append(@, seen)]
         [] s.last = NaN \/ gap > MaxGap -> [s EXCEPT !.refused = TRUE]
         [] OTHER -> [s EXCEPT !.gap = gap, !.values = Append(@, s.last)]

FillStep(s, n) ==
    LET last == IF n \in compiled.resets THEN NaN ELSE s.last
        gap == (IF n \in compiled.resets THEN 0 ELSE s.gap) + 1
        seen == compiled.values[n]
    IN CASE s.refused -> s
         [] seen # NaN -> [s EXCEPT !.last = seen, !.gap = 0,
                                    !.values = Append(@, seen)]
         [] last = NaN \/ gap > MaxGap -> [s EXCEPT !.refused = TRUE]
         [] OTHER -> [s EXCEPT !.last = last, !.gap = gap,
                               !.values = Append(@, last)]

Windows == DOMAIN compiled.values

WindowsInOrder == [i \in 1 .. Cardinality(Windows) |-> Min(Windows) + i - 1]

Materialize ==
    /\ Compiled
    /\ filled = <<>>
    /\ filled' = FoldLeft(FillStep, FillStart, WindowsInOrder)
    /\ UNCHANGED <<now, process, sent, capture, used, compiled>>

Next ==
    \/ Tick
    \/ \E size \in Sizes : Work(size)
    \/ Restart
    \/ \E flagged \in BOOLEAN : Export(flagged)
    \/ \E p \in sent : Deliver(p) \/ DeliverTwice(p) \/ Lose(p)
    \/ Compile
    \/ Materialize

Spec == Init /\ [][Next]_vars

-----------------------------------------------------------------------------
(***************************************************************************)
(* Properties.                                                             *)
(***************************************************************************)
\* The clock, the process and the file hold what their readers expect, and
\* a matrix has one cell for every window between its first and its last.
TypeOK ==
    /\ now \in 1 .. LastTick
    /\ process.life \in 1 .. MaxRestarts + 1
    /\ process.begun \in 1 .. now
    /\ \A p \in sent \cup ToSet(capture) :
         p.time \in 1 .. now /\ p.life \in 1 .. process.life
    /\ Compiled => /\ Windows = Min(Windows) .. Max(Windows)
                   /\ compiled.resets \subseteq Windows
    /\ filled # <<>> /\ ~filled.refused =>
         Len(filled.values) = Cardinality(Windows)

Points == ToSet(capture)
Valued == {p \in Points : ~p.flagged}
In(p, n) == (n - 1) * Period < p.time /\ p.time <= n * Period

\* q is the last valued point before p.
Before(q, p) ==
    /\ q.time < p.time
    /\ \A r \in Valued : r.time <= q.time \/ r.time >= p.time

\* What a window should hold: the change between the last two valued points
\* of one run of the process, the later one the last such in the window.
Ends(n) == {p \in Valued :
              In(p, n) /\ \E q \in Valued : Before(q, p) /\ q.life = p.life}
LastEnd(n) == CHOOSE p \in Ends(n) : \A r \in Ends(n) : r.time <= p.time
Change(n) == LET p == LastEnd(n)
             IN IntervalValue(CHOOSE q \in Valued : Before(q, p), p)

\* When the exporter writes start times, a window of the matrix holds the
\* work one run of the process did between its last two valued points, and
\* is missing when there are none: restarts, flagged, lost and reordered
\* points never put another number there. About the order of the reset test,
\* the flag test and the two "previous" points of _cumulative_observations.
WindowsHoldTheWork ==
    Compiled /\ Stamped =>
      \A n \in Windows :
        compiled.values[n] = IF Ends(n) = {} THEN NaN ELSE Change(n)

\* With or without start times, the change a window reports is never
\* negative and never more than the processes did between the two points it
\* is the change between. About _values_decreased, the only reset test left
\* when no start time is written.
WindowsNeverInventWork ==
    Compiled =>
      \A n \in Windows :
        compiled.values[n] # NaN =>
          \E p, q \in Valued :
            /\ In(p, n)
            /\ Before(q, p)
            /\ compiled.values[n] = IntervalValue(q, p)
            /\ compiled.values[n].num >= 0
            /\ p.life # q.life =>
                 compiled.values[n].num <=
                   (IF Statistic = "histogram_mean" THEN p.sum ELSE p.count)

\* A capture is refused exactly when it is empty, holds two points of one
\* time (a redelivered export), or asks for the mean of an interval without
\* work; no restart, flag or loss is a reason. About the raises of compile.
RefusalsAreExplained ==
    compiled # <<>> =>
      (compiled = Refused
         <=> \/ capture = <<>>
             \/ Cardinality(Points) < Len(capture)
             \/ /\ Statistic = "histogram_mean"
                /\ \E p, q \in Valued :
                     /\ Before(q, p)
                     /\ p.start = q.start
                     /\ p.count = q.count
                     /\ p.sum >= q.sum)

Filled == filled # <<>> /\ ~filled.refused
FilledAt(n) == filled.values[n - Min(Windows) + 1]

\* A filled cell repeats the last observed cell, at most MaxGap windows back,
\* and the file has no point of another run of the process after that window,
\* up to the filled one. About the reset mask the fill reads. It is one bit a
\* window: when the window the value comes from holds a restart too, the
\* value may be from before it, and nothing is claimed of that window.
FillsStayInOneLife ==
    Filled =>
      \A n \in Windows :
        compiled.values[n] = NaN =>
          \E s \in Windows :
            /\ s < n
            /\ n - s <= MaxGap
            /\ compiled.values[s] # NaN
            /\ \A m \in s + 1 .. n : compiled.values[m] = NaN
            /\ FilledAt(n) = compiled.values[s]
            /\ \/ s \in compiled.resets
               \/ \A p, q \in Points :
                    (\E m \in s .. n : In(p, m)) /\ (\E m \in s .. n : In(q, m))
                      => p.life = q.life
=============================================================================
