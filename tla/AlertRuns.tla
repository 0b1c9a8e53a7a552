----------------------------- MODULE AlertRuns -----------------------------
(***************************************************************************)
(* The frozen alert policy, src/src/quantis_core/                          *)
(* run_aware_alert_confirmation.py: scored windows of control runs become  *)
(* a reference, other control runs become a threshold, and the windows of  *)
(* the sealed runs are turned into at most one alert a run.                *)
(*                                                                         *)
(* A score is an integer. The logarithm of the tail probability is the     *)
(* constant Evidence: Evidence[c] stands for -log((1 + c) / (n + 1)) -     *)
(* log(4) when c of the n reference windows score at least as high, of     *)
(* which the policy uses that it falls in c and what its sums are. Alpha   *)
(* is the fraction AlphaNum / AlphaDen.                                    *)
(***************************************************************************)
EXTENDS Integers, Sequences, FiniteSets, FiniteSetsExt, SequencesExt

CONSTANTS
    Scores,            \* the scores a window may have
    ReferenceWindows,  \* windows of the score_reference controls
    Calibration,       \* control runs of the threshold_calibration pairs
    Controls,          \* control runs of the sealed_evaluation pairs
    Treatments,        \* treatment runs of the sealed_evaluation pairs
    Windows,           \* scored transitions of every run
    FirstTransition,   \* the transition index of a run's first window
    Evidence,          \* [0 .. ReferenceWindows -> Int], strictly falling
    AlphaNum, AlphaDen

Runs == Calibration \cup Controls \cup Treatments

VARIABLES
    reference,  \* the scores of the reference windows, sorted
    windows,    \* for each run, its windows in the order of transitions
    verdict     \* the assessment, once it was made

vars == <<reference, windows, verdict>>

NoVerdict == [threshold |-> 0, rows |-> <<>>]

Infinity == 1000

Init ==
    /\ reference = <<>>
    /\ windows = [run \in Runs |-> <<>>]
    /\ verdict = NoVerdict

\* The reference is a bag: it is built in the order of its scores.
ScoreReference(score) ==
    /\ Len(reference) < ReferenceWindows
    /\ reference # <<>> => Last(reference) <= score
    /\ reference' = Append(reference, score)
    /\ UNCHANGED <<windows, verdict>>

(***************************************************************************)
(* One window of a run: its score, and whether the action of its           *)
(* transition was an intervention. Only treatments have interventions, one *)
(* uninterrupted one each. Runs are scored one after the other.            *)
(***************************************************************************)
Active(run) == {i \in 1 .. Len(windows[run]) : windows[run][i].active}

ScoreWindow(run, score, active) ==
    /\ Len(reference) = ReferenceWindows
    /\ Len(windows[run]) < Windows
    /\ \A other \in Runs : Len(windows[other]) \in {0, Windows} \/ other = run
    /\ active =>
         /\ run \in Treatments
         /\ Active(run) # {} => Len(windows[run]) \in Active(run)
    /\ run \in Treatments /\ Len(windows[run]) = Windows - 1 =>
         active \/ Active(run) # {}
    /\ windows' = [windows EXCEPT ![run] =
                     Append(@, [score |-> score, active |-> active])]
    /\ UNCHANGED <<reference, verdict>>

-----------------------------------------------------------------------------
(***************************************************************************)
(* _assess_one_policy.                                                     *)
(***************************************************************************)
Increment(score) ==
    Evidence[Cardinality({i \in DOMAIN reference : reference[i] >= score})]

(* Faulty CusumStep: the sum is not reset by evidence against a change. *)
CusumWithoutReset(trace, increment) ==
    Append(trace, (IF trace = <<>> THEN 0 ELSE Last(trace)) + increment)

CusumStep(trace, increment) ==
    Append(trace,
           Max({0, (IF trace = <<>> THEN 0 ELSE Last(trace)) + increment}))

ResettableCusum(increments) == FoldLeft(CusumStep, <<>>, increments)

Trace(run) ==
    ResettableCusum([i \in DOMAIN windows[run] |->
                       Increment(windows[run][i].score)])

RunMaximum(run) == Max(ToSet(Trace(run)))

CeilDiv(a, b) == (a + b - 1) \div b

(* Faulty Rank: the order statistic of n runs, not of n plus one. *)
RankOfTheRuns(n) == CeilDiv(n * (AlphaDen - AlphaNum), AlphaDen)

Rank(n) == CeilDiv((n + 1) * (AlphaDen - AlphaNum), AlphaDen)

\* The threshold of the maxima of some runs, and infinity for too few runs.
ConformalRunThreshold(runs) ==
    LET n == Cardinality(runs)
        AtMost(x) == {run \in runs : RunMaximum(run) <= x}
        maxima == {RunMaximum(run) : run \in runs}
    IN IF Rank(n) > n THEN Infinity
       ELSE Min({x \in maxima : Cardinality(AtMost(x)) >= Rank(n)})

Crosses(value, threshold) == value > threshold

\* An alert is known with the state after the transition it is about.
Crossings(run, threshold) ==
    SelectSeq([i \in 1 .. Windows |-> FirstTransition + i],
              LAMBDA t : Crosses(Trace(run)[t - FirstTransition], threshold))

None == -1

Transition(i) == FirstTransition + i - 1

(* Faulty AlertRow: the alert is compared by the transition it is about. *)
AlertAtItsTransition(run, threshold) ==
    LET crossings == Crossings(run, threshold)
        treatment == Active(run) # {}
        onset == Transition(Min(Active(run)))
        stop == Transition(Max(Active(run)))
        first == IF crossings = <<>> THEN None ELSE Head(crossings)
        detected == treatment /\ first # None /\ first > onset
    IN [first |-> first,
        preOnset |-> treatment /\ first # None /\ first <= onset,
        detected |-> detected,
        whileActive |-> detected /\ first - 1 <= stop,
        delay |-> IF detected THEN first - onset ELSE None]

AlertRow(run, threshold) ==
    LET crossings == Crossings(run, threshold)
        treatment == Active(run) # {}
        onset == Transition(Min(Active(run)))
        stop == Transition(Max(Active(run)))
        first == IF crossings = <<>> THEN None ELSE Head(crossings)
        detected == treatment /\ first # None /\ first > onset
    IN [first |-> first,
        preOnset |-> treatment /\ first # None /\ first <= onset,
        detected |-> detected,
        whileActive |-> detected /\ first <= stop,
        delay |-> IF detected THEN first - onset ELSE None]

Assess ==
    /\ verdict = NoVerdict
    /\ \A run \in Runs : Len(windows[run]) = Windows
    /\ LET threshold == ConformalRunThreshold(Calibration)
       IN verdict' = [threshold |-> threshold,
                      rows |-> [run \in Controls \cup Treatments |->
                                  AlertRow(run, threshold)]]
    /\ UNCHANGED <<reference, windows>>

Next ==
    \/ \E score \in Scores : ScoreReference(score)
    \/ \E run \in Runs, score \in Scores, active \in BOOLEAN :
         ScoreWindow(run, score, active)
    \/ Assess

Spec == Init /\ [][Next]_vars

-----------------------------------------------------------------------------
(***************************************************************************)
(* Properties.                                                             *)
(***************************************************************************)
Assessed == verdict # NoVerdict
Evaluated == Controls \cup Treatments

\* A row's alert is at a transition of the run, a delay belongs to a
\* detection, and a treatment's alert is either too early or a detection.
TypeOK ==
    /\ \A run \in Runs : Len(windows[run]) <= Windows
    /\ Assessed =>
         /\ verdict.threshold \in Nat
         /\ \A run \in Evaluated :
              LET row == verdict.rows[run] IN
              /\ row.first \in {None} \cup 1 .. FirstTransition + Windows
              /\ row.detected <=> row.delay > 0
              /\ ~(row.preOnset /\ row.detected)

\* The evidence of windows i to j of a run, added up.
Sum(run, i, j) ==
    FoldLeft(LAMBDA total, k : total + Increment(windows[run][k].score),
             0, [k \in 1 .. j - i + 1 |-> i + k - 1])

\* Some stretch of windows that ends at window j adds up to more than the
\* threshold.
Alarming(run, j) == \E i \in 1 .. j : Sum(run, i, j) > verdict.threshold

\* A run's alert is the first window at which some stretch of windows ending
\* there holds more evidence than the threshold, and is dated one transition
\* later; a run without such a stretch has none. About resettable_cusum, its
\* strict crossing and the latch.
AlertIsFirstStretch ==
    Assessed =>
      \A run \in Evaluated :
        LET alarming == {j \in 1 .. Windows : Alarming(run, j)}
        IN verdict.rows[run].first =
             IF alarming = {} THEN None ELSE FirstTransition + Min(alarming)

\* Whichever of the calibration runs and one sealed control had been the
\* sealed one, at most a fraction alpha of these choices gives a false alarm:
\* the finite-sample bound the threshold is chosen for. About the rank of
\* conformal_run_threshold and ties at the strict crossing.
FalseAlarmsAreBounded ==
    Assessed =>
      \A control \in Controls :
        LET runs == Calibration \cup {control}
            alarms == {run \in runs :
                         Crosses(RunMaximum(run),
                                 ConformalRunThreshold(runs \ {run}))}
        IN /\ Cardinality(alarms) * AlphaDen <= AlphaNum * Cardinality(runs)
           /\ control \in alarms <=> verdict.rows[control].first # None

\* A treatment is detected only by an alert whose window saw the
\* intervention, when no window before it had raised the alert; it is
\* detected while active only if the state that raised it was seen no later
\* than the last transition of the intervention. About the comparisons of
\* alert times, one ahead of transitions, with transition indices.
DetectionsSawTheFault ==
    Assessed =>
      \A run \in Treatments :
        LET row == verdict.rows[run]
            alarming == {j \in 1 .. Windows : Alarming(run, j)}
        IN /\ row.detected <=>
                /\ alarming # {}
                /\ \A j \in alarming : \E i \in Active(run) : i <= j
           /\ row.whileActive <=>
                row.detected /\ (\E i \in Active(run) : i > Min(alarming))
           /\ row.preOnset <=> alarming # {} /\ ~row.detected
=============================================================================
