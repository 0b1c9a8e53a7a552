------------------------------ MODULE MCTelemetry ------------------------------
(* Instances of what happens to telemetry for TLC, side by side: the trace    *)
(* audit (TraceAudit, with the constants of the cfg and one more instance),   *)
(* metric windows (MetricWindows), alerts (AlertRuns) and the gauges of the   *)
(* graph lab (GraphGauges).  The variable part says which one a behaviour is  *)
(* of; the state of the others is left empty.                                 *)
EXTENDS TraceAudit, Integers, TLC

CONSTANTS w1, w2

VARIABLES
  part,
  now, process, sent, capture, used, compiled, filled,
  reference, windows, verdict,
  inflight, peak, busy, counters, gaugeQueue, rows, handlerPc, failed, takerPc, held,
  dying, runner, window, row, previous, most, lost, swallowed, gaugeFaults

metricVars == <<now, process, sent, capture, used, compiled, filled>>
alertVars == <<reference, windows, verdict>>
gaugeVars == <<inflight, peak, busy, counters, gaugeQueue, rows, handlerPc, failed, takerPc,
               held, dying, runner, window, row, previous, most, lost, swallowed,
               gaugeFaults>>

-----------------------------------------------------------------------------
(* Two workers and no failing call. *)
Losses == INSTANCE TraceAudit WITH Workers <- {w1, w2}, MaxFaults <- 0

TraceSymmetry == Permutations(Requests)

(* Counters of a process that may restart and stamps its points. *)
Sums == INSTANCE MetricWindows WITH
  Statistic <- "sum_rate", Stamped <- TRUE, Period <- 2, LastTick <- 4, Sizes <- {1},
  MaxGap <- 1, MaxSent <- 2, MaxWork <- 3, MaxRestarts <- 1, MaxFlagged <- 1, MaxLost <- 0,
  MaxCopies <- 0

(* Points without a start time. *)
Unstamped == INSTANCE MetricWindows WITH
  Statistic <- "histogram_mean", Stamped <- FALSE, Period <- 2, LastTick <- 4,
  Sizes <- {1, 3}, MaxGap <- 1, MaxSent <- 1, MaxWork <- 3, MaxRestarts <- 1,
  MaxFlagged <- 1, MaxLost <- 0, MaxCopies <- 0

(* Captures the compiler may refuse: copies, and two restarts. *)
Refused == INSTANCE MetricWindows WITH
  Statistic <- "histogram_mean", Stamped <- FALSE, Period <- 2, LastTick <- 3,
  Sizes <- {1, 3}, MaxGap <- 1, MaxSent <- 2, MaxWork <- 3, MaxRestarts <- 2,
  MaxFlagged <- 2, MaxLost <- 0, MaxCopies <- 1

(* Three windows, a lost and a flagged point: something to fill. *)
Filled == INSTANCE MetricWindows WITH
  Statistic <- "histogram_count_rate", Stamped <- TRUE, Period <- 2, LastTick <- 6,
  Sizes <- {1}, MaxGap <- 1, MaxSent <- 1, MaxWork <- 1, MaxRestarts <- 1,
  MaxFlagged <- 1, MaxLost <- 1, MaxCopies <- 0

(* Two reference windows: strong, some and no evidence of a change. *)
ThreeDegrees == [c \in 0 .. 2 |-> 2 - 2 * c + (IF c = 1 THEN 1 ELSE 0)]

(* Three calibration runs and a control. *)
Bounded == INSTANCE AlertRuns WITH
  Scores <- 1 .. 3, ReferenceWindows <- 2, Calibration <- {"c1", "c2", "c3"},
  Controls <- {"k"}, Treatments <- {}, Windows <- 2, FirstTransition <- 0,
  Evidence <- ThreeDegrees, AlphaNum <- 1, AlphaDen <- 3

(* One calibration run and a longer treatment. *)
Detected == INSTANCE AlertRuns WITH
  Scores <- 1 .. 2, ReferenceWindows <- 2, Calibration <- {"c1"},
  Controls <- {}, Treatments <- {"t"}, Windows <- 4, FirstTransition <- 1,
  Evidence <- ThreeDegrees, AlphaNum <- 1, AlphaDen <- 2

(* Three requests in two windows, and nobody takes them. *)
Gauges == INSTANCE GraphGauges WITH
  Requests <- 1 .. 3, Workers <- {}, WindowOf <- <<1, 1, 2>>, WindowCount <- 2,
  Nothing <- 0, MaxFaults <- 2,
  queue <- gaugeQueue, table <- rows, apiPc <- handlerPc, workerPc <- takerPc,
  hand <- held, faults <- gaugeFaults

(* Two requests in one window, and a worker. *)
Rows == INSTANCE GraphGauges WITH
  Requests <- 1 .. 2, Workers <- {"w"}, WindowOf <- <<1, 1>>, WindowCount <- 1,
  Nothing <- 0, MaxFaults <- 1,
  queue <- gaugeQueue, table <- rows, apiPc <- handlerPc, workerPc <- takerPc,
  hand <- held, faults <- gaugeFaults

-----------------------------------------------------------------------------
NoMetrics ==
  /\ now = 0 /\ process = 0 /\ sent = 0 /\ capture = 0 /\ used = 0 /\ compiled = 0
  /\ filled = 0
NoAlerts == reference = 0 /\ windows = 0 /\ verdict = 0
NoGauges ==
  /\ inflight = 0 /\ peak = 0 /\ busy = 0 /\ counters = 0 /\ gaugeQueue = 0 /\ rows = 0
  /\ handlerPc = 0 /\ failed = 0 /\ takerPc = 0 /\ held = 0 /\ dying = 0 /\ runner = 0
  /\ window = 0 /\ row = 0 /\ previous = 0 /\ most = 0 /\ lost = 0 /\ swallowed = 0
  /\ gaugeFaults = 0

traceParts == {"own", "losses"}
metricParts == {"sums", "unstamped", "refused", "filled"}
alertParts == {"bounded", "detected"}
gaugeParts == {"gauges", "rows"}

TelemetryInit ==
  /\ part \in traceParts \cup metricParts \cup alertParts \cup gaugeParts
  /\ IF part = "losses" THEN Losses!Init ELSE Init
  /\ IF part \in metricParts THEN Sums!Init ELSE NoMetrics
  /\ CASE part = "bounded" -> Bounded!Init
       [] part = "detected" -> Detected!Init
       [] OTHER -> NoAlerts
  /\ CASE part = "gauges" -> Gauges!Init
       [] part = "rows" -> Rows!Init
       [] OTHER -> NoGauges

TelemetryNext ==
  /\ UNCHANGED part
  /\ \/ /\ \/ part = "own" /\ Next
           \/ part = "losses" /\ Losses!Next
        /\ UNCHANGED <<metricVars, alertVars, gaugeVars>>
     \/ /\ \/ part = "sums" /\ Sums!Next
           \/ part = "unstamped" /\ Unstamped!Next
           \/ part = "refused" /\ Refused!Next
           \/ part = "filled" /\ Filled!Next
        /\ UNCHANGED <<vars, alertVars, gaugeVars>>
     \/ /\ \/ part = "bounded" /\ Bounded!Next
           \/ part = "detected" /\ Detected!Next
        /\ UNCHANGED <<vars, metricVars, gaugeVars>>
     \/ /\ \/ part = "gauges" /\ Gauges!Next
           \/ part = "rows" /\ Rows!Next
        /\ UNCHANGED <<vars, metricVars, alertVars>>

TelemetrySpec ==
  TelemetryInit /\ [][TelemetryNext]_<<part, vars, metricVars, alertVars, gaugeVars>>

-----------------------------------------------------------------------------
(* The invariants, of the instance a behaviour is of. *)

(* The state has its type; a complete trace is a completed checkout; without  *)
(* failures an answered request leaves its root span and only a known race    *)
(* makes a trace incomplete (see TraceAudit).                                 *)
TracesAreSound ==
  CASE part = "own" -> TypeOK /\ AuditIsSound
    [] part = "losses" ->
         Losses!TypeOK /\ Losses!LossesAreExplained /\ Losses!AnswersLeaveRoots
    [] OTHER -> TRUE

(* The state has its type.  Metric windows hold the work that was done in them *)
(* and no other, a capture is refused for a reason, and a gap is filled from  *)
(* its own life of the process (see MetricWindows).  The share of false       *)
(* alarms in the calibration is bounded, an alert is at the end of the first  *)
(* alarming stretch, and a detection has seen the fault (see AlertRuns).      *)
SeriesAreSound ==
  CASE part = "sums" -> Sums!TypeOK /\ Sums!WindowsHoldTheWork
    [] part = "unstamped" -> Unstamped!TypeOK /\ Unstamped!WindowsNeverInventWork
    [] part = "refused" -> Refused!TypeOK /\ Refused!RefusalsAreExplained
    [] part = "filled" -> Filled!TypeOK /\ Filled!FillsStayInOneLife
    [] part = "bounded" ->
         /\ Bounded!TypeOK /\ Bounded!FalseAlarmsAreBounded /\ Bounded!AlertIsFirstStretch
    [] part = "detected" ->
         /\ Detected!TypeOK /\ Detected!AlertIsFirstStretch
         /\ Detected!DetectionsSawTheFault
    [] OTHER -> TRUE

(* The state has its type; the in-flight count drifts by lost updates only, a *)
(* peak is of its own window, handlers that are sampled have answered, a busy *)
(* field is of a worker at work, and the readings of a row agree with each    *)
(* other and with the path of an item (see GraphGauges).                      *)
GaugesAreSound ==
  CASE part = "gauges" ->
         /\ Gauges!TypeOK /\ Gauges!InflightDriftIsExplained /\ Gauges!PeakIsOfItsWindow
         /\ Gauges!SampledHandlersHaveAnswered
    [] part = "rows" ->
         /\ Rows!TypeOK /\ Rows!InflightDriftIsExplained /\ Rows!PeakIsOfItsWindow
         /\ Rows!SampledHandlersHaveAnswered /\ Rows!BusyIsExplained
         /\ Rows!RowReadsAgree /\ Rows!CountersFollowThePath
    [] OTHER -> TRUE
=============================================================================
