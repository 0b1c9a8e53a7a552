------------------------------- MODULE CaptureRun -------------------------------
(***************************************************************************)
(* One capture of the action-dynamics lab                                  *)
(* (src/lab/action_dynamics/run_capture.py): the runner waits for the      *)
(* stack, resets it, and then, window after window, issues the commands    *)
(* that are due, sends the window's requests, waits for their answers,     *)
(* reads the counters, the rows and the gauges, and emits one sample.      *)
(* Whatever happens, it closes the controller at the end.                  *)
(*                                                                         *)
(* The module composes the runner with the application (CheckoutPipeline)  *)
(* and the intervention controller (Interventions), which share Redis and  *)
(* PostgreSQL.  The controller is called in the runner's own thread; it    *)
(* takes the place of the application's Environment.                       *)
(***************************************************************************)
EXTENDS CheckoutPipeline

CONSTANTS
  Actions, Kind, PauseFraction, NoAction,   \* of Interventions
  PointCount,       \* point_count: number of samples
  Plans,            \* request schedules: the transition at which each request
                    \* is sent, PointCount for a request a plan does not have
  Start, Stop,      \* start_index and stop_index of each action
  RejectedTokens,   \* requests whose draw is below the rejection probability
  MaxScheduled      \* bound: actions of one case

ASSUME ScheduleAssumption ==
  /\ PointCount \in Nat /\ PointCount >= 2
  /\ Plans \subseteq [Requests -> (0 .. PointCount - 2) \cup {PointCount}]
  /\ Start \in [Actions -> Nat] /\ Stop \in [Actions -> Nat]
  /\ \A a \in Actions : Start[a] < Stop[a] /\ Stop[a] + 1 < PointCount
  /\ RejectedTokens \subseteq Requests

VARIABLES
  \* the controller
  keys, active, session, realized, registered, commandIds, evidence, call,
  \* the runner
  runner,       \* its next step
  failing,      \* an exception is on its way through main
  plan,         \* the request schedule of the case
  scheduled,    \* the actions of the case
  pending,      \* their commands that are not yet issued
  timedOut,     \* requests whose client gave up
  previous, current,   \* counters and rows of the last window and of this one
  reading,      \* the gauges _sample has read
  emitted       \* samples the collector has

shared  == <<paused, lockOwner, instances, faults>>
appOwn  == <<queue, inflight, peak, counters, busy, writeBusy, table, apiPc, status,
             workerPc, hand, writeFailed, pausedTakes, interventions>>
ctlOwn  == <<keys, rejecting, active, session, realized, registered, commandIds, evidence,
             call>>
samples == <<previous, current, reading, emitted>>
runnerVars == <<runner, failing, plan, scheduled, pending, timedOut, samples>>
captureVars == <<shared, appOwn, ctlOwn, runnerVars>>

Ctl == INSTANCE Interventions

ASSUME ActionsAssumption ==
  /\ Actions \subseteq Nat /\ IsFiniteSet(Actions)
  /\ NoAction \notin Actions
  /\ Kind \in [Actions -> Ctl!Kinds]

ASSUME FractionAssumption ==
  /\ PauseFraction \in Nat \X Nat
  /\ 0 < PauseFraction[1] /\ PauseFraction[1] <= PauseFraction[2]

(* The rejection control, as the API's draw sees it. *)
Rejected == IF keys["api_rejection"] = NoAction THEN {} ELSE RejectedTokens

RunnerSteps ==
  {"boot", "reset", "truncate", "rejoin", "baseline", "baselineRows", "opening",
   "commands", "await", "counters", "rows", "busy", "gauges", "live", "current",
   "peak", "emit", "errors", "closing", "closed", "done", "failed"}

Counts == [counters : [CounterNames -> Nat], rows : Nat]
NoCounts == [counters |-> [c \in CounterNames |-> 0], rows |-> 0]
NoReading == [busy |-> 0, inflight |-> 0, peak |-> 0, depth |-> 0, level |-> 0]

CaptureTypeOK ==
  /\ TypeOK
  /\ Ctl!TypeOK
  /\ runner \in RunnerSteps
  /\ failing \in BOOLEAN
  /\ plan \in Plans
  /\ scheduled \in SUBSET Actions
  /\ pending \in SUBSET (scheduled \X {"start", "stop"})
  /\ timedOut \in SUBSET Requests
  /\ previous \in Counts /\ current \in Counts
  /\ reading \in [{"busy", "inflight", "peak", "depth", "level"} -> Nat]
  /\ emitted \in 0 .. PointCount

Overlap(a, b) == Start[a] < Stop[b] /\ Start[b] < Stop[a]

(* A case schedules actions that do not overlap. *)
CaptureInit ==
  /\ Ctl!Init
  /\ Init
  /\ runner = "boot"
  /\ failing = FALSE
  /\ plan \in Plans
  /\ scheduled \in {A \in SUBSET Actions :
                      /\ Cardinality(A) <= MaxScheduled
                      /\ \A a, b \in A : a # b => ~Overlap(a, b)}
  /\ pending = scheduled \X {"start", "stop"}
  /\ timedOut = {}
  /\ previous = NoCounts
  /\ current = NoCounts
  /\ reading = NoReading
  /\ emitted = 0

-----------------------------------------------------------------------------
At(step) == runner = step
Goto(step) == runner' = step /\ UNCHANGED failing

(* An exception inside the try of main: the finally clause runs. *)
Raises == runner' = "closing" /\ failing' = TRUE

(* An exception outside it ends the process. *)
Aborts == runner' = "failed" /\ failing' = TRUE

(* The loop variable transition_index: samples are numbered from 0. *)
transition == emitted - 1

-----------------------------------------------------------------------------
(* _wait_until_ready, _reset and the baseline *)

(* _active_worker_count drops the registrations that are overdue. *)
DropOverdue == \E stale \in SUBSET Overdue : instances' = instances \ stale

(* Faulty WaitForWorkers: the poll has no last attempt. *)
WaitForWorkersForever(step, next) ==
  /\ At(step)
  /\ Works /\ instances = Workers /\ Goto(next)
  /\ UNCHANGED <<paused, lockOwner, instances, appOwn, ctlOwn, plan, scheduled, pending,
                 timedOut, samples>>

(* Polling for the workers to be registered; after the last attempt it gives *)
(* up: a dead worker never comes back, a slow stack counts as a fault.       *)
WaitForWorkers(step, next) ==
  /\ At(step)
  /\ \/ Works /\ instances = Workers /\ Goto(next) /\ UNCHANGED instances
     \/ Breaks /\ DropOverdue /\ Aborts
     \/ Works /\ DropOverdue /\ Aborts
        /\ instances' # Workers
        /\ \E w \in Workers : workerPc[w] = "dead"
  /\ UNCHANGED <<paused, lockOwner, appOwn, ctlOwn, plan, scheduled, pending, timedOut, samples>>

(* One DELETE of every key of the lab. *)
Reset ==
  LET Delete ==
        /\ queue' = <<>> /\ counters' = NoCounts.counters
        /\ inflight' = 0 /\ peak' = 0
        /\ instances' = {} /\ busy' = {} /\ writeBusy' = {}
        /\ paused' = {} /\ keys' = [k \in Ctl!KeyKinds |-> NoAction] /\ rejecting' = {}
      deleted == <<queue, counters, inflight, peak, instances, busy, writeBusy, paused, keys,
                   rejecting>>
  IN  /\ At("reset")
      /\ \/ Works /\ Delete /\ Goto("truncate")
         \/ Breaks /\ (Delete \/ UNCHANGED deleted) /\ Aborts
      /\ UNCHANGED <<lockOwner, table, apiPc, status, workerPc, hand, writeFailed,
                     pausedTakes, interventions, active, session, realized, registered,
                     commandIds, evidence, call, plan, scheduled, pending, timedOut, samples>>

(* CREATE TABLE and TRUNCATE. *)
Truncate ==
  LET empty == table' = [r \in Requests |-> 0]
  IN  /\ At("truncate")
      /\ \/ Works /\ empty /\ Goto("rejoin")
         \/ Breaks /\ (empty \/ UNCHANGED table) /\ Aborts
      /\ UNCHANGED <<paused, lockOwner, instances, queue, inflight, peak, counters, busy,
                     writeBusy, apiPc, status, workerPc, hand, writeFailed, pausedTakes,
                     interventions, ctlOwn, plan, scheduled, pending, timedOut, samples>>

RowCount == Cardinality({r \in Requests : table[r] > 0})

(* previous_counters and previous_db_rows; the first sample compares them *)
(* with themselves.                                                       *)
Baseline ==
  /\ At("baseline")
  /\ \/ Works /\ Goto("baselineRows")
        /\ previous' = [previous EXCEPT !.counters = counters]
     \/ Breaks /\ Aborts /\ UNCHANGED previous
  /\ UNCHANGED <<paused, lockOwner, instances, appOwn, ctlOwn, plan, scheduled, pending,
                 timedOut, current, reading, emitted>>

(* Then main opens the run with controller.emit_run_boundary("started"). *)
BaselineRows ==
  /\ At("baselineRows")
  /\ \/ /\ Works
        /\ previous' = [previous EXCEPT !.rows = RowCount]
        /\ current' = previous'
        /\ Ctl!Begin("boundary", NoAction, "started", "readback")
        /\ Goto("opening")
     \/ Breaks /\ Aborts /\ UNCHANGED <<previous, current, call>>
  /\ UNCHANGED <<paused, lockOwner, instances, appOwn, keys, rejecting, active, session,
                 realized, registered, commandIds, evidence, plan, scheduled, pending,
                 timedOut, reading, emitted>>

(* The boundary is emitted before the try: if it raises, close() is not run. *)
Opened ==
  /\ At("opening") /\ Ctl!Idle
  /\ IF Ctl!At("returned") THEN Goto("busy") ELSE Aborts
  /\ UNCHANGED <<shared, appOwn, ctlOwn, plan, scheduled, pending, timedOut, samples>>

-----------------------------------------------------------------------------
(* One transition *)

(* Faulty Index: a stop is due one transition too late. *)
IndexOneLate(command) ==
  IF command[2] = "start" THEN Start[command[1]] ELSE Stop[command[1]] + 1

Index(command) == IF command[2] = "start" THEN Start[command[1]] ELSE Stop[command[1]]

Due == {command \in pending : Index(command) = transition}

(* Faulty Precedes: a start comes before a stop of the same index. *)
PrecedesStartFirst(command, other) == other[2] = "stop" \/ command[2] = "start"

(* scheduled_action_commands sorts a stop before a start of the same index. *)
Precedes(command, other) == other[2] = "start" \/ command[2] = "stop"

(* controller.command of the next command that is due. *)
Issue(command) ==
  /\ At("commands") /\ Ctl!Idle /\ Ctl!At("returned")
  /\ command \in Due
  /\ \A other \in Due : Precedes(command, other)
  /\ Ctl!Command(command[1], command[2], Index(command))
  /\ pending' = pending \ {command}
  /\ UNCHANGED <<appOwn, rejecting, runner, failing, plan, scheduled, timedOut, samples>>

CommandRaised ==
  /\ At("commands") /\ Ctl!Idle /\ Ctl!At("raised")
  /\ Raises
  /\ UNCHANGED <<shared, appOwn, ctlOwn, plan, scheduled, pending, timedOut, samples>>

(* All commands are applied: executor.submit of the window's requests. *)
Submit ==
  /\ At("commands") /\ Ctl!Idle /\ Ctl!At("returned")
  /\ Due = {}
  /\ Goto("await")
  /\ UNCHANGED <<shared, appOwn, ctlOwn, plan, scheduled, pending, timedOut, samples>>

Submitted == {r \in Requests : plan[r] = transition}

(* _checkout in a pool thread: the request reaches the API. *)
Checkout(r) ==
  /\ At("await") /\ r \in Submitted \ timedOut
  /\ UNCHANGED <<ctlOwn, runnerVars>>
  /\ Send(r)

Resolved(r) == r \in timedOut \/ apiPc[r] \in {"answered", "dropped"}

(* No connection, or no answer within three seconds; the handler may go on. *)
TimeOut(r) ==
  /\ At("await") /\ r \in Submitted /\ ~Resolved(r)
  /\ Breaks
  /\ timedOut' = timedOut \cup {r}
  /\ UNCHANGED <<paused, lockOwner, instances, appOwn, ctlOwn, runner, failing, plan, scheduled,
                 pending, samples>>

(* Faulty Accepts: futures are not asked for their result. *)
AcceptsAnyOutcome(r) == TRUE

Accepts(r) == r \notin timedOut /\ apiPc[r] = "answered" /\ status[r] \in {202, 503}

(* future.result() of every request; the first that raises leaves the with *)
(* block, which waits for the others.  The pause to the end of the sample  *)
(* period follows.                                                         *)
Gathered ==
  /\ At("await")
  /\ \A r \in Submitted : Resolved(r)
  /\ IF \A r \in Submitted : Accepts(r) THEN Goto("counters") ELSE Raises
  /\ UNCHANGED <<shared, appOwn, ctlOwn, plan, scheduled, pending, timedOut, samples>>

-----------------------------------------------------------------------------
(* _counters, _database_row_count, _sample, _emit_metrics *)

(* A read of one value of Redis or PostgreSQL. *)
Read(step, next) ==
  /\ At(step)
  /\ \/ Works /\ Goto(next)
     \/ Breaks /\ Raises
  /\ UNCHANGED <<paused, lockOwner, appOwn, ctlOwn, plan, scheduled, pending, timedOut,
                 previous, emitted>>

ReadCounters ==
  /\ Read("counters", "rows")
  /\ current' = [current EXCEPT !.counters = counters]
  /\ UNCHANGED <<instances, reading>>

(* Faulty ReadRows: a sample repeats the rows of the one before. *)
ReadRowsReusesPrevious ==
  /\ Read("rows", "busy")
  /\ current' = [current EXCEPT !.rows = previous.rows]
  /\ UNCHANGED <<instances, reading>>

ReadRows ==
  /\ Read("rows", "busy")
  /\ current' = [current EXCEPT !.rows = RowCount]
  /\ UNCHANGED <<instances, reading>>

Regressed == \E c \in CounterNames : current.counters[c] < previous.counters[c]

(* The differences are taken first; then HVALS of the busy hashes. *)
ReadBusy ==
  /\ At("busy")
  /\ \/ Works /\ IF Regressed THEN Raises ELSE Goto("gauges")
     \/ Breaks /\ Raises
  /\ reading' = [reading EXCEPT !.busy = Cardinality(busy)]
  /\ UNCHANGED <<paused, lockOwner, instances, appOwn, ctlOwn, plan, scheduled, pending,
                 timedOut, previous, current, emitted>>

(* Three reads in a row: API_INFLIGHT_CURRENT, API_INFLIGHT_PEAK and LLEN. *)
ReadGauges ==
  /\ Read("gauges", "live")
  /\ reading' = [reading EXCEPT !.inflight = inflight, !.peak = peak, !.depth = Len(queue)]
  /\ UNCHANGED <<instances, current>>

CountWorkers ==
  /\ Read("live", "current")
  /\ DropOverdue
  /\ UNCHANGED <<reading, current>>

(* The peak restarts at the current level: a GET, then a SET. *)
ReadLevel ==
  /\ Read("current", "peak")
  /\ reading' = [reading EXCEPT !.level = inflight]
  /\ UNCHANGED <<instances, current>>

(* Faulty RestartPeak: the peak is not restarted between samples. *)
RestartPeakSkipped ==
  /\ At("peak")
  /\ Works /\ Goto("emit")
  /\ UNCHANGED <<paused, lockOwner, instances, appOwn, ctlOwn, plan, scheduled, pending,
                 timedOut, samples>>

RestartPeak ==
  /\ At("peak")
  /\ \/ Works /\ peak' = reading.level /\ Goto("emit")
     \/ Breaks /\ (peak' = reading.level \/ UNCHANGED peak) /\ Raises
  /\ UNCHANGED <<paused, lockOwner, instances, queue, inflight, counters, busy, writeBusy,
                 table, apiPc, status, workerPc, hand, writeFailed, pausedTakes,
                 interventions, ctlOwn, plan, scheduled, pending, timedOut, samples>>

(* Faulty LastSample: the loop takes one sample too many. *)
LastSampleLate == emitted' > PointCount

(* range(point_count - 1) is exhausted. *)
LastSample == emitted' = PointCount

(* The POST of the sample, and the end of the loop's body. *)
EmitMetrics ==
  /\ At("emit")
  /\ \/ /\ Works
        /\ emitted' = emitted + 1
        /\ previous' = current
        /\ Goto(IF LastSample THEN "errors" ELSE "commands")
     \/ /\ Breaks
        /\ emitted' \in {emitted, emitted + 1}
        /\ Raises
        /\ UNCHANGED previous
  /\ reading' = NoReading
  /\ UNCHANGED <<paused, lockOwner, instances, appOwn, ctlOwn, plan, scheduled, pending,
                 timedOut, current>>

(* After the last window: no emit error of the application is tolerated.  *)
CheckEmitErrors ==
  /\ At("errors")
  /\ \/ Works /\ counters["telemetry_emit_errors"] = 0 /\ Goto("closing")
     \/ Works /\ counters["telemetry_emit_errors"] > 0 /\ Raises
     \/ Breaks /\ Raises
  /\ UNCHANGED <<paused, lockOwner, instances, appOwn, ctlOwn, plan, scheduled, pending,
                 timedOut, samples>>

-----------------------------------------------------------------------------
(* The finally of main *)

(* controller.close() *)
CloseController ==
  /\ At("closing") /\ Ctl!Idle /\ call.op # "close"
  /\ Ctl!Close
  /\ UNCHANGED <<appOwn, rejecting, runnerVars>>

(* The end of the process closes its database sessions, and so releases the *)
(* advisory lock.                                                           *)
ProcessEnds ==
  /\ runner' = "failed" /\ failing' = TRUE
  /\ lockOwner' = IF lockOwner = Controller THEN Nobody ELSE lockOwner
  /\ session' = [a \in Actions |-> IF session[a] = "open" THEN "closed" ELSE session[a]]

(* close() returned: emit_run_boundary("closed").  It raised: main ends. *)
Closed ==
  /\ At("closing") /\ Ctl!Idle /\ call.op = "close"
  /\ \/ /\ Ctl!At("returned")
        /\ Ctl!Begin("boundary", NoAction, "closed", "readback")
        /\ Goto("closed")
        /\ UNCHANGED <<lockOwner, session>>
     \/ Ctl!At("raised") /\ ProcessEnds /\ UNCHANGED call
  /\ UNCHANGED <<paused, instances, faults, appOwn, keys, rejecting, active, realized,
                 registered, commandIds, evidence, plan, scheduled, pending, timedOut, samples>>

Finish ==
  /\ At("closed") /\ Ctl!Idle
  /\ \/ Ctl!At("returned") /\ ~failing /\ Goto("done") /\ UNCHANGED <<lockOwner, session>>
     \/ (Ctl!At("raised") \/ failing) /\ ProcessEnds
  /\ UNCHANGED <<paused, instances, faults, appOwn, keys, rejecting, active, realized,
                 registered, commandIds, evidence, call, plan, scheduled, pending, timedOut, samples>>

-----------------------------------------------------------------------------
(* The controller's method proceeds in the runner's thread. *)
Control ==
  /\ Ctl!Proceed
  /\ rejecting' = Rejected'
  /\ UNCHANGED <<appOwn, runnerVars>>

ServeRequest(r) == UNCHANGED <<ctlOwn, runnerVars>> /\ Handler(r)
ServeItem(w) == UNCHANGED <<ctlOwn, runnerVars>> /\ Work(w)

Runner ==
  \/ WaitForWorkers("boot", "reset") \/ Reset \/ Truncate
  \/ WaitForWorkers("rejoin", "baseline") \/ Baseline \/ BaselineRows \/ Opened
  \/ (\E command \in pending : Issue(command)) \/ CommandRaised \/ Submit \/ Gathered
  \/ ReadCounters \/ ReadRows \/ ReadBusy \/ ReadGauges
  \/ CountWorkers \/ ReadLevel \/ RestartPeak \/ EmitMetrics \/ CheckEmitErrors
  \/ CloseController \/ Closed \/ Finish

CaptureNext ==
  \/ Runner
  \/ Control
  \/ \E r \in Requests : Checkout(r) \/ TimeOut(r) \/ ServeRequest(r)
  \/ \E w \in Workers : ServeItem(w)

CaptureSpec == CaptureInit /\ [][CaptureNext]_captureVars

(* Threads and processes are scheduled, and pool threads send what was      *)
(* submitted.  A client that gives up is never required to.                 *)
Fairness ==
  /\ WF_captureVars(Runner) /\ WF_captureVars(Control)
  /\ \A r \in Requests : WF_captureVars(Checkout(r)) /\ WF_captureVars(ServeRequest(r))
  /\ \A w \in Workers : WF_captureVars(ServeItem(w))

FairSpec == CaptureSpec /\ Fairness

-----------------------------------------------------------------------------
InEffect(a) == Start[a] <= transition /\ transition < Stop[a]

ScheduledNow(kind) == \E a \in scheduled : Kind[a] = kind /\ InEffect(a)

Delta(name) == current.counters[name] - previous.counters[name]

(* request_count_schedule_binding and the error counts of the assessment:    *)
(* the sample of a window counts the requests the window sent, no more and   *)
(* no less, and as errors those that a rejection in effect rejects.          *)
WindowAccountsForSchedule ==
  At("emit") =>
    /\ Delta("api_requests") = Cardinality(Submitted)
    /\ Delta("api_errors") = IF ScheduledNow("api_rejection")
                             THEN Cardinality(Submitted \cap RejectedTokens) ELSE 0

(* A sample is taken between requests: it sees no request in flight, and its *)
(* peak is one of this window, though the peak is restarted with a GET and a *)
(* SET that no transaction joins.                                            *)
SampleSeesItsWindowOnly ==
  At("emit") =>
    /\ reading.inflight = 0 /\ reading.level = 0
    /\ reading.peak <= Cardinality(Submitted)
    /\ Submitted # {} => reading.peak >= 1

Written ==
  current.counters["postgresql_write_count"] - current.counters["postgresql_write_errors"]

(* Counters are read before rows, while workers go on writing: a sample      *)
(* never reports a write whose row it does not see, never a row of a request *)
(* that was not accepted, and never a negative write rate.                   *)
RowsCoverWrites ==
  runner \in {"busy", "gauges", "live", "current", "peak", "emit"} =>
    /\ current.counters["worker_processed"] <= Written
    /\ Written <= current.rows
    /\ current.rows <= Cardinality({r \in Requests : apiPc[r] = "answered" /\ status[r] = 202})
    /\ previous.rows <= current.rows

(* While the requests of a window are served, the actions in force are those *)
(* the schedule has in effect at this transition, and no control is set but  *)
(* theirs.                                                                   *)
CommandsBracketWindows ==
  At("await") =>
    /\ active = {a \in scheduled : InEffect(a)}
    /\ \A a \in active : Ctl!InForce(a)
    /\ \A k \in Ctl!KeyKinds : keys[k] # NoAction => keys[k] \in active
    /\ paused # {} => ScheduledNow("worker_pause")
    /\ lockOwner = Controller => ScheduledNow("postgres_lock")

Boundaries(phase) ==
  {i \in 1 .. Len(evidence) : evidence[i].event = "boundary" /\ evidence[i].phase = phase}

(* Before a start somebody may hold a registration up: an earlier request    *)
(* that keeps its worker busy, or a call that failed and ended a worker.     *)
MayLapse(a) == faults > 0 \/ \E r \in Requests : plan[r] < Start[a]

(* The two commands of an action as _commands_match wants them, and, in one  *)
(* clause, where the code stops short of that: the assessor wants a pause to *)
(* name worker_replicas times its magnitude, and the controller counts the   *)
(* workers that are registered when it starts.  Of a run without a failed    *)
(* call and without an earlier request, these are all.                       *)
CommandsMatch(a) ==
  \E i, j \in 1 .. Len(evidence) :
    /\ i \in Ctl!Recorded(a, "start") /\ j \in Ctl!Recorded(a, "stop")
    /\ evidence[i].status = "applied" /\ evidence[j].status = "applied"
    /\ evidence[i].index = Start[a] /\ evidence[j].index = Stop[a]
    /\ evidence[i].workers = evidence[j].workers
    /\ Kind[a] = "worker_pause" =>
         \/ Cardinality(evidence[i].workers) = Ctl!PauseCount(Cardinality(Workers))
         \/ /\ registered[a] # Workers /\ MayLapse(a)
            /\ Cardinality(evidence[i].workers) = Ctl!PauseCount(Cardinality(registered[a]))
    /\ Kind[a] = "redis_enqueue_delay" =>
         evidence[i].delay = a /\ evidence[j].delay = NoAction

(* _commands_match, _cleanup_boundary_matches and metric_completeness of the *)
(* assessment (src/src/quantis_core/action_dynamics_lab.py): a run that ends *)
(* without an exception has all its samples, the two commands of each action *)
(* once, applied, at their logical indices and naming the same workers, and  *)
(* one closed boundary; and any closed boundary, of a failed run too, finds  *)
(* no action active and no enqueue delay.  Such a run passes those checks    *)
(* but for one case: a pause that began when a registration had lapsed names *)
(* fewer workers than the assessor expects, and nothing in the run notices;  *)
(* the lapse has one of the causes above.                                    *)
SuccessfulRunPassesTheGate ==
  /\ At("done") =>
       /\ emitted = PointCount
       /\ Cardinality(Boundaries("started")) = 1 /\ Cardinality(Boundaries("closed")) = 1
       /\ Len(evidence) = 2 + 2 * Cardinality(scheduled)
       /\ \A a \in scheduled : CommandsMatch(a)
  /\ \A i \in Boundaries("closed") : evidence[i].active = 0 /\ evidence[i].delay = NoAction

(* A run ends, whatever fails and whoever dies: no wait of the runner is for *)
(* something that may never come.                                            *)
RunEnds == <>(runner \in {"done", "failed"})

(* Every request that reaches the API is answered, unless a call failed. *)
RequestsAreAnswered ==
  \A r \in Requests :
    apiPc[r] = "enter" ~> apiPc[r] = "answered" \/ (apiPc[r] = "dropped" /\ faults > 0)

(* An accepted item is stored in the end: a failed call costs no more than   *)
(* the item its worker has in hand, as long as one worker survives; and no   *)
(* action holds the work up for good, except a pause that a failed close     *)
(* left behind (finding of CloseStopsEveryAction).                           *)
AcceptedIsStored ==
  \A r \in Requests :
    (apiPc[r] = "answered" /\ status[r] = 202) ~>
      \/ Place(r) \in {"stored", "lost"}
      \/ \A w \in Workers : workerPc[w] = "dead"
      \/ runner = "failed" /\ paused # {}

(* Whatever the runner, its actions and its failures do, the requests of the *)
(* run are served: answered, and stored if they were accepted (see above).   *)
RequestsAreServed == RequestsAreAnswered /\ AcceptedIsStored
=============================================================================
