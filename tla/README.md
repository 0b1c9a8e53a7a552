# Verification of the quantis-core lab

quantis-core learns models of telemetry from small distributed applications
that it disturbs on purpose. Everything the learning side concludes rests on
the captures its labs make, on the programs that collect, qualify, seal and
publish them, and on the compiler that turns telemetry into windows. This
directory holds TLA+ models of these programs, model-checked with TLC, and
theorems about them proved with TLAPS. It covers the concurrent and stateful
core of the repository; the greater part of its lines is numerical code (see
"Not modelled").

## 1. The system

| component | state | operations | modelled in |
|---|---|---|---|
| checkout application, `lab/action_dynamics/application.py` | in Redis: the list `QUEUE`, `COUNTERS`, the in-flight gauge and its peak, `WORKER_INSTANCES`, `WORKER_BUSY`, `POSTGRESQL_WRITE_BUSY`; in PostgreSQL: `completed_checkout` and an advisory lock; one item in each worker's hand | `do_POST` in one thread per request; `run_worker` in each worker process | `CheckoutPipeline` |
| intervention controller, `interventions.py` | `_active`, `_command_ids`, the connection of a lock; the control keys; the action stream at the collector | `command(start/stop)`, `close`, `emit_run_boundary` | `Interventions` |
| capture runner, `run_capture.py` | last and current counters and rows, the pending commands, the samples sent | `main` | `CaptureRun` |
| telemetry client, `application_telemetry.py`, and the trace checks of the assessor | the events and spans at the collector | posts of logs and spans; `_assess_capture` | `TraceAudit` |
| case collection, `collect_pilot.py` | lanes (Compose projects), waves, captures, the attestation | one subprocess per case, tear-down | `CollectionLanes` |
| lab pilot driver, `run_lab_pilot.py`, `run_development.py`; preparation and qualification in `src/quantis_core/action_dynamics_lab.py` | directories of prepared inputs, evidence and qualifications; the image tag | build, prepare, collect, assess, qualify | `QualificationChain` |
| sealed confirmations, `run_run_aware_alert_confirmation.py` and its assessor | the output directory of a campaign; the repository and the model it depends on | `prepare`, `collect`, `qualify`, `score` | `SealedCampaign` |
| model selection, `run_mprm_jepa.py`, `run_mprm_selection.py`, `assess_mprm_jepa.py` | the directory of the frozen models and its staging; the output directory of the campaign; the fit evidence and captures it depends on | `fit-and-freeze`; `prepare`, `collect`, `qualify`, `score` | `FrozenSelection` |
| fault-matrix application, `lab/fault_matrix/service.py`, `application_logging.py` | a second pipeline with a cached backlog state, log transitions, an outage key | handler, worker loop, two Lua scripts | `FaultMatrix` |
| fault-matrix runner, `run_experiment.py` | windows, samples, the fault in force | `main`: reset, windows, fault, drain | `FaultMatrixRun` |
| graph lab, `lab/graph_jepa/` | measurements of its own in Redis around the fault-matrix application | the wrapped calls, the sampling of a window | `GraphGauges` |
| artifact distribution, `tools/artifacts.py` | archives, index, checksums; a draft release; the artifact tree of a clone | `pack`, `record`, `publish`, `fetch` | `ArtifactPack`, `ArtifactPublish`, `ArtifactFetch` |
| telemetry ingestion, `otlp_windowing.py` | the points of a capture | `OtlpWindowCompiler.compile`, `materialize_compiled_telemetry` | `MetricWindows` |
| alert policy, `run_aware_alert_confirmation.py` | reference, threshold, the alert of a run | the frozen run-aware policy | `AlertRuns` |
| contracts and corpora, models, training, evaluation, CLI, first fault lab, catalog tools | files, arrays | | no |

How the parts interact. The runner of a capture sends requests to the API over
HTTP from a thread pool; handlers and workers meet in the Redis list; the
worker writes under an advisory lock that the controller can hold for the
length of an action. The controller changes the application only through
shared keys (`PAUSED_WORKERS`, two delays, one rejection control) and the lock.
The runner calls the controller in its own thread and reads the state of the
application from Redis and PostgreSQL, one value after the other, while
handlers and workers go on. The collector gets samples from the runner,
evidence from the controller, logs and spans from the application. A
collection starts one such capture per case, in lanes that are Compose
projects, wave after wave. The driver chains collections: a pilot runs on a
qualified smoke, a development collection on both. A sealed confirmation
collects once more, qualifies, and scores with a model that was frozen before;
a selection freezes the models it then collects for, qualifies and scores.
Its bundles are packed, published and restored by the artifact tools.

What is hard about it:

* *Interleaving.* Workers check for a pause and pop in two calls. The list, the
  counters, the busy hashes and the table are changed by separate calls, and
  the runner reads them by separate calls. Executions of the driver, of
  `publish` and of `fetch` may overlap on one host or one release.
* *Failure.* No call is retried (redis-py 6.2.0 as configured by
  `Redis.from_url`), and a call that raised may have been executed. The worker
  loop has no handler, and `compose.yaml` states no restart policy: one failed
  call ends a worker with the item it holds. Failures happen inside `finally`
  clauses too. Docker and `gh` commands fail having done their work or not.
* *Crash and rerun.* A collection, a campaign, `pack`, `publish` and `fetch`
  may be killed at any step; what they leave on disk, in Docker or at GitHub is
  met by the next execution.
* *Ordering.* Effects come before their evidence, stops before starts of the
  same index, counters before rows before gauges. Spans and points reach the
  collector in any order.
* *Stale state.* A check is far from the use of what it checked: outputs found
  absent minutes before their `mkdir`, a contract, a tree and a model hashed at
  different moments, a mutable image tag.
* *Waiting.* The runner waits for registrations, for answers and for a lock,
  and workers may be dead by then.

`PROJECT.json` lists each such point with its line under `hazards`.

What makes the components correct:

* applications: an accepted item is stored, or lost only with the worker that
  held it; never duplicated; the answer is true; gauges, counters, logs and
  traces cover the work;
* controller: `close` leaves nothing behind, the lock is never orphaned, the
  evidence tells what was in force;
* runners: each sample accounts for exactly the requests of its window under
  exactly the scheduled actions, a run that succeeds passes the assessor's
  checks, and every run ends;
* collections: what the attestation says is true, two cases never share a
  project, nothing is left running; a stage runs only on evidence that
  qualified, and that nobody changed;
* confirmations: a result names the contract, the model and the captures that
  produced it, and nothing of a campaign is written twice;
* distribution: what is recorded can be published and what is published can be
  restored, whole;
* ingestion and alerts: a window holds its own work, a fill never crosses a
  restart, the share of false alarms is bounded.

## 2. The modules

```
CheckoutPromise        what a checkout application promises (abstract)
   ^ refined by            ^ refined by
CheckoutPipeline        FaultMatrix         ReleasePromise  one release of a tag (abstract)
   ^ EXTENDS Interventions ^ EXTENDS           ^ refined by
   |            ^ Ctl!     |                ArtifactPublish
   +-CaptureRun-+       FaultMatrixRun      ArtifactPack   ArtifactFetch

CollectionLanes   QualificationChain   SealedCampaign   FrozenSelection   (the driver)
TraceAudit   MetricWindows   AlertRuns   GraphGauges       (telemetry)

CheckoutPipelineProofs (and TraceAudit) <- CaptureRunProofs; InterventionsProofs,
  FaultMatrixProofs (and FaultMatrixRun, GraphGauges), CollectionLanesProofs,
  QualificationChainProofs, CampaignProofs, ArtifactProofs: theorems (an arrow: uses the lemmas of)
MCCheckoutPipeline, MCInterventions, MCCaptureRun, MCFaultMatrix,
MCFaultMatrixRun, MCDriver, MCRelease, MCTelemetry: instances for TLC
```

**Grain of atomicity.** One action is the code between two points where another
process can see or disturb the state: one Redis command, one `MULTI/EXEC`
pipeline, one Lua script, one SQL statement, one POST, one file operation, one
subprocess. Where the code makes calls in a row of which all but one concern
state the models leave out (`SET LAST_DEQUEUE_UNIX_NANO`, the heartbeat) they
are one action with the one that matters.

**Outcomes of a call.** `Works`, or `Breaks` (bounded by `MaxFaults`); a call
that broke may have been executed or not. What follows is the code's path: an
`except`, a `finally`, or the end of the thread or process. A kill
(`MaxKills`) ends a process at any step and runs nothing of it.

**Data.** A payload is the request it was built for; a file is the version of
what it was made of, which stands for its hash. Latencies and message texts are
left out. Time is the order of steps, except in `MetricWindows`, whose subject
it is.

### CheckoutPipeline (`application.py`)

`apiPc[r]` is the next step of the handler thread of request `r`; the actions
`Enter` to `Reply` follow `do_POST`: in-flight increment, rejection, push,
stamp of the last enqueue, the tally in the inner `finally`, the decrement in
the outer `finally`, `_record_api`, the logs, the answer. A thread that leaves
`do_POST` by an exception is `"dropped"`: the client gets no answer. The
rejection draw is a hash of a seed and a token, so a control decides which
requests it rejects (`rejecting`, `RejectedTokens`).

`workerPc[w]` is the next step of worker `w`; `Register` to `EmitCompletion`
follow the loop of `run_worker`. `hand[w]` is the item between LPOP and the end
of its processing. A worker whose loop raised is `"dead"` for good.

`Overdue` replaces the clock of `WORKER_INSTANCES`: a registration becomes
older than two seconds only while its worker is held up inside an item or dead,
because an idle or paused worker renews it every five milliseconds.

The `Environment` actions set and clear the controls at any moment, more freely
than the real controller, so that what is proved of the pipeline holds under
any caller. `pausedTakes`, `faults` and `interventions` are history and
budgets.

### CheckoutPromise

Per request a place (`outside`, `queued`, `held`, `stored`, `lost`) and an
answer. `CheckoutPipeline!Place` and `AnswerOf` are the refinement mapping, and
`FaultMatrix` has one of its own: both applications keep the same promise.

### Interventions (`interventions.py`)

`call` is the method in progress, its next external call and its locals.
`command` starts at `FirstStep` (or raises, `Refused`), goes through the calls
of `_start` or `_stop`, then `Readback` and `Post` of the evidence; `close`
alternates `Sweep` and the steps of a stop, and ends with `Wipe`. `session[a]`
is the connection of an active lock; `realized[a]` the workers a pause chose,
and `registered[a]` (history) those it chose from: the hash order of the choice
is abstracted to any subset of the right size. `Start` and `Stop` are the
logical indices of an action; a command carries the one it is given, `close`
takes the stop's from the action, and the record repeats it.
`Caller` is any caller; the real one is in `CaptureRun`.

### CaptureRun (`run_capture.py`)

`runner` is the next step of `main`. The module extends `CheckoutPipeline` and
instantiates `Interventions` on the variables they share, so that the lemmas
about the application hold of its steps in a capture. `rejecting`, which the
API's draw reads, follows the controller's key (`Rejected`): the steps that
change a key change both. The application's environment is replaced by the
controller itself: `Control` is the method in progress, called in the runner's
thread. `ServeRequest` and `ServeItem` are the application's own steps. An
exception inside the `try` goes to `"closing"` (`Raises`), one outside it ends
the process (`Aborts`); `ProcessEnds` also ends the database sessions and
thereby releases the lock.

### FaultMatrix (`lab/fault_matrix/service.py`, `application_logging.py`)

The same shape as `CheckoutPipeline`, with what differs: enqueue and dequeue
are Lua scripts that keep a cached bucket of the list's length beside the list
and return a transition when it changes (`Advance`); the transition is logged
by the process that made it, later, and named by its place in Redis order; a
RedisError of the counter pipelines is swallowed; a key makes every worker exit
between two items (`worker_crash`), another makes handlers answer 503
(`cache_outage`), a lock stops writes. The environment injects these faults at
any moment.

### FaultMatrixRun (`run_experiment.py`)

The runner of one case: readiness, reset, windows, start and stop of the fault,
the requests of a window and the wait for their answers, the sample in its
three reads, the drain of a normal case, the `finally` clause. Extends `FaultMatrix`,
whose handlers and workers run beside it on the same variables; its faults come
from the calls of the runner here, never from the environment (`CaseNext` in the
place of `Next`).

### CollectionLanes (`collect_pilot.py`)

Executions of `collect_action_cases`: the checks before a run, one thread per
case of a wave (`Collect`), its `finally` clause, the tear-down, the clean-up
of all lanes and the attestation. Docker projects are state that outlives a
process. The conditions of the assessor, `_twin_wave_barrier` and
`_lane_isolation`, are stated on the attestation.

### QualificationChain (`run_lab_pilot.py`, `run_development.py`)

Lab executions (build, inspect, hash; then prepare, collect, qualify of smoke
and pilot) and development executions, which may overlap or follow each other,
over directories whose files appear one by one. `tagged` is what the mutable
image tag names, `source` the working tree, `plan` what a prepared directory
binds. The quality of captures is a choice of the assessment.

### SealedCampaign (`run_run_aware_alert_confirmation.py` and its assessor)

One record per execution with the next step and what it has read; the files of
the output directory; and around them the repository (`head`, `tree`), the
model file under `artifacts/` (`weights`), and the captures (`evidence`), which
change at any moment within bounds. A command's preflight (commit, cleanliness
and file hashes) is one reading; the contract is read before it and the model
after it, as in the code.

### FrozenSelection (`run_mprm_jepa.py`, `run_mprm_selection.py`, `assess_mprm_jepa.py`)

Built like `SealedCampaign`, one record per execution, for the campaign that
makes its own models. `fit-and-freeze` reads the commit, the recipe, the
evidence of the fit and the sources at four moments of a long training
(`ReadCommit` to `HashSources`), fills a staging directory and renames it
(`Publish`); `freeze` is the manifest that names them. `prepare` binds a freeze
and the protocol (`bindings`); `qualify` reads the captures for the gates and
again for the hashes; `score` verifies the hashes, reads the captures once more
and restores the models. The operator may replace fit evidence and models, or
remove a freeze to make another.

### ReleasePromise, ArtifactPublish, ArtifactPack, ArtifactFetch (`tools/artifacts.py`)

`ReleasePromise` is one release: opened for one commit, gathering that commit's
assets, published whole, withdrawn as a whole. `ArtifactPublish` implements it
with the separate `gh` calls for draft, deletion of half-uploaded assets
("starters") and uploads, each of which may fail, over a GitHub on which
several drafts may carry one tag. `ArtifactPack` is `pack` and `record` on an
output directory that is never cleaned up; `ArtifactFetch` is the restoring of
one bundle by executions that overlap, fail and are killed.

### TraceAudit (`application.py`, `application_telemetry.py`, `_assess_capture`)

The events and spans of a checkout as the two loops post them, several calls in
one action where nobody can tell them apart, and the assessor's trace checks
as operators on what the collector holds. The gate is evaluated in every state
because a capture may end at any time.

### MetricWindows (`otlp_windowing.py`), AlertRuns (`run_aware_alert_confirmation.py`)

`MetricWindows` has a process that counts and restarts, an exporter and a
collector that lose, duplicate and reorder points, then the compiler
(`CompiledWindows`, a fold of `CumulativeStep` over the points of a stream) and
the bounded forward fill. What a window should hold is stated independently,
from the process's own bookkeeping. `AlertRuns` draws the scores of reference,
calibration and sealed runs and computes threshold, alerts and detections as
the code does.

### GraphGauges (`lab/graph_jepa/`)

The measurements that `service.py` puts around the calls of the wrapped
application (in-flight count and peak, busy fields, path counters) and the
runner's reads of them at the end of a window.

### The MC modules

`MCDriver`, `MCRelease` and `MCTelemetry` check several
instances in one run: the variable `part` says which instance a behaviour is
of, and the state of the others stays as it began. Their properties are
conjunctions of the named properties of the modules, per instance; the comment
of each says which.

## 3. What is checked

Every configuration turns the deadlock check off: workers may all be dead,
executions ended, captures compiled, with nothing to go on with, so a state
without successors is one the system really has. A definition whose comment
begins with "Faulty" is a plausible bug of the definition it names; it belongs
to no next-state relation and shows that a property would notice the bug.

| run | instance | what it shows |
|---|---|---|
| `checkout` | 2 requests, 2 workers; one failed call, possibly with a second in its handling, or one intervention | `ExclusiveCustody`: an item is in the list, in one hand or in the table, and written once. `InflightCoversHandlers`, `BusyMarksWork`: what gauge and hashes guarantee at every moment. `CountersTrailTheWork`: counters form a ladder under the rows. `PauseAllowsOneTake`: after a pause at most one more item per worker. `LockFreezesTable`. `ImplementsPromise`: the refinement. |
| `interventions` | a pause and a lock, or two delays on one key; 2 workers, 1 failed call, any caller | `ReturnedCloseIsClean`, `LockIsRecoverable`, `EvidenceExplainsMemory`, `PausedWorkersAreNamed`: a pause names exactly the share its magnitude asks for of the workers registered when it chose, and its stop names the same. `EvidenceFollowsEffect`, also where the key is shared: a record reads back what it says. |
| `capture` | 3 requests (one each, or two at once) and 4 samples, 1 worker at work beside an idle one; no action, one of five kinds, or two delays back to back; 1 failed call beside a pause, a rejection or the lock; and 1 request, 2 workers and a pause after it, with 1 failed call before the pause begins | `WindowAccountsForSchedule`, `RowsCoverWrites`: a sample is of its window. `SampleSeesItsWindowOnly`: the GET and SET that restart the peak lose nothing. `CommandsBracketWindows`. `SuccessfulRunPassesTheGate`: what the assessor demands of boundaries, samples and commands, the number of paused workers included, and the one case in which a successful run falls short of it: a registration that had lapsed before the pause. |
| `capture_ends` | 1 request, 1 worker, a pause or a lock, 1 failed call, fair | `RunEnds`: no wait of the runner is for something that may never come. `RequestsAreServed`: every request is answered or its connection closed, and what was accepted is stored, if its worker lives. |
| `matrix` | 2 requests, 2 workers; two failed calls, or one beside an injected fault | `BacklogFollowsQueue`: the cached bucket is that of the length. `CrossingsAreReported`: every crossing is logged, or a live thread still has to log it, or a failed call erased it, one each. `CountersTrailTheLogs`: `worker_processed`, `api_requests` and `api_errors` against rows, requests and reports, each behind by no more than its failed pipelines lost. `ImplementsPromise`: the promise of the other application, no item written twice. |
| `matrix_run` | every kind of case in 3 windows, the fault in the second of them, where 2 requests are sent at once; 2 workers, 1 failed call | `WindowsAreTrue`: labels and samples. `RunsEndClean`: no fault outlives the run, a normal run that succeeds has logged everything. |
| `matrix_ends` | 2 requests, 1 worker, every kind of case, 1 failed call, fair | `RunsEndAndServe`. |
| `driver` | collections: 3 pairs in 2 lanes with 2 failed commands; two executions for one directory; two for directories of their own, one killed. Chains: two lab and one development execution, overlapping or not, an edit, damaged evidence. Campaigns: 4 commands in a row with 3 edits and 2 replaced models; 5 commands, 2 at once. Selections: 6 commands in a row with 2 troubles (edits, a replaced or removed freeze or fit evidence, changed captures, a failure); 5 commands, 2 at once | `CollectionsAreSound`, `CollectionsEnd`, `ChainsAreSound`, `CampaignsAreSealed`. |
| `release` | 3 fetches with a failure, a kill and a changed archive; packing 2 bundles with 4 commands; 3 executions of publish with 2 failures and a deleted release, with reruns, and overlapping | `BundlesAreWhole`, `PublishKeepsPromise` (the refinement of `ReleasePromise`), `ReleasesEnd`. |
| `telemetry` | traces of 2 requests with 2 failed calls, or 2 workers and none; four metric instances; alerts with 3 calibration runs, and a treatment of 4 windows; gauges of 3 requests in 2 windows, and of 2 requests with a worker | `TracesAreSound`, `SeriesAreSound`, `GaugesAreSound`. |
| `interventions_close` | two delays, 1 failed call | **violated**: `CloseStopsEveryAction`, see findings. |
| `collection_twins` | 2 pairs, 1 failed command | **violated**: `TwinStartsOnFreshProject`, see findings. |

**Why the bounds are enough.** Two requests and two workers give every pair of
actors that can meet: two items of one list, two handlers on the gauge, two
workers on the lock, a live and a dead worker. What is checked of
the two applications, of the controller and of the samples of both runners is
proved for all sizes besides. One failed call reaches every
failure path, two reach the failure of its handling. `OneDisturbance`,
`TwoDisturbances`, `OnePair` and the `CaseNext` of `MCCaptureRun` keep apart
disturbances that have no path in common, so that each instance can be larger.
In `interventions` registrations change until the workers to pause are chosen
(`BeforeTheChoice`), since nothing reads them later. In `capture` a second
worker (`Second`) is registered but idle, except in the case of the late pause,
where each of the two can be held up by the request or end with a failed call:
these are the two ways for a registration to lapse before a pause.
Two actions are the least for which one can be left behind by `close`, share a
key or follow each other. Four samples are an initial one and one under, after
and beyond an action. Three pairs in two lanes give a full wave, a wave with
one lane, and a lane that is used again. Two directories and two executions are
the least for which a project or an output can be shared; a chain has three
stages; a campaign is its four commands, or five with a repetition; a
selection five, or six with a second freeze. Two assets
are one uploaded and one missing. A window compiler meets the interesting
orders with two points a window and one restart. `MaxInterventions`,
`MaxFaults`, `MaxKills`, `MaxEdits`, `MaxSwaps`, `MaxDamage`, `MaxTrouble`,
`MaxChanges`, `MaxDeletes`, `MaxReleases`, `MaxCommands`, `MaxVersion`,
`MaxPolls`, `MaxScheduled`, `PointCount` and the budgets of `MetricWindows` are
the only caps, and all are in guards.

**Assumptions about the surroundings.**

* `CollectionLanes`: the clock is the order of steps; Docker commands end;
  executions for different directories with one project prefix follow each
  other (lab executions that overlap do share Compose projects, and tear down
  each other's; nothing in the code forbids it).
* `QualificationChain`: evidence is read in one step. A directory stands for
  its hashes because it has one writer, which is a checked property.
* `SealedCampaign`: a preflight is one reading. `ResultIsSealed` holds with
  fewer than four changes of the tree and three of the model; with as many, at
  exactly the moments between two readings, TLC finds a result that names
  something else than what was used. Two overlapping qualifications may
  overwrite each other's quality file and manifest; the commit is checked only
  at the start of a collection.
* `FrozenSelection`: what `prepare` reads between its checks and its first
  file is one reading, and so are the models, sources and HEAD that the assessor
  compares last. `SelectionIsSealed` says in its guards how many changes it
  withstands; on instances of their own with 3 edits and 2 swaps TLC confirms
  the guards, and finds each part violated when its guard is dropped. Captures
  that change between two readings of one command (`disturbed`) are excepted.
* `ArtifactPublish`: the asset directory does not change during an execution.
  `ArtifactPack`: a change of a tree falls between two readings of it, and in
  the checked instance between two commands. `ArtifactFetch`: nothing else
  writes at the destination.
* `TraceAudit`: the clock never steps back and ticks at the stamp of an item.
* `MetricWindows`: at most one export a tick. With one export a window the
  first window of a cumulative feature is missing, so the fill refuses it.
* `AlertRuns`: logarithms are a decreasing table of integers, `Evidence`.
* `GraphGauges`: polls that find nothing are left out; lock, INSERT and COMMIT
  are one step.

**Fairness.** Weak fairness of each handler thread, each worker process, the
runner, the controller's method in progress and the pool threads: the operating
system schedules them and each external call returns. The same for the main
thread and the case threads of a collection, and for each execution of `fetch`
and `publish`. Nothing is assumed of new requests, of the client that gives up,
of new interventions, of failures, kills, edits or deletions. `CaptureRun`
does not assume that an intervention stops but has the runner do it.

**Findings.** `close()` promises in its docstring to stop "every still-active
action exactly once" (`interventions.py:202`), but an exception from one stop
or from one evidence POST leaves the loop: the remaining actions stay active
and the final DELETE of all control keys is skipped. `interventions_close`
shows it with two active delays and one failed call. `ReturnedCloseIsClean`
and `LockIsRecoverable` state what holds instead: a `close` that *returns* is
clean, and the lock always has an owner that a later `close` or the end of the
process releases. Cases of the lab have one action at a time, for which the
lost part is the final DELETE and the closed boundary, and the run then fails.

The specification of the pilot says each capture is torn down "before its twin
starts" (`docs/specs/action-dynamics-instrumentation-pilot-v1.md:179`), but a
`docker compose down` that fails is ignored (`collect_pilot.py:296`), and the
twin's `up` finds the containers of the case before it. `collection_twins`
shows it with one failed command. What holds instead is the part
`FreshUnlessTearDownFailed` of `CollectionsAreSound`.

Other observations, met on the way; the models contain the behaviour and the
properties are stated around it:

* The workers to pause are a share of those registered at that moment
  (`interventions.py:262`), but the assessor expects the share of all replicas
  (`action_dynamics_lab.py:3723-3737`). A worker that is held up by an item for
  longer than its registration lasts, or has ended, is missing from the choice:
  the run then ends without an exception, and its capture is refused later.
  `SuccessfulRunPassesTheGate` names the case (`registered[a] # Workers`) and its
  causes (`MayLapse`); without them a pause names as many as are expected.
* A worker that loses one Redis call takes its item with it (`"lost"`); a 500
  may be the answer for an item that is stored later; a lost decrement leaves
  the in-flight gauge one too high for the rest of a capture, which the run
  that suffered it does not survive.
* The drain check of the fault matrix takes the API's counters for the number
  of accepted items, and a lost counter pipeline is ignored (`service.py:409`):
  the drain boundary may then be emitted while an item is still in a worker's
  hand (`run_experiment.py:311-322`). `SuccessIsFullyLogged` excepts it.
* Two executions of `publish` that overlap may both find no draft and create
  one each (`artifacts.py:1127`); the next execution resumes the one that the
  listing shows first (`artifacts.py:879`), and the other draft is left behind.
* A tree that changes while `pack` runs may be recorded with a hash its archive
  does not unpack to (`artifacts.py:305` and `:325` read it twice).
* The image tag is mutable: another build between two twins gives the second
  twin another image than the attested one (`collect_pilot.py:266`), and an
  edit between build and hash gives a context hash that is not the image's
  (`run_lab_pilot.py:103`). `AttestedImageRuns` holds for executions that do
  not overlap.
* The worker reads `dequeue_started` before its LPOP (`application.py:378`), so
  an item stamped between the two is accepted, stored, and not counted as an
  exact path; `LossesAreExplained` shows that without failures there is no other
  cause. It accounts for figures such as the 39,428 of 39,448 exact paths in
  `docs/research/action-dynamics-instrumentation-pilot-v2-results.md:58`.
* `qualify` of the model selection reads every capture twice, for the gates
  (`run_mprm_selection.py:213`) and for the hashes (`:226`), and `score` hashes
  them (`:292`) before it reads them (`:326`): nothing ties the readings, so one
  change in between is qualified, or scored, under the name of the other
  version. `fit-and-freeze` checks the evidence of the fit in its preflight and
  loads it afterwards (`run_mprm_jepa.py:193`, `:208`), and hashes the sources
  when the training has ended (`:405`).
* With two exports a window, a value observed before a restart in the same
  window is filled past the restart (`otlp_windowing.py:298`).

## 4. What is proved

Eight modules hold theorems. They are for any finite sets of requests, workers
and actions (`ActorsAssumption`, `MatrixActors`, `WorkersAssumption`,
`ActionsAssumption`), which is what a run has and what a sum over threads needs,
for any set of executions in `ArtifactFetch`, `ArtifactPublish`,
`CollectionLanes` and `QualificationChain`, for any finite set of numbered
commands in `SealedCampaign` and `FrozenSelection` (`CampaignBounds`), and for
any budgets. The other assumptions are that budgets and thresholds are natural
numbers (`BoundsAssumption`, `FaultsAssumption`, `MatrixBounds`), that the fraction of
workers to pause lies between zero and one (`FractionAssumption`), that the
names of nobody, the controller and the runner are not names of workers or
requests (`NamesAssumption`, `ControllerAssumption`, `MatrixNames`), and, for a
capture, what the protocol says of a case (`ScheduleAssumption`): at least two
samples, requests in windows, an action that starts before it stops and stops
before the last window. That the actions of a case do not overlap is part of
`CaptureInit`, as in the plan of the protocol. A collection has at least as many
pairs as lanes (`LanesBounds`): the protocol is refused unless it has 6, 30 or
120 pairs and 4 or 6 lanes (`action_dynamics_lab.py:388-402`). Every execution of
a chain has its directories (`ChainConstants`), and there is at least one slug
and one version to pack (`PackBounds`). Some theorems have a hypothesis about
the instance: `AttestedImagesRun` and the theorems about a publication that
executions do not overlap, `RecordedBundlesRestore` that no file changes while it
is packed, `ResultsAreSealed` and `SelectionsAreSealed` that commands do not
overlap or that the repository hardly changes, those about `GraphGauges` that
windows are numbered (`GaugeBounds`); section 3 says what happens
otherwise.

| theorem | statement | argument |
|---|---|---|
| `CheckoutPipelineProofs!TypeCorrect` | `Spec => []TypeOK` | inductive as it stands; one lemma for handlers, workers, interventions each. |
| `CustodyIsExclusive` | `Spec => []ExclusiveCustody` | by `Custody`, below. |
| `LockIsRespected` | `Spec => LockFreezesTable` | by `InserterOwnsLock`: a worker about to insert owns the lock, so the controller does not. |
| `PauseCostsOneItem` | `Spec => []PauseAllowsOneTake` | by `PausedTakesBounded`: a worker that took an item while paused passes the check, which sees the pause, before it pops again. |
| `MarksAreTrue` | `Spec => []BusyMarksWork` | by `MarksAgree`: the hashes agree with the step of each worker; needs `Custody` for the item in hand. |
| `AnswersAreTrue` | `Spec => []AnswersAreTruthful` | by `Agreement`, below. |
| `PipelineKeepsItsPromise` | `Spec => ImplementsPromise` | each step of a worker `MovesForward`, each step of a handler moves its own item or answers its own request. |
| `GaugeCoversHandlers` | `Spec => []InflightCoversHandlers` | inductive with the types: a step changes the set `Inside` by one handler at most (`OneDiffers`). |
| `CountersTrail` | `Spec => []CountersTrailTheWork` | by `WorkLadder` and `EnqueueLadder`, below. |
| `FaultMatrixProofs!TypeCorrect` | `Spec => []TypeOK` | inductive together with `HandsAreFull`: a worker past its dequeue holds an item, which is what it inserts and logs. |
| `BacklogIsFollowed` | `Spec => []BacklogFollowsQueue` | inductive together with `TypeOK`, below. |
| `CrossingsReported` | `Spec => []CrossingsAreReported` | by `LossesAreCounted`: a step leaves no more crossings unreported than calls it fails. |
| `MatrixKeepsThePromise` | `Spec => ImplementsPromise` | by a `Custody` and a `StatusAgrees` of its own; `Custody` gives `WrittenOnce`, so no item is ever seen in two rows (`ItemsAreSeen`); the promise of the other application, again step by step. |
| `CountersTrailLogs` | `Spec => []CountersTrailTheLogs` | by `RowsAccounted`, `CountsTrail` and `ReportLadder`, below. |
| `WindowsTrue` | `CaseSpec => []WindowsAreTrue` | by `AppInv` and `WindowInv`, below. |
| `RunsLeaveNothing` | `CaseSpec => []RunsEndClean` | the same, and `EndInv`, below. |
| `InterventionsProofs!TypeCorrect` | `Spec => []TypeOK` | inductive together with `Shape`: which locals a method in progress has, step by step. |
| `LockStaysRecoverable` | `Spec => []LockIsRecoverable` | by `SessionsOwnLock`: the controller holds the lock through exactly one open session, and that session's action is active or has just been popped by `close`. |
| `CloseLeavesNothing` | `Spec => []ReturnedCloseIsClean` | by `CloseSweeps`: `close` reaches its final DELETE only when no action is left, and returns only through it. |
| `EvidenceIsTrue` | `Spec => EvidenceFollowsEffect` | by `EffectsLast`: between the effect of a command and the POST of its evidence nothing takes the effect back. |
| `EvidenceExplains` | `Spec => []EvidenceExplainsMemory` | by `Books`, below. |
| `PausesAreNamed` | `Spec => []PausedWorkersAreNamed` | by `Books`: the workers a start recorded are those the controller remembers; and by `PausesAsAsked`: its choice is the right share of those registered, from the choice on. |
| `ArtifactProofs!PublishTypeCorrect` | `Spec => []TypeOK` | inductive with `NothingSeen` and `NumbersFit`: what is read has a number that was given out. |
| `PublishedTagIsItsCommit` | `Spec => []TagNamesItsCommit` | by `PublishInv`, below; executions that do not overlap. |
| `SuccessMeansComplete` | `Spec => DoneIsComplete` | the same invariant: the last step finds what it has to upload uploaded, and the rest was there. |
| `ReleaseKeepsPromise` | `Spec => KeepsPromise` | the same invariant; each step opens, adds, publishes, withdraws or leaves the promised release. |
| `RestoredTreeIsVerified` | `Spec => []DestinationIsVerified` | by `FetchInv`: a tree that is about to be renamed has passed the verification. |
| `OneFetchRestores` | `Spec => []OneRestores` | the same invariant: success is recorded by the rename that found the destination absent. |
| `RecordIsOfThePacked` | `Pack!Spec => Pack!RecordsWhatIsPacked` | by `RecordFinds`: what `record` found of the packed files is still so when it writes. |
| `RecordedBundlesRestore` | `Pack!Spec => []Pack!RecordedIsRestorable` | by `PacksWhatItNames` and `FilesRestorable`: the tree that is packed is the one that was identified. |
| `CaptureRunProofs!CaptureTypeCorrect` | `CaptureSpec => []CaptureTypeOK` | inductive together with the shape of the controller's method and the number of samples taken (`CaptureTyped`). |
| `WindowsAreBracketed` | `CaptureSpec => []CommandsBracketWindows` | by `Timing` and `ControlsFit`, below. |
| `SamplesAreConsistent` | `CaptureSpec => []RowsCoverWrites` | by `Answers`, the ladder of the application, and `Reads`. |
| `SamplesAreOfTheirWindow` | `CaptureSpec => []SampleSeesItsWindowOnly` | by `Answers`, `GaugeExact` and `PeakFits`. |
| `WindowsAreAccounted` | `CaptureSpec => []WindowAccountsForSchedule` | by all of these, `CountsExact`, `Verdicts` and `Snapshots`. |
| `RunsPassTheGate` | `CaptureSpec => []SuccessfulRunPassesTheGate` | by `ClosingFits`, `RunIsOnRecord` and `AllAttend`, below. |
| `CollectionLanesProofs!TypeCorrect` | `Spec => []TypeOK` | inductive, with the attestations as functions (`LanesTyped`). |
| `AttestationsAreSound` | `Spec => []AttestationIsSound` | by `WavesFit`, `FilesFit` and `PredecessorsFit`, below. |
| `LanesStayExclusive` | `Spec => []LanesAreExclusive` | by `WavesFit` and `OneOwner`: the threads under way are of one wave of one execution. |
| `CasesKeepProjects` | `Spec => []CasesKeepTheirProject` | inductive together with these two. |
| `ProjectsAreFresh` | `Spec => []FreshUnlessTearDownFailed` | by `LanesTidy`, below. |
| `ProjectsAreTornDown` | `Spec => []NothingLeftRunning` | the same invariant, when nobody is left to tear down. |
| `QualificationChainProofs!ChainTypeCorrect` | `Spec => []TypeOK` | inductive with `StagesFit`: who is at which stage. |
| `ChainHasOneWriter` | `Spec => []OneWriter` | by `EvidenceInv`, below. |
| `StagesCaptureOnEvidence` | `Spec => []ChainIsSound` | the same invariant. |
| `AttestedImagesRun` | `Spec => []AttestedImageRuns` | by `ImageInv`, below; executions that do not overlap. |
| `CampaignProofs!CampaignTypeCorrect` | `Spec => []TypeOK` | inductive as it stands. |
| `ConfirmationIsWrittenOnce` | `Spec => []NothingIsWrittenTwice` | by `OneWriter`, below. |
| `ResultsRestOnTheCampaign` | `Spec => []ResultFits` | by `ResultInv`: what each step of `score` has read, written and verified. |
| `ResultsAreSealed` | `Spec => []ResultIsSealed` | with `EditsFit` and `AloneInv`, below; one command at a time, or fewer than two edits. |
| `SelectionTypeCorrect` | `Selection!Spec => []Selection!TypeOK` | inductive with the number of a freeze: as many as the commands that have ended, at most. |
| `SelectionIsWrittenOnce` | `Selection!Spec => []Selection!NothingIsWrittenTwice` | by `OneStager`, as for confirmations. |
| `FreezesArePublishedWhole` | `Selection!Spec => []Selection!FreezesAreWhole` | by `FreezingInv`: one execution is past the `mkdir` of the staging directory, and what is in it follows from its step. |
| `SelectionsRestOnTheCampaign` | `Selection!Spec => []AssessmentFits` | by `SelectionInv`: all of `SelectionIsSealed` except what it says of the freeze. |
| `SelectionsAreSealed` | `Selection!Spec => []Selection!SelectionIsSealed` | with `FreezesFit` and `AloneFits`, below; one command at a time, or nothing that changes. |
| `CheckoutPipelineProofs!TracesTypeCorrect` | `Audit!Spec => []Audit!TypeOK` | by `Clocked`: the clock is the number of stamped items, hence bounded. |
| `CompleteTracesAreCheckouts` | `Audit!Spec => []Audit!AuditIsSound` | by `Carried` and `Claims`, below. |
| `AnswersLeaveTheirRoots` | `Audit!Spec => []Audit!AnswersLeaveRoots` | by `Clean`, below. |
| `LossesAreOfOneRace` | `Audit!Spec => []Audit!LossesAreExplained` | by `Clean` and `Ordered`, below. |
| `FaultMatrixProofs!GaugesTypeCorrect` | `Gauges!Spec => []Gauges!TypeOK` | inductive with `HandsFull` and `CurrentRead`: the reset writes a count that was read. |
| `DriftIsExplained` | `Gauges!Spec => []Gauges!InflightDriftIsExplained` | inductive with the types (`Drift`): a handler enters and leaves the set `Live` once. |
| `PeaksAreOfTheirWindow` | `Gauges!Spec => []Gauges!PeakIsOfItsWindow` | by `Drift` and `PeakKept`, below. |
| `SampledHandlersAnswered` | `Gauges!Spec => []Gauges!SampledHandlersHaveAnswered` | by `RunnerWaits`: a handler before its answer is of the window the runner waits for. |
| `MarksAreExplained` | `Gauges!Spec => []Gauges!BusyIsExplained` | by `BusyKnown` and `DyingKnown`: a worker that died of its transaction is past it. |
| `RowsAgree` | `Gauges!Spec => []Gauges!RowReadsAgree` | by `RowFits` and `Ladders`, below. |
| `CountersKeepOrder` | `Gauges!Spec => []Gauges!CountersFollowThePath` | by `CounterLadder`, below. |

`ExclusiveCustody` is not inductive: nothing in it keeps a handler from pushing
an item that is already in the list, or a worker from inserting an item that it
does not hold. `Custody` adds that a request whose handler has not pushed yet is
nowhere (`NotYet`), that the places exclude each other and the table agrees with
the steps of the holder (`OnePlace`), and that the hand of a worker is full
exactly while its step says so (`HandAgrees`). Most steps move no item; they
share the lemma `MovesNothingKeepsCustody`.

The refinement needs two more facts, `Agreement`. A worker that lets go of its
item without raising has stored it (`WriteAgrees`): the path from the commit to
the release leads through `"unmark"` and `"record"`, where the flag `failed` is
the only memory of whether the transaction raised. And the status a handler
carries agrees with the place of its item (`StatusAgrees`): it is 202 until
something fails, 503 only when nothing was and will be pushed. With them every
step of a worker moves at most one item, forward (`WorkMovesForward`): the LPOP
from the list to a hand or to `"lost"`, the commit to `"stored"`, a death in
possession to `"lost"`; a release moves nothing, because the row is there.
`FaultMatrix` is proved the same way with its scripts in the place of the
single commands; there a worker on its way out of the loop (`Doomed`) has lost
its item already.

`AnswersAreTruthful` follows from the promise, so no run checks it on its own.

The counters: `CountersTrailTheWork` compares each counter with the next, which
a step may break, because a counter is incremented in a call after the work.
`WorkLadder` counts the workers on each rung too (`Fetching`, `Claiming`,
`Writing`, `Committed`, `Releasing`): a counter and those on their way to it
never exceed the counter or the rows before it. A worker that dies takes its
slack with it. `EnqueueLadder` does the same for the handlers that have pushed.

The backlog of the fault matrix: the two scripts are the only steps that change
the list, and each sets the bucket of the length it leaves and records a
crossing only when the bucket changes (`AdvanceFollows`); no other step touches
the three keys (`QuietFollows`). A crossing that is neither logged nor carried
by a thread that still has to log it was in the hands of a call that failed
(`LossesAreCounted`); a worker that only counts its item is not counted as
carrying it, which is what makes the invariant inductive.

The counters of the fault matrix: `CountersTrailTheLogs` bounds each from both
sides. `RowsAccounted` and `CountsTrail` say that a count is missing only with a
worker that carries its row or with a pipeline that failed, and a pipeline that
fails costs a failed call, so the allowed lag (`Lag`) grows with it
(`LagGrows`). For the logs, `ApiDebt` and `Debt` are what handlers and workers
have counted, or are about to count, less what they reported; the counter of
failed reports is one for both, so only their sum is bounded (`ReportLadder`).

A case of the matrix: `AppInv` is what is known of the application, types,
custody, agreement and the two ladders; each of its lemmas is about one handler
or one worker step, so it holds beside the runner as it does beside the
environment, and what remains are the reset, which finds the list empty, and the
`TRUNCATE`. `WindowInv` carries a window: `RunShape` says where in its loop main
is and that an exception is on its way only in the `finally` clause; `Controls`
that the keys and the lock are those of the interval (`InForce` names the window
a start or stop has got to), and in `"unlock"` that the keys are already gone;
`Fresh` that nothing has touched the application before the first request, and
`InOrder` that the requests of earlier windows are settled (each answered with
what `ExpectedAt` says of its window) and those of later ones idle. So a
window is closed while no handler runs, and then the API's counters are the
requests sent so far exactly (`CountsExact`), unless a tally was swallowed. The
workers do go on between the three reads: `Snapshots` says of each what it still
bounds. The processed items that were read first are rows by the time these are
counted, the rows counted stay rows, and an item that was counted as a row is
not in the list that is measured last, since `ClosedItems` bounds the two
together by the accepted items.

`EndInv` is about the success of a normal case, whose drain check sees numbers
only. `ServedLadder` bounds the processed items and the full hands by the
requests that were pushed and popped; so when the counter has reached the
accepted requests, which are all of them, no list and no hand has an item left
(`Finished`), and no step of the application is left either (`FinishedStays`).
That the logs are then complete follows one record at a time: an answer 202 has
its record (`AcceptedLogged`), a counted item has its own by `LogLadder`, and a
crossing is in the logs, still to be logged by the thread that made it, or went
with a thread that failed, which left a 500 or an item that was lost
(`CrossingsKnown`, with `CrossingsBounded` for the converse), unless the run is
spoiled: an emit that failed is counted, which `CheckEmitErrors` would see, or
its count was swallowed, which the statement excepts. `FirstCrossing` says why
the first transition is not to `low`: the reset wrote that very bucket.

The controller: `LockIsRecoverable` and `EvidenceFollowsEffect` are about a
method in the middle of its calls, so the invariants say what is due at each of
its steps. `SessionsOwnLock` carries the connection from the `connect` of a
start to the `unlock` of a stop, over every exception in between; `EffectsLast`
carries the key that was set (`StartDue`, `DelayDue`) or deleted (`StopDue`) to
the read-back and the POST. `Books` relates the four records the controller and
the collector keep of one command: a command under way is not in `_command_ids`
(`CommandIsFresh`); a command has a record for its id and one more per failed
POST at most (`RecordsAreCounted`); as long as no call failed, memory differs
from the ids by the action whose record is due (`MemoryAgrees`); and the workers
named are those remembered (`WorkersAgree`). `PausesAsAsked` holds whatever
failed: it ties the choice to the registrations read with it, first in the locals
of the start, then in memory (`PauseTakesSomeone` shows that it is not empty).

The capture: what is claimed of a sample is about the end of a window, and what
makes it true happened before, in three components. `Timing`: a command is
issued at its transition, a start when no action is under way, a stop when its
own is, because the actions of a case do not overlap and a stop precedes a start
of the same index (`Precedes`). `ControlsFit`: as long as nothing raised, the
keys, the pause and the lock are those of the action under way, except for the
one a start or stop is dealing with (`Held`). `Answers`: a request whose window
has not begun is not sent, one whose window is over was answered in time with
202 or 503; so outside the wait for answers no handler is running
(`QuietOutsideAwait`). It follows that no handler of a run that goes on was
broken off, and then the gauge counts the handlers inside exactly
(`GaugeExact`), the counters count the requests exactly (`CountsExact`), and
`PeakFits` carries the peak of a window over the GET and the SET to the next.
`Verdicts`: a request was rejected exactly if the schedule rejects it, since it
passed its gate while the controls stood (`RejectionIsScheduled`). `Reads` and
`Snapshots` say what the two snapshots main holds have counted at each of its
steps, although the workers go on between the reads. For the application's own
steps the proofs cite its lemmas (`ItemsFit` is `Custody`, `Agreement` and
`WorkLadder` again, kept by the runner's `DELETE` and `TRUNCATE` because nothing
was sent before them).

`SuccessfulRunPassesTheGate` speaks of the last state of a run, and of evidence
that was posted all along. `RunIsOnRecord` says what the collector has at every
state of a run without an exception so far (`Orderly`): one record of each
boundary that main has got past, one of each command issued except the one under
way (`Logged`), and for each start on record a choice of workers that the
controller remembers until the stop is issued, that the stop then carries, and
that the record of the stop names (`ActionOnRecord`). `RecordFits` says which
record is under way and what it will say, `FailuresStay` that an exception is
not forgotten on the way out of the `try` (without it a run could end well after
one), and `EndsFit` that the loop ends with all samples taken, no command left
and so nothing for `close` to stop. The closed boundary is true of failed runs
too: `ClosingFits` carries what the final DELETE has cleared over the read-back
and the POST. How many workers a pause names is settled when it chooses
(`ChoiceFits`, and `AsWanted` for the choice on record). That it chooses from all
of them unless `MayLapse` rests on `AllAttend`: until the first request is sent
and as long as no call failed, every worker is in its loop without an item, so
its registration is never overdue (`NobodyOverdue`), and all are registered once
the runner has waited for them.

The collections: the plan is arithmetic, so the proof begins with what quotient
and remainder say of it. The wave and the lane of a case determine it
(`TurnAndLane`), there are waves enough for all cases (`TurnsOfPlan`) and the
plan uses every lane (`LanesOfPlan`; this needs as many pairs as lanes).
`WavesFit` is the loop of `collect_action_cases`: the cases of earlier waves are
completed, those of later ones have not begun, and the loop is left when all are
completed or, with an exception, when no thread is left; that leaving the
executor waits for its threads is what makes the second half true. `FilesFit`
gives each step of a thread the files written before it, and says that a thread
on which an exception is under way does not complete; `PredecessorsFit` that
whoever has its manifest found the earlier waves completed. Together they make an
attestation true when it is written, and nothing is deleted afterwards. Across
executions, `OneOwner`: those that overlap have the same output directory and one
of them at most has created it, since `mkdir` fails for the second; the other
never reaches the lanes. `LanesTidy`: unless a tear-down failed or a process was
killed, what is in a project belongs to a thread that will tear it down, or to an
execution whose clean-up has not passed the lane yet. A thread that dies in its
`finally` clause before the tear-down leaves its project to the clean-up: that is
why a case that failed is on the list (`Leaves`), and why no wave may follow one
in which a case failed.

The publication: every execution reads first and changes the remote later, in
calls of their own, so the invariant says of each step what has been read and is
still so. `RemoteFits` is about the remote alone: there is one release, each of
its assets is of the commit it is for, and it is published only complete and
under its own tag. `ReadingFits` is about one execution: what it read is there
until it plans (`"tag"`), nothing is there until it creates (`"create"`), and
from then on it `WorksOn` the one release: what it will not upload is uploaded,
and what it will delete is a starter with the id it read. Other executions keep
all of this by not running (`OneRuns`), the operator by publishing only what is
complete and deleting only when nobody runs. The hypothesis `~Overlap` is
what `KeepsPromise` needs: two drafts of executions that overlap break it
(section 3). `ReleaseBounds` says that the bounds are numbers
and every execution is for a commit; it is a hypothesis of each of the four
theorems.

The chain of stages: `ChainIsSound` says of complete evidence that the evidence
below it is complete and its own, which is not inductive, because nothing in it
keeps a second execution from completing a directory, or a plan from being
rewritten after it was read. `EvidenceInv` has one part for each:
`DirectoryIsOwned` (a directory that has a file has one writer, for `mkdir`
fails for the second), `FilesInOrder` (the files appear in the order of the
steps, so a complete assessment has a plan under it) and `PlanIsSound` (what a
plan was bound to is complete, of the stage below, and of the same context);
and, for an execution, `WritesInOrder` (what it has yet to write is not there),
`ReadsItsContext` and `BindsEvidence` (what it has read is still what the files
say). Evidence that was read stays as it is (`EvidenceStays`), because no file is
written twice. `AttestedImageRuns` is about a tag that every execution moves:
`ImageInv` says that the tag still names the image inspected and that each twin
started since ran it, which needs that nobody else builds in between
(`OneRuns`).

The campaigns: that nothing is written twice needs the phases. Each of the three
directories of a campaign is made once, since `mkdir` fails when it is there, and
each file of it is written in the phase that began with that `mkdir`. `OneWriter`
(`OneStager` for a selection) says for each phase that one execution at most is in
it, that its directory is there, and that the files it has still to write are not
(`Due`, `Awaited`). The name of a file may then be cut short by the one execution
that writes it and by no other, so a file that is whole stays whole. `ResultInv`
and `SelectionInv` follow `score` from there: what it read, what it wrote, and that
nobody else predicts in between; captures, models and edits are compared with what
was read unless one of them was changed in that very interval (`disturbed`, and
the counts in `ModelFits` and `Taken`).

The clauses about edits count readings. In a confirmation, a protocol that names
the contract of one commit and another commit as its own (`Mixed`) takes edits:
`Place` puts the four states of HEAD and tree in a row, an edit moves by one, and
the invariant says how many moves each reading has cost and how many are needed
to get back (`MixedCosts` for `prepare`, `ScoreCosts` for `score`, which must see
the wrong contract and the right commit once more). The part about `score` needs
that commands do not overlap: with two edits and two commands at once, `score`
may read the contract before `prepare` writes the protocol, and the bound is two
edits less (TLC finds such a behaviour with `MaxAlive = 2` and `MaxEdits = 2`).
In a selection, the four readings of `fit-and-freeze` are related to the number
of changes (`CommitFits`, `RecipeFits`, `SourceFits`), whoever runs; the
preflight of `prepare` then sees a clean tree and the pinned evidence after the
freeze was published, which is worth one more change of either (`Judged`), and
the assessor compares the sources and HEAD with the freeze at the end
(`AssessorCompares`). `Judged` says what the preflight has found out about the
freeze that is there, so it needs that nobody publishes another one between the
preflight and the binding: one command at a time. Without it, a freeze that was
made of changed evidence may appear behind the back of the preflight.

The packing: `record` reads the index first and compares archives and checksums
with it one by one; nothing else runs on the output directory meanwhile, so what
it compared holds until it writes (`RecordFinds`). That a recorded bundle
restores the trees it names is about `pack`, which identifies a tree and archives
it in two readings: `PacksWhatItNames` follows the loop over the slugs, and the
index and the record only repeat it.

The trace audit: what the gate says of a trace is about spans and events that
were posted long after the facts. `Carried` is custody again, with the readings
of the clock: an item that waits has no row and no dequeue yet, and one in a hand
has a row exactly from the step after its commit. With it the two events are
true (`Claims`). The gate also compares the starts of the spans, so `Ordered`
says which reading of the clock came before which, and `Clocked` that the clock
counts the stamps, which makes an item's residence strictly later than what was
read before its push. The only comparison missing from `Ordered` is the one
between a dequeue and the residence it ends: the worker reads its clock before
the LPOP. `Clean` says, as long as no call broke, which spans and events a
request has at each step of its handler and of its worker: the API posts the
root before it answers, and every span of a worker has a parent that was posted
or will be before the answer. What is at rest and not complete then fails by the
one comparison that is missing.

The gauges: the runner reads one field after another while handlers and workers
go on, so the invariant says of each read what still holds of it. `RunnerWaits`
leaves only handlers that have answered while the runner samples; the count can
then only fall, so what was read for it stays an upper bound of it and a lower
one of the peak (`PeakKept`, as long as no update was lost), and the reset to
that reading does not cut off a handler. The list cannot grow either, so a list
read as empty has no head afterwards. `RowFits` carries each field to the end of
the row: more rows may be written after they were counted, but an item leaves
the list for a hand before it is a row, and `ItemLadder` bounds rows, list and
hands together by the requests handed over. `WorkLadder` and `CounterLadder`
count the workers between two counters, as in the applications; a worker whose
commit raised has left the path, whether its row is there or not. That a commit
adds a row is custody once more (`Items`).

The lemmas and assumptions of an *instantiated* module
cannot be cited by this prover, so the controller's types and shape are proved
again for its instance `Ctl`.

The runs check `CollectionLanes` on three instances at once, as the conjunctions
of `CollectionsAreSound`, `QualificationChain` on two, as those of
`ChainsAreSound`, `SealedCampaign` and `FrozenSelection` on two each, as those of
`CampaignsAreSealed`, `TraceAudit` and `GraphGauges` on two each, as those of
`TracesAreSound` and `GaugesAreSound`, and the modules of the distribution as
parts of `BundlesAreWhole` and `PublishKeepsPromise`; the theorems are about these parts,
for all constants.

Only model-checked: everything of the other modules (`MetricWindows`,
`AlertRuns`), and `TwinStartsOnFreshProject`, which does not hold (section 3). Liveness under
fairness is out of the prover's reach and stays with TLC (`RunEnds`,
`RequestsAreServed`, `RunsEndAndServe`, `CollectionsEnd`, `ReleasesEnd`), and
so do the folds over data of `MetricWindows` and `AlertRuns`, which would need
induction.

## 5. Not modelled, and why

* Real time: delays, ages, sample periods, and hence the effect of an
  intervention on a series. The expiry of registrations is the set `Overdue`.
* A crash of Redis, PostgreSQL or the runner in the middle of a run: the
  containers have no volumes and the collection then fails and tears down the
  lane. The end of the runner's process after an exception is modelled, and
  what a collection does when it is killed.
* `GET /health`, `do_POST` on another path or with missing coordinates: they
  change no state.
* A retry by the client: the runner makes none.
* The validity of plans and protocols (case counts, seeds, schedules), the
  numerical gates of assessments, the 2 GiB limits of assets, `verify` of a
  tree beyond its hash: single pass and pure.
* Other campaigns: `collect_contextual_confirmation`, the low-rank
  confirmation and the richer-regime campaigns. The first two are built like
  `SealedCampaign`, the last ones like `FrozenSelection`. Two things a
  reader of them should know: `--prepare-only` of the richer-regime retry
  uses up the shard it prepares, and a preparation killed while it writes the
  observation schema leaves a campaign that can be collected but never scored.
* Delta and gauge metric points, the OTLP parsers, the log compiler: pure, and
  without the state that makes cumulative points hard.
* The rest of the graph lab (`run_confirmation.py` and the corpus compilers),
  the first fault lab (superseded), catalog tools, contracts and corpora,
  command line.
* Models, detectors, training and evaluation: floating point and arrays, no
  state that another process sees. With the prototypes under
  `lab/action_dynamics/` they are the greater part of the repository's lines,
  which is why the models map to a small share of them.

## 6. Plan

In order:

1. The richer-regime campaigns (`run_richer_regime_retry.py`), with the shards
   of a collection that is resumed.
