---------------------------- MODULE FaultMatrixRun ----------------------------
(***************************************************************************)
(* One case of the fault matrix (src/lab/fault_matrix/run_experiment.py):  *)
(* the runner waits for the workers, resets Redis and the table, and then, *)
(* window after window, starts or stops the case's fault, sends the        *)
(* window's requests, waits for all answers, reads counters, rows and the  *)
(* list's length and emits one sample.  A normal case has no fault; it     *)
(* waits until the accepted work is done and emits a drain boundary.       *)
(*                                                                         *)
(* The application (FaultMatrix) runs beside it on the same Redis and the  *)
(* same PostgreSQL.  Its environment is the runner: instead of Inject and  *)
(* Withdraw, which come at any moment, there are the calls of main.        *)
(***************************************************************************)
EXTENDS FaultMatrix

CONSTANTS
  Kinds,                  \* fault kinds of the cases: FaultKinds or "none"
  PointCount,             \* point_count: the number of windows
  FaultStart, FaultStop,  \* structural_interval of a fault case
  Window,                 \* the window in which each request is sent
  MaxPolls                \* bound: attempts of the drain check (600)

FaultKinds == {"worker_crash", "cache_outage", "database_lock"}

ASSUME CaseAssumption ==
  /\ Kinds \subseteq FaultKinds \cup {"none"}
  /\ PointCount \in Nat \ {0} /\ MaxPolls \in Nat \ {0}
  /\ Kinds # {"none"} => /\ FaultStart \in 1 .. PointCount
                         /\ FaultStop \in (FaultStart + 1) .. PointCount
  /\ Window \in [Requests -> 0 .. PointCount - 1]

VARIABLES
  runner,       \* the next step of main
  kind,         \* fault_kind
  point,        \* point_index
  connection,   \* lock_connection is open
  failing,      \* an exception is on its way through main
  timedOut,     \* requests whose client gave up
  previous, current,   \* counters and rows of the last window and of this one
  depth,        \* queue_depth of this window's sample
  polls         \* attempts of the drain check so far

appRest == <<apiPc, status, seen, workerPc, hand, found, busy, logs, swallowed, injected>>
appVars == <<queue, backlog, crossings, counters, instances, table, appRest>>
sample == <<previous, current, depth>>
runVars == <<runner, failing, point, connection, polls>>
caseVars == <<appVars, crash, outage, lockOwner, faults, runVars, kind, timedOut, sample>>

RunnerSteps ==
  {"boot", "reset", "truncate", "baseline", "baselineRows", "check", "fault", "unlock",
   "await", "counters", "rows", "depth", "emit", "drain", "drainDepth", "boundary",
   "errors", "closing", "closingUnlock"}
Ends == {"done", "failed", "unswept"}

NoSample == [counters |-> NoCounts, rows |-> 0]

CaseTypeOK ==
  /\ TypeOK
  /\ runner \in RunnerSteps \cup Ends
  /\ kind \in Kinds
  /\ point \in 0 .. PointCount
  /\ connection \in BOOLEAN /\ failing \in BOOLEAN
  /\ timedOut \in SUBSET Requests
  /\ {previous, current} \subseteq [counters : [CounterNames -> Nat], rows : Nat]
  /\ depth \in Nat
  /\ polls \in 0 .. MaxPolls

CaseInit ==
  /\ Init
  /\ backlog = "unset"
  /\ runner = "boot"
  /\ kind \in Kinds
  /\ point = 0
  /\ connection = FALSE
  /\ failing = FALSE
  /\ timedOut = {}
  /\ previous = NoSample /\ current = NoSample
  /\ depth = 0
  /\ polls = 0

-----------------------------------------------------------------------------
At(step) == runner = step

(* The runner goes on; its other locals stay. *)
Goto(step) ==
  /\ runner' = step
  /\ UNCHANGED <<failing, point, connection, polls>>

(* An exception inside the try of main: the finally clause runs. *)
Raises ==
  /\ runner' = "closing" /\ failing' = TRUE
  /\ UNCHANGED <<point, connection, polls>>

(* The end of the process closes its sessions: the lock is released. *)
EndsAs(end) ==
  /\ runner' = end
  /\ lockOwner' = IF lockOwner = Runner THEN Nobody ELSE lockOwner
  /\ UNCHANGED <<failing, point, connection, polls>>

-----------------------------------------------------------------------------
(* Before the try: an exception ends the process. *)

DropOverdue == \E stale \in SUBSET Overdue : instances' = instances \ stale

(* _wait_until_ready: 120 attempts; it gives up when a worker is lost, or *)
(* when the stack is too slow, which counts as a fault.                   *)
WaitUntilReady ==
  /\ At("boot")
  /\ \/ Works /\ instances = Workers /\ Goto("reset") /\ UNCHANGED <<instances, lockOwner>>
     \/ Breaks /\ DropOverdue /\ EndsAs("failed")
     \/ /\ Works /\ DropOverdue /\ EndsAs("failed")
        /\ instances' # Workers
        /\ \E w \in Workers : workerPc[w] \in {"dead", "exited"}
  /\ UNCHANGED <<queue, backlog, crossings, counters, table, appRest, crash, outage, kind,
                 timedOut, sample>>

(* Faulty Reset: the state key is deleted but not set. *)
ResetWithoutState ==
  /\ At("reset")
  /\ Works /\ Goto("truncate")
  /\ queue' = <<>> /\ counters' = NoCounts /\ backlog' = "unset"
  /\ crash' = FALSE /\ outage' = FALSE
  /\ UNCHANGED <<crossings, instances, table, appRest, lockOwner, kind, timedOut, sample>>

(* One MULTI/EXEC: DELETE of the keys, SET of the state to low. *)
Reset ==
  LET Exec == /\ queue' = <<>> /\ counters' = NoCounts /\ backlog' = "low"
              /\ crash' = FALSE /\ outage' = FALSE
      written == <<queue, counters, backlog, crash, outage>>
  IN  /\ At("reset")
      /\ \/ Works /\ Exec /\ Goto("truncate") /\ UNCHANGED lockOwner
         \/ Breaks /\ (Exec \/ UNCHANGED written) /\ EndsAs("failed")
      /\ UNCHANGED <<crossings, instances, table, appRest, kind, timedOut, sample>>

(* TRUNCATE, then _counters: the one before the first window. *)
Truncate ==
  LET empty == table' = [r \in Requests |-> 0]
  IN  /\ At("truncate")
      /\ \/ Works /\ empty /\ Goto("baseline") /\ UNCHANGED lockOwner
         \/ Breaks /\ (empty \/ UNCHANGED table) /\ EndsAs("failed")
      /\ UNCHANGED <<queue, backlog, crossings, counters, instances, appRest, crash,
                     outage, kind, timedOut, sample>>

RowCount == Cardinality({r \in Requests : table[r] > 0})

Baseline(step, next) ==
  /\ At(step)
  /\ \/ Works /\ Goto(next) /\ UNCHANGED lockOwner
     \/ Breaks /\ EndsAs("failed")
  /\ previous' = IF step = "baseline" THEN [previous EXCEPT !.counters = counters]
                 ELSE [previous EXCEPT !.rows = RowCount]
  /\ UNCHANGED <<appVars, crash, outage, kind, timedOut, current, depth>>

-----------------------------------------------------------------------------
(* One window *)

First == IF kind = "none" THEN PointCount ELSE FaultStart
Last == IF kind = "none" THEN PointCount ELSE FaultStop
InFault == First <= point /\ point < Last

(* Before the fault every worker has to be alive. *)
CheckWorkers ==
  /\ At("check")
  /\ \/ point >= First /\ Works /\ Goto("fault") /\ UNCHANGED instances
     \/ /\ point < First /\ Works /\ DropOverdue
        /\ IF instances' = Workers THEN Goto("fault") ELSE Raises
     \/ point < First /\ Breaks /\ DropOverdue /\ Raises
  /\ UNCHANGED <<queue, backlog, crossings, counters, table, appRest, crash, outage,
                 lockOwner, kind, timedOut, sample>>

NoFaultDue ==
  /\ At("fault") /\ (kind = "none" \/ point \notin {First, Last})
  /\ Works /\ Goto("await")
  /\ UNCHANGED <<appVars, crash, outage, lockOwner, kind, timedOut, sample>>

(* The effect of _start_fault on Redis or PostgreSQL. *)
Started ==
  CASE kind = "worker_crash" -> crash' = TRUE /\ UNCHANGED <<outage, lockOwner>>
    [] kind = "cache_outage" -> outage' = TRUE /\ UNCHANGED <<crash, lockOwner>>
    [] OTHER -> lockOwner = Nobody /\ lockOwner' = Runner /\ UNCHANGED <<crash, outage>>

(* SET of a key, or connect and pg_advisory_lock, which waits.  When the   *)
(* call raises, lock_connection stays None although the lock may be held.  *)
StartFault ==
  /\ At("fault") /\ kind # "none" /\ point = First
  /\ \/ /\ Works /\ Started
        /\ runner' = "await" /\ connection' = (kind = "database_lock")
        /\ UNCHANGED <<failing, point, polls>>
     \/ Breaks /\ (Started \/ UNCHANGED <<crash, outage, lockOwner>>) /\ Raises
  /\ UNCHANGED <<appVars, kind, timedOut, sample>>

(* Faulty Delete: the outage key is forgotten. *)
DeleteCrashOnly == crash' = FALSE /\ UNCHANGED outage

(* DELETE WORKER_CRASH, CACHE_OUTAGE. *)
Delete == crash' = FALSE /\ outage' = FALSE

Unlock == lockOwner' = IF lockOwner = Runner THEN Nobody ELSE lockOwner

(* _stop_fault at fault_stop: the DELETE, then the unlock and close. *)
StopFault ==
  /\ At("fault") /\ kind # "none" /\ point = Last
  /\ \/ Works /\ Delete /\ Goto(IF connection THEN "unlock" ELSE "await")
     \/ Breaks /\ (Delete \/ UNCHANGED <<crash, outage>>) /\ Raises
  /\ UNCHANGED <<appVars, lockOwner, kind, timedOut, sample>>

(* Faulty StopLock: the connection is kept for the next window. *)
StopLockLater ==
  /\ At("unlock")
  /\ Works /\ runner' = "await" /\ connection' = FALSE
  /\ UNCHANGED <<appVars, crash, outage, lockOwner, failing, point, polls, kind, timedOut,
                 sample>>

StopLock ==
  /\ At("unlock")
  /\ \/ Works /\ Unlock /\ runner' = "await" /\ connection' = FALSE
        /\ UNCHANGED <<failing, point, polls>>
     \/ Breaks /\ (Unlock \/ UNCHANGED lockOwner) /\ Raises
  /\ UNCHANGED <<appVars, crash, outage, kind, timedOut, sample>>

Submitted == {r \in Requests : Window[r] = point}

(* _checkout in a pool thread: the request reaches the API. *)
Checkout(r) ==
  /\ At("await") /\ r \in Submitted \ timedOut
  /\ UNCHANGED <<runVars, kind, timedOut, sample>>
  /\ Send(r)

Resolved(r) == r \in timedOut \/ apiPc[r] \in {"answered", "dropped"}

(* No answer within three seconds; the handler may go on. *)
TimeOut(r) ==
  /\ At("await") /\ r \in Submitted /\ ~Resolved(r)
  /\ Breaks
  /\ timedOut' = timedOut \cup {r}
  /\ UNCHANGED <<appVars, crash, outage, lockOwner, runVars, kind, sample>>

Expected == IF kind = "cache_outage" /\ InFault THEN 503 ELSE 202

Accepts(r) == r \notin timedOut /\ apiPc[r] = "answered" /\ status[r] = Expected

(* Faulty Gathered: the results of the futures are not awaited. *)
GatheredWithoutWaiting ==
  /\ At("await") /\ Works
  /\ Goto("counters")
  /\ UNCHANGED <<appVars, crash, outage, lockOwner, kind, timedOut, sample>>

(* result() of every future: an exception leaves the with block, which     *)
(* waits for the others.                                                   *)
Gathered ==
  /\ At("await") /\ Works
  /\ \A r \in Submitted : Resolved(r)
  /\ IF \A r \in Submitted : Accepts(r) THEN Goto("counters") ELSE Raises
  /\ UNCHANGED <<appVars, crash, outage, lockOwner, kind, timedOut, sample>>

(* One read of Redis or PostgreSQL. *)
Read(step, next) ==
  /\ At(step)
  /\ \/ Works /\ Goto(next)
     \/ Breaks /\ Raises
  /\ UNCHANGED <<appVars, crash, outage, lockOwner, kind, timedOut, previous>>

ReadCounters ==
  /\ Read("counters", "rows")
  /\ current' = [current EXCEPT !.counters = counters] /\ UNCHANGED depth

ReadRows ==
  /\ Read("rows", "depth")
  /\ current' = [current EXCEPT !.rows = RowCount] /\ UNCHANGED depth

(* GET heartbeat, LLEN. *)
ReadDepth ==
  /\ Read("depth", "emit")
  /\ depth' = Len(queue) /\ UNCHANGED current

(* The POST of the sample; the loop goes on with the next window. *)
EmitSample ==
  /\ At("emit")
  /\ \/ /\ Works
        /\ point' = point + 1
        /\ runner' = IF point' < PointCount THEN "check"
                     ELSE IF kind = "none" THEN "drain" ELSE "errors"
        /\ previous' = current
        /\ UNCHANGED <<failing, connection, polls>>
     \/ Breaks /\ Raises /\ UNCHANGED previous
  /\ UNCHANGED <<appVars, crash, outage, lockOwner, kind, timedOut, current, depth>>

-----------------------------------------------------------------------------
(* The drain of a normal case *)

(* Faulty PollAgain: the attempts are not counted. *)
PollAgainForever ==
  /\ runner' = "drain"
  /\ UNCHANGED <<failing, point, connection, polls>>

PollAgain ==
  /\ polls' = polls + 1
  /\ IF polls' = MaxPolls THEN runner' = "closing" /\ failing' = TRUE
                          ELSE runner' = "drain" /\ UNCHANGED failing
  /\ UNCHANGED <<point, connection>>

Drained ==
  counters["worker_processed"] >= counters["api_requests"] - counters["api_errors"]

(* _wait_for_normal_completion: HGETALL COUNTERS *)
PollCounters ==
  /\ At("drain")
  /\ \/ Works /\ IF Drained THEN Goto("drainDepth") ELSE PollAgain
     \/ Breaks /\ Raises
  /\ UNCHANGED <<appVars, crash, outage, lockOwner, kind, timedOut, sample>>

(* LLEN, and LLEN again 50 ms later: nothing is pushed any more. *)
PollDepth ==
  /\ At("drainDepth")
  /\ \/ Works /\ IF queue = <<>> THEN Goto("boundary") ELSE PollAgain
     \/ Breaks /\ Raises
  /\ UNCHANGED <<appVars, crash, outage, lockOwner, kind, timedOut, sample>>

(* _emit_drain_boundary *)
EmitBoundary ==
  /\ At("boundary")
  /\ \/ Works /\ Goto("errors")
     \/ Breaks /\ Raises
  /\ UNCHANGED <<appVars, crash, outage, lockOwner, kind, timedOut, sample>>

CheckEmitErrors ==
  /\ At("errors")
  /\ \/ Works /\ IF counters["application_log_emit_errors"] = 0 THEN Goto("closing")
                                                                ELSE Raises
     \/ Breaks /\ Raises
  /\ UNCHANGED <<appVars, crash, outage, lockOwner, kind, timedOut, sample>>

-----------------------------------------------------------------------------
(* The finally of main: _stop_fault again, then the end of the process. *)

End == IF failing THEN "failed" ELSE "done"

Close ==
  /\ At("closing")
  /\ \/ kind = "none" /\ Works /\ EndsAs(End) /\ UNCHANGED <<crash, outage>>
     \/ kind # "none" /\ Works /\ Delete
        /\ IF connection THEN Goto("closingUnlock") /\ UNCHANGED lockOwner ELSE EndsAs(End)
     \/ kind # "none" /\ Breaks /\ (Delete \/ UNCHANGED <<crash, outage>>)
        /\ EndsAs("unswept")
  /\ UNCHANGED <<appVars, kind, timedOut, sample>>

CloseLock ==
  /\ At("closingUnlock")
  /\ \/ Works /\ EndsAs(End)
     \/ Breaks /\ EndsAs("failed")
  /\ UNCHANGED <<appVars, crash, outage, kind, timedOut, sample>>

-----------------------------------------------------------------------------
RunnerStep ==
  \/ WaitUntilReady \/ Reset \/ Truncate
  \/ Baseline("baseline", "baselineRows") \/ Baseline("baselineRows", "check")
  \/ CheckWorkers \/ NoFaultDue \/ StartFault \/ StopFault \/ StopLock
  \/ Gathered \/ ReadCounters \/ ReadRows \/ ReadDepth \/ EmitSample
  \/ PollCounters \/ PollDepth \/ EmitBoundary \/ CheckEmitErrors
  \/ Close \/ CloseLock

CaseHandler(r) == UNCHANGED <<runVars, kind, timedOut, sample>> /\ Handler(r)
CaseWork(w) == UNCHANGED <<runVars, kind, timedOut, sample>> /\ Work(w)

CaseNext ==
  \/ RunnerStep
  \/ \E r \in Requests : Checkout(r) \/ TimeOut(r) \/ CaseHandler(r)
  \/ \E w \in Workers : CaseWork(w)

CaseSpec == CaseInit /\ [][CaseNext]_caseVars

(* Every thread and process is scheduled; a lock that is asked for again    *)
(* and again between transactions is granted in the end.                    *)
Fairness ==
  /\ WF_caseVars(RunnerStep) /\ SF_caseVars(StartFault)
  /\ \A r \in Requests : WF_caseVars(Checkout(r)) /\ WF_caseVars(CaseHandler(r))
  /\ \A w \in Workers : WF_caseVars(CaseWork(w))

FairCaseSpec == CaseSpec /\ Fairness

-----------------------------------------------------------------------------
Sampling == {"await", "counters", "rows", "depth", "emit"}

(* The label of a window is true: while its requests run and its sample is  *)
(* taken, the fault of the manifest is in force exactly inside the          *)
(* structural interval, and no other one is.                                *)
FaultsMatchLabels ==
  runner \in Sampling =>
    /\ crash = (kind = "worker_crash" /\ InFault)
    /\ outage = (kind = "cache_outage" /\ InFault)
    /\ (lockOwner = Runner) = (kind = "database_lock" /\ InFault)

(* A sample accounts for its window: as many requests as were submitted in  *)
(* it, as errors the answers of an outage, and, although counters, rows and *)
(* length are read one after the other, no more rows and queued items than  *)
(* were accepted and no processed item without its row.                     *)
SampleAccountsForWindow ==
  LET delta(c) == current.counters[c] - previous.counters[c]
      sent == Cardinality(Submitted)
      accepted == current.counters["api_requests"] - current.counters["api_errors"]
  IN  runner = "emit" =>
        /\ current.counters["worker_processed"] <= current.rows
        /\ "api" \notin swallowed =>
             /\ delta("api_requests") = sent
             /\ delta("api_errors") = IF Expected = 503 THEN sent ELSE 0
             /\ current.rows + depth <= accepted

(* A normal run that succeeds has every checkout in the logs, accepted and  *)
(* completed, and every backlog transition, the first of them not "low";    *)
(* provided no Redis failure was swallowed on the way.                      *)
SuccessIsFullyLogged ==
  runner = "done" /\ kind = "none" /\ swallowed = {} =>
    /\ logs.accepted = Requests /\ logs.completed = Requests
    /\ logs.crossings = 1 .. Len(crossings)
    /\ crossings # <<>> => crossings[1] # "low"

(* A run leaves no fault behind: at its end the lock is free, and the keys  *)
(* are gone unless the last DELETE itself raised.                           *)
NothingLeftBehind ==
  /\ runner \in Ends => lockOwner # Runner
  /\ runner \in {"done", "failed"} => ~crash /\ ~outage

(* The state has its type, every label is true and every sample consistent. *)
WindowsAreTrue == CaseTypeOK /\ FaultsMatchLabels /\ SampleAccountsForWindow

(* A run leaves no fault behind, and one that succeeds has logged all.      *)
RunsEndClean == NothingLeftBehind /\ SuccessIsFullyLogged

(* Every run ends, whatever one call breaks and whoever dies. *)
RunEnds == <>(runner \in Ends)

(* What was accepted is stored in the end, since the run ends its fault,    *)
(* unless the worker that took it was lost or no worker is left.            *)
AcceptedIsCompleted ==
  \A r \in Requests :
    apiPc[r] = "answered" /\ status[r] = 202 ~>
      \/ Stored(r)
      \/ Holders(r) \cap Doomed # {}
      \/ \A w \in Workers : w \in Doomed \/ workerPc[w] = "exited"
=============================================================================
