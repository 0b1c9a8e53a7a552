------------------------------ MODULE FaultMatrix ------------------------------
(***************************************************************************)
(* The application of the fault matrix (src/lab/fault_matrix/service.py    *)
(* and application_logging.py): handler threads enqueue checkout work with *)
(* a Redis script, workers dequeue it with another one, and both report    *)
(* what they saw as OTLP logs.  The scripts keep a cached bucket of the    *)
(* list's length next to the list and return a transition when it changes. *)
(*                                                                         *)
(* One action is one external call: a Redis command, script or pipeline,   *)
(* a PostgreSQL statement, one POST to the collector.  A call works or     *)
(* breaks, and one that broke may have been executed; MaxFaults bounds how *)
(* often that happens.                                                     *)
(*                                                                         *)
(* A transition is named by its place in Redis order, which is what the    *)
(* TIME call inside the script records.  Latencies, severities and the     *)
(* events of latency buckets are left out.                                 *)
(***************************************************************************)
EXTENDS Integers, Sequences, FiniteSets

CONSTANTS
  Requests,              \* POST /checkout calls, each sent at most once
  Workers,               \* worker processes
  Runner,                \* the runner's database session, for the lock fault
  Nobody,                \* no lock owner, no item in hand
  LowMax, ElevatedMax,   \* longest list that is "low", "elevated" (2 and 8)
  MaxFaults,             \* bound: calls that fail
  MaxControls            \* bound: faults the environment injects

ASSUME MatrixBounds ==
  /\ LowMax \in Nat /\ ElevatedMax \in Nat /\ LowMax < ElevatedMax
  /\ MaxFaults \in Nat /\ MaxControls \in Nat

ASSUME MatrixActors == IsFiniteSet(Requests) /\ IsFiniteSet(Workers)

ASSUME MatrixNames ==
  /\ Nobody \notin Requests \cup Workers
  /\ Runner \notin Workers \cup {Nobody}

VARIABLES
  queue,          \* QUEUE, the Redis list
  backlog,        \* QUEUE_BACKLOG_STATE
  crossings,      \* history: the states the scripts set, in Redis order
  counters,       \* COUNTERS
  instances,      \* WORKER_INSTANCES
  crash, outage,  \* WORKER_CRASH, CACHE_OUTAGE
  table,          \* completed_checkout: rows written for each request
  lockOwner,      \* the session that holds DATABASE_ADVISORY_LOCK
  logs,           \* log records the collector has
  apiPc, status,  \* each handler thread: its next step, its HTTP status
  seen,           \* each handler: the transition its script returned, or 0
  workerPc, hand, \* each worker: its next step, the item it popped
  found,          \* each worker: the transition its script returned, or 0
  busy,           \* workers whose flag worker_busy is set
  swallowed,      \* history: pipelines whose failure was ignored
  faults,         \* failed calls so far
  injected        \* faults the environment has injected

listVars   == <<queue, backlog, crossings>>
controls   == <<crash, outage, injected>>
database   == <<table, lockOwner>>
reports    == <<counters, logs, swallowed>>
apiVars    == <<apiPc, status, seen>>
workerVars == <<workerPc, hand, found, busy>>
vars == <<listVars, instances, controls, database, reports, apiVars, workerVars, faults>>

Buckets == {"low", "elevated", "high"}

CounterNames == {"api_requests", "api_errors", "worker_processed",
                 "application_log_emit_errors"}

ApiSteps == {"idle", "gate", "push", "emit", "excuse", "count", "reply", "answered",
             "dropped"}

(* An emission, the tally of its failure, and where the loop goes after both. *)
Emissions == {"idle", "complete", "confess", "fail"}
Excuse == [idle |-> "idleExcuse", complete |-> "completeExcuse",
           confess |-> "confessExcuse", fail |-> "failExcuse"]
After == [idle |-> "check", idleExcuse |-> "check",
          complete |-> "count", completeExcuse |-> "count",
          confess |-> "dead", confessExcuse |-> "dead",
          fail |-> "dead", failExcuse |-> "dead"]
Excuses == {Excuse[e] : e \in Emissions}

WorkerSteps == {"check", "register", "dequeue", "wait", "lock", "commit", "count",
                "dead", "exited"} \cup Emissions \cup Excuses

TypeOK ==
  /\ queue \in Seq(Requests)
  /\ backlog \in Buckets \cup {"unset"}
  /\ crossings \in Seq(Buckets)
  /\ counters \in [CounterNames -> Nat]
  /\ instances \in SUBSET Workers
  /\ crash \in BOOLEAN /\ outage \in BOOLEAN
  /\ table \in [Requests -> Nat]
  /\ lockOwner \in Workers \cup {Runner, Nobody}
  /\ logs \in [accepted : SUBSET Requests, completed : SUBSET Requests,
               crossings : SUBSET Nat]
  /\ apiPc \in [Requests -> ApiSteps]
  /\ status \in [Requests -> {202, 500, 503}]
  /\ seen \in [Requests -> Nat]
  /\ workerPc \in [Workers -> WorkerSteps]
  /\ hand \in [Workers -> Requests \cup {Nobody}]
  /\ found \in [Workers -> Nat]
  /\ busy \in SUBSET Workers
  /\ swallowed \in SUBSET {"api", "worker", "emit"}
  /\ faults \in 0 .. MaxFaults
  /\ injected \in 0 .. MaxControls

NoLogs == [accepted |-> {}, completed |-> {}, crossings |-> {}]
NoCounts == [c \in CounterNames |-> 0]

(* A stack that has just come up, before or after the runner's reset. *)
Init ==
  /\ queue = <<>>
  /\ backlog \in {"unset", "low"}
  /\ crossings = <<>>
  /\ counters = NoCounts
  /\ instances = {}
  /\ crash = FALSE /\ outage = FALSE
  /\ table = [r \in Requests |-> 0]
  /\ lockOwner = Nobody
  /\ logs = NoLogs
  /\ apiPc = [r \in Requests |-> "idle"]
  /\ status = [r \in Requests |-> 202]
  /\ seen = [r \in Requests |-> 0]
  /\ workerPc = [w \in Workers |-> "check"]
  /\ hand = [w \in Workers |-> Nobody]
  /\ found = [w \in Workers |-> 0]
  /\ busy = {}
  /\ swallowed = {}
  /\ faults = 0
  /\ injected = 0

-----------------------------------------------------------------------------
Works == faults' = faults
Breaks == faults < MaxFaults /\ faults' = faults + 1
MayApply(effect, variables) == effect \/ UNCHANGED variables

ApiGoto(r, step) == apiPc' = [apiPc EXCEPT ![r] = step]
WorkerGoto(w, step) == workerPc' = [workerPc EXCEPT ![w] = step]

Tally(names) ==
  counters' = [c \in CounterNames |->
                 IF c \in names THEN counters[c] + 1 ELSE counters[c]]

Bucket(depth) ==
  IF depth <= LowMax THEN "low" ELSE IF depth <= ElevatedMax THEN "elevated" ELSE "high"

(* Faulty Advance: the script classifies the depth it found, before it     *)
(* changes the list.                                                       *)
AdvanceTooEarly(list) ==
  /\ queue' = list
  /\ backlog' = Bucket(Len(queue))
  /\ crossings' = IF backlog = Bucket(Len(queue)) THEN crossings
                  ELSE Append(crossings, Bucket(Len(queue)))

(* The common tail of the two scripts: LLEN, the bucket, GET, SET. *)
Advance(list) ==
  /\ queue' = list
  /\ backlog' = Bucket(Len(list))
  /\ crossings' = IF backlog = Bucket(Len(list)) THEN crossings
                  ELSE Append(crossings, Bucket(Len(list)))

(* The transition the script returns: 0 for none. *)
Crossing(list) == IF backlog = Bucket(Len(list)) THEN 0 ELSE Len(crossings) + 1

Logged(kind, items, transition) ==
  logs' = [logs EXCEPT ![kind] = @ \cup items,
                       !.crossings = @ \cup ({transition} \ {0})]

(* HINCRBY application_log_emit_errors; its own failure is swallowed. *)
CountEmitError ==
  \/ Works /\ Tally({"application_log_emit_errors"}) /\ UNCHANGED <<logs, swallowed>>
  \/ /\ Breaks
     /\ MayApply(Tally({"application_log_emit_errors"}), counters)
     /\ swallowed' = swallowed \cup {"emit"}
     /\ UNCHANGED logs

-----------------------------------------------------------------------------
(* The handler thread of request r: do_POST. *)

Send(r) ==
  /\ apiPc[r] = "idle"
  /\ ApiGoto(r, "gate")
  /\ UNCHANGED <<listVars, instances, controls, database, reports, status, seen,
                 workerVars, faults>>

(* Faulty Fails: an error is reported with a status nobody expects. *)
FailsAsBadGateway(r) == status' = [status EXCEPT ![r] = 502]

Fails(r) == status' = [status EXCEPT ![r] = 500]

(* Faulty Gate: the outage is reported, but the item is pushed all the same. *)
GateReportsOnly(r) ==
  /\ apiPc[r] = "gate"
  /\ Works /\ ApiGoto(r, "push")
  /\ status' = IF outage THEN [status EXCEPT ![r] = 503] ELSE status
  /\ UNCHANGED <<listVars, instances, controls, database, reports, seen, workerVars>>

(* GET CACHE_OUTAGE. *)
Gate(r) ==
  /\ apiPc[r] = "gate"
  /\ \/ Works /\ ~outage /\ ApiGoto(r, "push") /\ UNCHANGED status
     \/ Works /\ outage /\ ApiGoto(r, "emit") /\ status' = [status EXCEPT ![r] = 503]
     \/ Breaks /\ ApiGoto(r, "emit") /\ Fails(r)
  /\ UNCHANGED <<listVars, instances, controls, database, reports, seen, workerVars>>

(* QUEUE_ENQUEUE_TRANSITION_SCRIPT. *)
Push(r) ==
  LET list == Append(queue, r)
  IN  /\ apiPc[r] = "push"
      /\ \/ Works /\ Advance(list) /\ UNCHANGED status
            /\ seen' = [seen EXCEPT ![r] = Crossing(list)]
         \/ Breaks /\ MayApply(Advance(list), listVars) /\ Fails(r) /\ UNCHANGED seen
      /\ ApiGoto(r, "emit")
      /\ UNCHANGED <<instances, controls, database, reports, workerVars>>

(* Faulty Emit: the handler's transition is not passed to the batch. *)
EmitWithoutTransition(r) ==
  /\ apiPc[r] = "emit"
  /\ Works /\ ApiGoto(r, "count")
  /\ Logged("accepted", IF status[r] = 202 THEN {r} ELSE {}, 0)
  /\ UNCHANGED <<listVars, instances, controls, database, counters, swallowed, status,
                 seen, workerVars>>

(* One POST with the answer's event and the transition; errors are counted. *)
Emit(r) ==
  LET log == Logged("accepted", IF status[r] = 202 THEN {r} ELSE {}, seen[r])
  IN  /\ apiPc[r] = "emit"
      /\ \/ Works /\ log /\ ApiGoto(r, "count")
         \/ Breaks /\ MayApply(log, logs) /\ ApiGoto(r, "excuse")
      /\ UNCHANGED <<listVars, instances, controls, database, counters, swallowed, status,
                     seen, workerVars>>

ExcuseEmit(r) ==
  /\ apiPc[r] = "excuse"
  /\ CountEmitError
  /\ ApiGoto(r, "count")
  /\ UNCHANGED <<listVars, instances, controls, database, status, seen, workerVars>>

(* Faulty Count: an error is counted as an error only. *)
CountErrorsApart(r) ==
  LET tally == Tally(IF status[r] # 202 THEN {"api_errors"} ELSE {"api_requests"})
  IN  /\ apiPc[r] = "count"
      /\ \/ Works /\ tally /\ UNCHANGED swallowed
         \/ Breaks /\ MayApply(tally, counters) /\ swallowed' = swallowed \cup {"api"}
      /\ ApiGoto(r, "reply")
      /\ UNCHANGED <<listVars, instances, controls, database, logs, status, seen,
                     workerVars>>

(* _record_api_counters: a RedisError is swallowed. *)
Count(r) ==
  LET tally == Tally({"api_requests"} \cup IF status[r] # 202 THEN {"api_errors"} ELSE {})
  IN  /\ apiPc[r] = "count"
      /\ \/ Works /\ tally /\ UNCHANGED swallowed
         \/ Breaks /\ MayApply(tally, counters) /\ swallowed' = swallowed \cup {"api"}
      /\ ApiGoto(r, "reply")
      /\ UNCHANGED <<listVars, instances, controls, database, logs, status, seen,
                     workerVars>>

Reply(r) ==
  /\ apiPc[r] = "reply"
  /\ \/ Works /\ ApiGoto(r, "answered")
     \/ Breaks /\ ApiGoto(r, "dropped")
  /\ UNCHANGED <<listVars, instances, controls, database, reports, status, seen, workerVars>>

Handler(r) ==
  Gate(r) \/ Push(r) \/ Emit(r) \/ ExcuseEmit(r) \/ Count(r) \/ Reply(r)

-----------------------------------------------------------------------------
(* The loop of worker w: run_worker. *)

(* GET WORKER_CRASH: os._exit(17) between two items. *)
CheckCrash(w) ==
  /\ workerPc[w] = "check"
  /\ \/ Works /\ WorkerGoto(w, IF crash THEN "exited" ELSE "register")
     \/ Breaks /\ WorkerGoto(w, "confess")
  /\ UNCHANGED <<listVars, instances, controls, database, reports, apiVars, hand, found,
                 busy>>

(* Registrations that may be older than two seconds: their worker is held up *)
(* inside an item or an emission, or has ended.  (One that has just come back *)
(* registers before it does anything else: it need not be counted.)          *)
Overdue == {v \in instances : workerPc[v] \notin {"check", "register", "dequeue"}}

(* SET heartbeat, ZADD, ZREMRANGEBYSCORE. *)
Register(w) ==
  /\ workerPc[w] = "register"
  /\ \/ Works /\ WorkerGoto(w, "dequeue")
        /\ \E stale \in SUBSET Overdue : instances' = (instances \cup {w}) \ stale
     \/ Breaks /\ WorkerGoto(w, "confess")
        /\ MayApply(instances' = instances \cup {w}, instances)
  /\ UNCHANGED <<listVars, controls, database, reports, apiVars, hand, found, busy>>

(* The script popped the head of the list for w. *)
Take(w) ==
  /\ queue # <<>>
  /\ hand' = [hand EXCEPT ![w] = Head(queue)]
  /\ Advance(Tail(queue))

(* QUEUE_DEQUEUE_TRANSITION_SCRIPT.  An empty list changes nothing; a busy  *)
(* worker that has been idle for 20 ms says so.                             *)
Dequeue(w) ==
  /\ workerPc[w] = "dequeue"
  /\ \/ /\ Works /\ Take(w) /\ WorkerGoto(w, "wait")
        /\ found' = [found EXCEPT ![w] = Crossing(Tail(queue))]
     \/ /\ Works /\ queue = <<>>
        /\ \/ WorkerGoto(w, "check")
           \/ w \in busy /\ WorkerGoto(w, "idle")
        /\ UNCHANGED <<listVars, hand, found>>
     \/ /\ Breaks /\ WorkerGoto(w, "confess")
        /\ MayApply(Take(w), <<listVars, hand>>)
        /\ UNCHANGED found
  /\ UNCHANGED <<instances, controls, database, reports, apiVars, busy>>

(* Faulty MeasureWait: an item with a negative wait is skipped. *)
MeasureWaitSkipsItem(w) ==
  /\ workerPc[w] = "wait"
  /\ \/ Works /\ WorkerGoto(w, "lock")
     \/ Breaks /\ WorkerGoto(w, "check")
  /\ UNCHANGED <<listVars, instances, controls, database, reports, apiVars, hand, found,
                 busy>>

(* checkout_queue_wait_event: the wait is a difference of two clocks, and a *)
(* negative one raises outside every handler.                               *)
MeasureWait(w) ==
  /\ workerPc[w] = "wait"
  /\ \/ Works /\ WorkerGoto(w, "lock")
     \/ Breaks /\ WorkerGoto(w, "dead")
  /\ UNCHANGED <<listVars, instances, controls, database, reports, apiVars, hand, found,
                 busy>>

(* pg_advisory_xact_lock. *)
Lock(w) ==
  /\ workerPc[w] = "lock"
  /\ \/ Works /\ lockOwner = Nobody /\ lockOwner' = w /\ WorkerGoto(w, "commit")
     \/ Breaks /\ WorkerGoto(w, "fail") /\ UNCHANGED lockOwner
  /\ UNCHANGED <<listVars, instances, controls, table, reports, apiVars, hand, found, busy>>

(* Faulty Commit: a transaction whose acknowledgement is lost is tried again. *)
CommitRetries(w) ==
  LET row == table' = [table EXCEPT ![hand[w]] = @ + 1]
  IN  /\ workerPc[w] = "commit"
      /\ lockOwner' = IF lockOwner = w THEN Nobody ELSE lockOwner
      /\ \/ Works /\ row /\ WorkerGoto(w, "complete")
         \/ Breaks /\ MayApply(row, table) /\ WorkerGoto(w, "lock")
      /\ UNCHANGED <<listVars, instances, controls, reports, apiVars, hand, found, busy>>

(* INSERT and COMMIT; either way the transaction's lock is released. *)
Commit(w) ==
  LET row == table' = [table EXCEPT ![hand[w]] = @ + 1]
  IN  /\ workerPc[w] = "commit"
      /\ lockOwner' = IF lockOwner = w THEN Nobody ELSE lockOwner
      /\ \/ Works /\ row /\ WorkerGoto(w, "complete")
         \/ Breaks /\ MayApply(row, table) /\ WorkerGoto(w, "fail")
      /\ UNCHANGED <<listVars, instances, controls, reports, apiVars, hand, found, busy>>

(* Faulty WorkerLog: the batch of a completed item lacks the completion. *)
WorkerLogOmitsItem(w) ==
  IF workerPc[w] = "complete" THEN Logged("completed", {}, found[w])
  ELSE UNCHANGED logs

(* What a batch of w says: only a completion carries the transition. *)
WorkerLog(w) ==
  IF workerPc[w] = "complete" THEN Logged("completed", {hand[w]}, found[w])
  ELSE UNCHANGED logs

(* The POSTs of the loop: an item completed, the worker became idle, Redis  *)
(* failed (and the exception goes on), the transaction failed (it goes on). *)
EmitWorker(w) ==
  /\ workerPc[w] \in Emissions
  /\ \/ Works /\ WorkerLog(w) /\ WorkerGoto(w, After[workerPc[w]])
     \/ Breaks /\ MayApply(WorkerLog(w), logs) /\ WorkerGoto(w, Excuse[workerPc[w]])
  /\ busy' = CASE workerPc[w] = "complete" -> busy \cup {w}
               [] workerPc[w] = "idle" -> busy \ {w}
               [] OTHER -> busy
  /\ UNCHANGED <<listVars, instances, controls, database, counters, swallowed, apiVars,
                 hand, found>>

ExcuseWorker(w) ==
  /\ workerPc[w] \in Excuses
  /\ CountEmitError
  /\ WorkerGoto(w, After[workerPc[w]])
  /\ UNCHANGED <<listVars, instances, controls, database, apiVars, hand, found, busy>>

(* The pipeline of the processing counters: a RedisError is swallowed. *)
CountWork(w) ==
  /\ workerPc[w] = "count"
  /\ \/ Works /\ Tally({"worker_processed"}) /\ UNCHANGED swallowed
     \/ Breaks /\ MayApply(Tally({"worker_processed"}), counters)
        /\ swallowed' = swallowed \cup {"worker"}
  /\ WorkerGoto(w, "check")
  /\ hand' = [hand EXCEPT ![w] = Nobody]
  /\ found' = [found EXCEPT ![w] = 0]
  /\ UNCHANGED <<listVars, instances, controls, database, logs, apiVars, busy>>

Work(w) ==
  \/ CheckCrash(w) \/ Register(w) \/ Dequeue(w) \/ MeasureWait(w) \/ Lock(w)
  \/ Commit(w) \/ EmitWorker(w) \/ ExcuseWorker(w) \/ CountWork(w)

-----------------------------------------------------------------------------
(* The environment: the three faults of the matrix, at any moment (the      *)
(* runner that times them is module FaultMatrixRun).                        *)

Inject ==
  /\ injected < MaxControls
  /\ injected' = injected + 1
  /\ \/ crash' = TRUE /\ UNCHANGED <<outage, lockOwner>>
     \/ outage' = TRUE /\ UNCHANGED <<crash, lockOwner>>
     \/ lockOwner = Nobody /\ lockOwner' = Runner /\ UNCHANGED <<crash, outage>>
  /\ UNCHANGED <<listVars, instances, table, reports, apiVars, workerVars, faults>>

Withdraw ==
  /\ crash \/ outage \/ lockOwner = Runner
  /\ crash' = FALSE /\ outage' = FALSE
  /\ lockOwner' = IF lockOwner = Runner THEN Nobody ELSE lockOwner
  /\ UNCHANGED <<listVars, instances, injected, table, reports, apiVars, workerVars, faults>>

Next ==
  \/ \E r \in Requests : Send(r) \/ Handler(r)
  \/ \E w \in Workers : Work(w)
  \/ Inject \/ Withdraw

Spec == Init /\ [][Next]_vars

-----------------------------------------------------------------------------
Queued(r) == \E i \in 1 .. Len(queue) : queue[i] = r
Holders(r) == {w \in Workers : hand[w] = r}
Stored(r) == table[r] > 0

(* Workers that an exception is taking out of their loop. *)
Doomed == {w \in Workers : workerPc[w] \in {"confess", "confessExcuse", "fail",
                                            "failExcuse", "dead"}}

(* The cached state is the bucket of the list it is cached for, under every *)
(* interleaving of enqueues and dequeues and every broken call; and the     *)
(* states that were set alternate, so no crossing is counted twice.         *)
BacklogFollowsQueue ==
  /\ backlog = "unset" => queue = <<>> /\ crossings = <<>>
  /\ backlog # "unset" => backlog = Bucket(Len(queue))
  /\ crossings # <<>> => backlog = crossings[Len(crossings)]
  /\ \A i \in 1 .. Len(crossings) - 1 : crossings[i] # crossings[i + 1]

(* A crossing is reported, or a live thread still has to report it; each    *)
(* call that failed has erased at most one.  (A race alone erases none.)    *)
CrossingsAreReported ==
  LET awaited == {seen[r] : r \in {q \in Requests : apiPc[q] = "emit"}}
                 \cup {found[w] : w \in {v \in Workers \ Doomed : hand[v] # Nobody}}
  IN  Cardinality((1 .. Len(crossings)) \ (logs.crossings \cup awaited)) <= faults

(* A pipeline of counters that was ignored loses one count for each failed *)
(* call at most, and one that was never ignored loses none.                *)
Lag(pipeline) == IF pipeline \in swallowed THEN faults ELSE 0

(* The counters never run ahead of what they count, and trail it by no more  *)
(* than the pipelines that failed:                                           *)
(*  - worker_processed counts rows; a row that it lacks belongs to an item   *)
(*    that a worker has in hand (for good, if an exception has taken the     *)
(*    worker out of its loop), or to a pipeline that was ignored;            *)
(*  - api_requests counts the requests past their pipeline, api_errors those *)
(*    of them with an error status, but for pipelines that were ignored;     *)
(*  - every request counted without an error and every item counted as       *)
(*    processed is in the logs, or the failure of its report was counted,    *)
(*    one each, unless such a count was itself lost.                         *)
CountersTrailTheLogs ==
  LET rows == {r \in Requests : Stored(r)}
      carried == {w \in Workers : hand[w] # Nobody /\ Stored(hand[w])}
      tallied == {r \in Requests : apiPc[r] \in {"reply", "answered", "dropped"}}
      refused == {r \in tallied : status[r] # 202}
      requests == counters["api_requests"]
      errors == counters["api_errors"]
      processed == counters["worker_processed"]
  IN  /\ Cardinality(rows) - Cardinality(carried) - processed \in 0 .. Lag("worker")
      /\ Cardinality(tallied) - requests \in 0 .. Lag("api")
      /\ Cardinality(refused) - errors \in 0 .. Lag("api")
      /\ "emit" \notin swallowed =>
           requests - errors + processed <=
             Cardinality(logs.accepted) + Cardinality(logs.completed)
               + counters["application_log_emit_errors"]

(* Where the promise sees an item, and what it sees the client being told. *)
Place(r) ==
  IF Stored(r) THEN "stored"
  ELSE IF Queued(r) THEN "queued"
  ELSE IF Holders(r) = {} THEN "outside"
  ELSE IF Holders(r) \ Doomed # {} THEN "held"
  ELSE "lost"

AnswerOf(r) ==
  IF apiPc[r] # "answered" THEN "none"
  ELSE IF status[r] = 202 THEN "accepted"
  ELSE IF status[r] = 503 THEN "rejected" ELSE "failed"

(* An item written twice is at a place that the promise does not have. *)
PlaceSeen(r) == IF table[r] > 1 THEN "duplicated" ELSE Place(r)

Promise == INSTANCE CheckoutPromise WITH
  place <- [r \in Requests |-> PlaceSeen(r)],
  answer <- [r \in Requests |-> AnswerOf(r)]

(* The fault matrix keeps the promise the action lab's application keeps:   *)
(* items move forward only, each is written at most once (a second row would *)
(* be a step to a place the promise does not have), and answers are true.   *)
ImplementsPromise == Promise!Spec
=============================================================================
