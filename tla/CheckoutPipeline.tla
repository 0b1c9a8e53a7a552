--------------------------- MODULE CheckoutPipeline ---------------------------
(***************************************************************************)
(* The application of the action-dynamics lab                              *)
(* (src/lab/action_dynamics/application.py): an HTTP API whose handler     *)
(* threads push checkout work on a Redis list, and worker processes that   *)
(* pop the work and write one row per item to PostgreSQL.                  *)
(*                                                                         *)
(* One action stands for the code between two points where another process *)
(* can see or disturb the state: one Redis command (or one MULTI/EXEC      *)
(* pipeline), one statement of the PostgreSQL transaction.  A call either  *)
(* works or fails; a call that fails may or may not have been executed by  *)
(* the server before the caller saw the error.  Failures are bounded by    *)
(* MaxFaults.  A process or thread never retries a call.                   *)
(*                                                                         *)
(* Timestamps, latencies, span contents and payload fields are abstracted: *)
(* a payload is the request it was built for.                              *)
(***************************************************************************)
EXTENDS Integers, Sequences, FiniteSets

CONSTANTS
  Requests,          \* POST /checkout calls, each sent at most once
  Workers,           \* worker processes
  Controller,        \* the database session of the intervention controller
  Nobody,            \* no lock owner, no item in hand
  MaxFaults,         \* bound: calls to Redis, PostgreSQL or the collector that fail
  MaxInterventions   \* bound: interventions the environment starts

ASSUME BoundsAssumption == MaxFaults \in Nat /\ MaxInterventions \in Nat

(* A run sends finitely many requests, to finitely many workers. *)
ASSUME ActorsAssumption == IsFiniteSet(Requests) /\ IsFiniteSet(Workers)

ASSUME NamesAssumption ==
  /\ Nobody \notin Requests \cup Workers
  /\ Controller \notin Workers \cup {Nobody}

VARIABLES
  queue,          \* QUEUE, the Redis list
  inflight,       \* API_INFLIGHT_CURRENT
  peak,           \* API_INFLIGHT_PEAK
  counters,       \* COUNTERS, the Redis hash
  instances,      \* WORKER_INSTANCES
  busy,           \* WORKER_BUSY
  writeBusy,      \* POSTGRESQL_WRITE_BUSY
  paused,         \* PAUSED_WORKERS
  rejecting,      \* the requests whose token the API_REJECTION control rejects
  table,          \* completed_checkout: rows written for each request
  lockOwner,      \* the session that holds DATABASE_ADVISORY_LOCK
  apiPc, status,  \* each handler thread: its next step, its HTTP status
  workerPc, hand, \* each worker: its next step, the item it popped
  writeFailed,    \* workers whose transaction raised (the flag "failed")
  pausedTakes,    \* history: items a worker popped while it was paused
  faults,         \* failed calls so far
  interventions   \* interventions started so far

redisVars  == <<queue, inflight, peak, counters, instances, busy, writeBusy>>
controlVars == <<paused, rejecting, interventions>>
apiVars    == <<apiPc, status>>
workerVars == <<workerPc, hand, writeFailed, pausedTakes>>
vars == <<redisVars, controlVars, table, lockOwner, apiVars, workerVars, faults>>

CounterNames ==
  {"api_requests", "api_errors", "redis_enqueue_count", "redis_enqueue_errors",
   "redis_dequeue_count", "queue_residence_count", "postgresql_write_count",
   "postgresql_write_errors", "worker_processed", "telemetry_emit_errors"}

ApiSteps ==
  {"idle", "enter", "gate", "push", "stamp", "tally", "leave", "record",
   "emit", "reply", "answered", "dropped"}

WorkerSteps ==
  {"register", "check", "pop", "fetch", "tally", "claim", "mark", "lock",
   "insert", "unmark", "record", "release", "emit", "dead"}

Statuses == {202, 500, 503}

TypeOK ==
  /\ queue \in Seq(Requests)
  /\ inflight \in Nat
  /\ peak \in Nat
  /\ counters \in [CounterNames -> Nat]
  /\ instances \in SUBSET Workers
  /\ busy \in SUBSET Workers
  /\ writeBusy \in SUBSET Workers
  /\ paused \in SUBSET Workers
  /\ rejecting \in SUBSET Requests
  /\ table \in [Requests -> Nat]
  /\ lockOwner \in Workers \cup {Controller, Nobody}
  /\ apiPc \in [Requests -> ApiSteps]
  /\ status \in [Requests -> Statuses]
  /\ workerPc \in [Workers -> WorkerSteps]
  /\ hand \in [Workers -> Requests \cup {Nobody}]
  /\ writeFailed \in SUBSET Workers
  /\ pausedTakes \in [Workers -> Nat]
  /\ faults \in 0 .. MaxFaults
  /\ interventions \in 0 .. MaxInterventions

(* The stack has just come up: Redis and the table are empty, no worker has *)
(* registered, no request has been sent.                                    *)
Init ==
  /\ queue = <<>>
  /\ inflight = 0
  /\ peak = 0
  /\ counters = [c \in CounterNames |-> 0]
  /\ instances = {}
  /\ busy = {}
  /\ writeBusy = {}
  /\ paused = {}
  /\ rejecting = {}
  /\ table = [r \in Requests |-> 0]
  /\ lockOwner = Nobody
  /\ apiPc = [r \in Requests |-> "idle"]
  /\ status = [r \in Requests |-> 202]
  /\ workerPc = [w \in Workers |-> "register"]
  /\ hand = [w \in Workers |-> Nobody]
  /\ writeFailed = {}
  /\ pausedTakes = [w \in Workers |-> 0]
  /\ faults = 0
  /\ interventions = 0

-----------------------------------------------------------------------------
(* Outcomes of an external call. *)

Works == faults' = faults
Breaks == faults < MaxFaults /\ faults' = faults + 1
BreaksTwice == faults + 1 < MaxFaults /\ faults' = faults + 2

(* A call that broke: the server executed it, or it did not. *)
MayApply(effect, variables) == effect \/ UNCHANGED variables

ApiGoto(r, step) == apiPc' = [apiPc EXCEPT ![r] = step]
(* Faulty Fails: an error is reported with a status nobody expects. *)
FailsAsBadGateway(r) == status' = [status EXCEPT ![r] = 502]
Fails(r) == status' = [status EXCEPT ![r] = 500]
WorkerGoto(w, step) == workerPc' = [workerPc EXCEPT ![w] = step]

(* An uncaught exception ends the worker process; nothing restarts it. *)
(* Faulty Dies: the worker swallows the exception and loops. *)
RestartsInstead(w) == WorkerGoto(w, "register")
Dies(w) == WorkerGoto(w, "dead")

Tally(names) ==
  counters' = [c \in CounterNames |->
                 IF c \in names THEN counters[c] + 1 ELSE counters[c]]

(* Faulty AddInflight: the peak does not follow the gauge. *)
AddInflightForgetsPeak(delta) ==
  /\ inflight' = IF inflight + delta < 0 THEN 0 ELSE inflight + delta
  /\ UNCHANGED peak

(* INFLIGHT_SCRIPT: never below zero, and the peak follows. *)
AddInflight(delta) ==
  LET current == IF inflight + delta < 0 THEN 0 ELSE inflight + delta
  IN  /\ inflight' = current
      /\ peak' = IF current > peak THEN current ELSE peak

-----------------------------------------------------------------------------
(* The handler thread of request r: do_POST. *)

Send(r) ==
  /\ apiPc[r] = "idle"
  /\ ApiGoto(r, "enter")
  /\ UNCHANGED <<redisVars, controlVars, table, lockOwner, status, workerVars, faults>>

Enter(r) ==
  /\ apiPc[r] = "enter"
  /\ \/ Works /\ AddInflight(1) /\ ApiGoto(r, "gate")
     \/ Breaks /\ MayApply(AddInflight(1), <<inflight, peak>>) /\ ApiGoto(r, "dropped")
  /\ UNCHANGED <<queue, counters, instances, busy, writeBusy, controlVars, table,
                 lockOwner, status, workerVars>>

(* Faulty Gate: the handler notes the rejection but goes on to the push. *)
GateRejectsTooLate(r) ==
  /\ apiPc[r] = "gate"
  /\ Works
  /\ ApiGoto(r, "push")
  /\ status' = IF r \in rejecting THEN [status EXCEPT ![r] = 503] ELSE status
  /\ UNCHANGED <<redisVars, controlVars, table, lockOwner, workerVars>>

(* _should_reject: the draw depends on the token, so the control decides. *)
Gate(r) ==
  /\ apiPc[r] = "gate"
  /\ \/ Works /\ r \notin rejecting /\ ApiGoto(r, "push") /\ UNCHANGED status
     \/ Works /\ r \in rejecting /\ ApiGoto(r, "leave")
        /\ status' = [status EXCEPT ![r] = 503]
     \/ Breaks /\ Fails(r) /\ ApiGoto(r, "leave")
  /\ UNCHANGED <<redisVars, controlVars, table, lockOwner, workerVars>>

(* Reading ENQUEUE_DELAY_MS, the sleep and the RPUSH. *)
Push(r) ==
  /\ apiPc[r] = "push"
  /\ \/ Works /\ queue' = Append(queue, r) /\ ApiGoto(r, "stamp") /\ UNCHANGED status
     \/ Breaks /\ MayApply(queue' = Append(queue, r), queue)
        /\ Fails(r) /\ ApiGoto(r, "tally")
  /\ UNCHANGED <<inflight, peak, counters, instances, busy, writeBusy, controlVars,
                 table, lockOwner, workerVars>>

(* SET LAST_ENQUEUE_UNIX_NANO: its failure reports 500 for an item that is queued. *)
Stamp(r) ==
  /\ apiPc[r] = "stamp"
  /\ \/ Works /\ UNCHANGED status
     \/ Breaks /\ Fails(r)
  /\ ApiGoto(r, "tally")
  /\ UNCHANGED <<redisVars, controlVars, table, lockOwner, workerVars>>

(* The inner finally: _record_operation("redis_enqueue"). *)
TallyEnqueue(r) ==
  LET tally == Tally({"redis_enqueue_count"}
                     \cup IF status[r] = 500 THEN {"redis_enqueue_errors"} ELSE {})
  IN  /\ apiPc[r] = "tally"
      /\ \/ Works /\ tally /\ UNCHANGED status
         \/ Breaks /\ MayApply(tally, counters) /\ Fails(r)
      /\ ApiGoto(r, "leave")
      /\ UNCHANGED <<queue, inflight, peak, instances, busy, writeBusy, controlVars,
                     table, lockOwner, workerVars>>

(* The outer finally: the in-flight decrement. *)
Leave(r) ==
  /\ apiPc[r] = "leave"
  /\ \/ Works /\ AddInflight(-1) /\ ApiGoto(r, "record")
     \/ Breaks /\ MayApply(AddInflight(-1), <<inflight, peak>>) /\ ApiGoto(r, "dropped")
  /\ UNCHANGED <<queue, counters, instances, busy, writeBusy, controlVars, table,
                 lockOwner, status, workerVars>>

(* _record_api: every answer other than 202 is an error. *)
Record(r) ==
  LET tally == Tally({"api_requests"} \cup IF status[r] # 202 THEN {"api_errors"} ELSE {})
  IN  /\ apiPc[r] = "record"
      /\ \/ Works /\ tally /\ ApiGoto(r, "emit")
         \/ Breaks /\ MayApply(tally, counters) /\ ApiGoto(r, "dropped")
      /\ UNCHANGED <<queue, inflight, peak, instances, busy, writeBusy, controlVars,
                     table, lockOwner, status, workerVars>>

(* Faulty Emit: the handler returns without answering. *)
EmitForgetsReply(r) ==
  /\ apiPc[r] = "emit"
  /\ Works
  /\ ApiGoto(r, "dropped")
  /\ UNCHANGED <<redisVars, controlVars, table, lockOwner, status, workerVars>>

(* Logs and spans; a collector failure is counted and swallowed. *)
Emit(r) ==
  /\ apiPc[r] = "emit"
  /\ \/ Works /\ ApiGoto(r, "reply") /\ UNCHANGED counters
     \/ Breaks /\ Tally({"telemetry_emit_errors"}) /\ ApiGoto(r, "reply")
     \/ BreaksTwice /\ MayApply(Tally({"telemetry_emit_errors"}), counters)
        /\ ApiGoto(r, "dropped")
  /\ UNCHANGED <<queue, inflight, peak, instances, busy, writeBusy, controlVars,
                 table, lockOwner, status, workerVars>>

(* _json_response *)
Reply(r) ==
  /\ apiPc[r] = "reply"
  /\ \/ Works /\ ApiGoto(r, "answered")
     \/ Breaks /\ ApiGoto(r, "dropped")
  /\ UNCHANGED <<redisVars, controlVars, table, lockOwner, status, workerVars>>

Handler(r) ==
  \/ Enter(r) \/ Gate(r) \/ Push(r) \/ Stamp(r) \/ TallyEnqueue(r)
  \/ Leave(r) \/ Record(r) \/ Emit(r) \/ Reply(r)

-----------------------------------------------------------------------------
(* The loop of worker w: run_worker. *)

(* Registrations older than two seconds: only a worker that is held up inside *)
(* an item (a dequeue delay, the advisory lock, a slow collector) or has died *)
(* lets its own registration get that old; an idle one renews it every few    *)
(* milliseconds.                                                              *)
Overdue == {v \in instances : hand[v] # Nobody \/ workerPc[v] \in {"emit", "dead"}}

(* SET heartbeat, ZADD, ZREMRANGEBYSCORE. *)
Register(w) ==
  /\ workerPc[w] = "register"
  /\ \/ Works /\ WorkerGoto(w, "check")
        /\ \E stale \in SUBSET Overdue : instances' = (instances \cup {w}) \ stale
     \/ Breaks /\ Dies(w) /\ MayApply(instances' = instances \cup {w}, instances)
  /\ UNCHANGED <<queue, inflight, peak, counters, busy, writeBusy, controlVars, table,
                 lockOwner, apiVars, hand, writeFailed, pausedTakes>>

(* Faulty Check: PAUSED_WORKERS is not read. *)
CheckIgnoresPause(w) ==
  /\ workerPc[w] = "check"
  /\ Works
  /\ WorkerGoto(w, "pop")
  /\ UNCHANGED <<redisVars, controlVars, table, lockOwner, apiVars, hand, writeFailed,
                 pausedTakes>>

(* SISMEMBER PAUSED_WORKERS. *)
Check(w) ==
  /\ workerPc[w] = "check"
  /\ \/ /\ Works
        /\ w \in paused
        /\ WorkerGoto(w, "register")
        /\ UNCHANGED pausedTakes
     \/ /\ Works
        /\ w \notin paused
        /\ WorkerGoto(w, "pop")
        /\ pausedTakes' = [pausedTakes EXCEPT ![w] = 0]
     \/ Breaks /\ Dies(w) /\ UNCHANGED pausedTakes
  /\ UNCHANGED <<redisVars, controlVars, table, lockOwner, apiVars, hand, writeFailed>>

(* Faulty Take: the item is read but stays in the list. *)
TakeByReading(w) ==
  /\ queue # <<>>
  /\ hand' = [hand EXCEPT ![w] = Head(queue)]
  /\ UNCHANGED <<queue, pausedTakes>>

(* LPOP moves the head of the list into the hands of w. *)
Take(w) ==
  /\ queue # <<>>
  /\ hand' = [hand EXCEPT ![w] = Head(queue)]
  /\ queue' = Tail(queue)
  /\ pausedTakes' = [pausedTakes EXCEPT ![w] = IF w \in paused THEN @ + 1 ELSE @]

Pop(w) ==
  /\ workerPc[w] = "pop"
  /\ \/ Works /\ Take(w) /\ WorkerGoto(w, "fetch")
     \/ Works /\ queue = <<>> /\ WorkerGoto(w, "register")
        /\ UNCHANGED <<queue, hand, pausedTakes>>
     \/ Breaks /\ Dies(w) /\ MayApply(Take(w), <<queue, hand, pausedTakes>>)
  /\ UNCHANGED <<inflight, peak, counters, instances, busy, writeBusy, controlVars,
                 table, lockOwner, apiVars, writeFailed>>

(* Faulty Fetch: the worker loops with the item unprocessed. *)
FetchSkipsTheWork(w) ==
  /\ workerPc[w] = "fetch"
  /\ Works
  /\ WorkerGoto(w, "register")
  /\ UNCHANGED <<redisVars, controlVars, table, lockOwner, apiVars, hand, writeFailed,
                 pausedTakes>>

(* Reading DEQUEUE_DELAY_MS, the sleep, SET LAST_DEQUEUE_UNIX_NANO. *)
Fetch(w) ==
  /\ workerPc[w] = "fetch"
  /\ \/ Works /\ WorkerGoto(w, "tally")
     \/ Breaks /\ Dies(w)
  /\ UNCHANGED <<redisVars, controlVars, table, lockOwner, apiVars, hand, writeFailed,
                 pausedTakes>>

(* _record_operation("redis_dequeue"). *)
TallyDequeue(w) ==
  /\ workerPc[w] = "tally"
  /\ \/ Works /\ Tally({"redis_dequeue_count"}) /\ WorkerGoto(w, "claim")
     \/ Breaks /\ MayApply(Tally({"redis_dequeue_count"}), counters) /\ Dies(w)
  /\ UNCHANGED <<queue, inflight, peak, instances, busy, writeBusy, controlVars, table,
                 lockOwner, apiVars, hand, writeFailed, pausedTakes>>

(* One pipeline: the residence counters and HSET WORKER_BUSY. *)
Claim(w) ==
  LET claim == Tally({"queue_residence_count"}) /\ busy' = busy \cup {w}
  IN  /\ workerPc[w] = "claim"
      /\ \/ Works /\ claim /\ WorkerGoto(w, "mark")
         \/ Breaks /\ MayApply(claim, <<counters, busy>>) /\ Dies(w)
      /\ UNCHANGED <<queue, inflight, peak, instances, writeBusy, controlVars, table,
                     lockOwner, apiVars, hand, writeFailed, pausedTakes>>

(* HSET POSTGRESQL_WRITE_BUSY. *)
Mark(w) ==
  LET mark == writeBusy' = writeBusy \cup {w}
  IN  /\ workerPc[w] = "mark"
      /\ \/ Works /\ mark /\ WorkerGoto(w, "lock")
         \/ Breaks /\ MayApply(mark, writeBusy) /\ Dies(w)
      /\ UNCHANGED <<queue, inflight, peak, counters, instances, busy, controlVars, table,
                     lockOwner, apiVars, hand, writeFailed, pausedTakes>>

(* Faulty TransactionRaises: the flag "failed" is not set. *)
TransactionRaisesUnnoticed(w) == WorkerGoto(w, "unmark") /\ UNCHANGED writeFailed

TransactionRaises(w) ==
  /\ writeFailed' = writeFailed \cup {w}
  /\ WorkerGoto(w, "unmark")

(* Faulty Lock: the insert does not wait for the advisory lock. *)
LockWithoutWaiting(w) ==
  /\ workerPc[w] = "lock"
  /\ Works
  /\ WorkerGoto(w, "insert")
  /\ lockOwner' = IF lockOwner = Nobody THEN w ELSE lockOwner
  /\ UNCHANGED <<redisVars, controlVars, table, apiVars, hand, writeFailed, pausedTakes>>

(* pg_advisory_xact_lock: waits until nobody holds the lock. *)
Lock(w) ==
  /\ workerPc[w] = "lock"
  /\ \/ Works /\ lockOwner = Nobody /\ lockOwner' = w /\ WorkerGoto(w, "insert")
        /\ UNCHANGED writeFailed
     \/ Breaks /\ TransactionRaises(w) /\ UNCHANGED lockOwner
  /\ UNCHANGED <<redisVars, controlVars, table, apiVars, hand, pausedTakes>>

(* INSERT and the commit, which also releases the transaction's lock.  A *)
(* broken connection rolls back, unless the commit had been executed.    *)
Insert(w) ==
  LET row == table' = [table EXCEPT ![hand[w]] = @ + 1]
  IN  /\ workerPc[w] = "insert"
      /\ lockOwner' = IF lockOwner = w THEN Nobody ELSE lockOwner
      /\ \/ Works /\ row /\ WorkerGoto(w, "unmark") /\ UNCHANGED writeFailed
         \/ Breaks /\ MayApply(row, table) /\ TransactionRaises(w)
      /\ UNCHANGED <<redisVars, controlVars, apiVars, hand, pausedTakes>>

(* Faulty Unmark: the finally does not clear POSTGRESQL_WRITE_BUSY. *)
UnmarkForgotten(w) ==
  /\ workerPc[w] = "unmark"
  /\ Works
  /\ WorkerGoto(w, "record")
  /\ UNCHANGED <<redisVars, controlVars, table, lockOwner, apiVars, hand, writeFailed,
                 pausedTakes>>

(* The finally of the transaction: HDEL POSTGRESQL_WRITE_BUSY. *)
Unmark(w) ==
  LET unmark == writeBusy' = writeBusy \ {w}
  IN  /\ workerPc[w] = "unmark"
      /\ \/ Works /\ unmark /\ WorkerGoto(w, "record")
         \/ Breaks /\ MayApply(unmark, writeBusy) /\ Dies(w)
      /\ UNCHANGED <<queue, inflight, peak, counters, instances, busy, controlVars, table,
                     lockOwner, apiVars, hand, writeFailed, pausedTakes>>

(* _record_operation("postgresql_write") and, when the write succeeded, SET *)
(* LAST_POSTGRESQL_WRITE_UNIX_NANO; then the exception is raised again.     *)
RecordWrite(w) ==
  LET tally == Tally({"postgresql_write_count"}
                     \cup IF w \in writeFailed THEN {"postgresql_write_errors"} ELSE {})
  IN  /\ workerPc[w] = "record"
      /\ \/ Works /\ tally
            /\ WorkerGoto(w, IF w \in writeFailed THEN "dead" ELSE "release")
         \/ Breaks /\ MayApply(tally, counters) /\ Dies(w)
      /\ UNCHANGED <<queue, inflight, peak, instances, busy, writeBusy, controlVars, table,
                     lockOwner, apiVars, hand, writeFailed, pausedTakes>>

(* One pipeline: HDEL WORKER_BUSY and the processing counters. *)
Release(w) ==
  LET release == Tally({"worker_processed"}) /\ busy' = busy \ {w}
  IN  /\ workerPc[w] = "release"
      /\ \/ Works /\ release /\ WorkerGoto(w, "emit")
            /\ hand' = [hand EXCEPT ![w] = Nobody]
         \/ Breaks /\ MayApply(release, <<counters, busy>>) /\ Dies(w) /\ UNCHANGED hand
      /\ UNCHANGED <<queue, inflight, peak, instances, writeBusy, controlVars, table,
                     lockOwner, apiVars, writeFailed, pausedTakes>>

(* Logs and spans of the completed item; the worker then loops. *)
EmitCompletion(w) ==
  /\ workerPc[w] = "emit"
  /\ \/ Works /\ WorkerGoto(w, "register") /\ UNCHANGED counters
     \/ Breaks /\ Tally({"telemetry_emit_errors"}) /\ WorkerGoto(w, "register")
     \/ BreaksTwice /\ MayApply(Tally({"telemetry_emit_errors"}), counters) /\ Dies(w)
  /\ UNCHANGED <<queue, inflight, peak, instances, busy, writeBusy, controlVars, table,
                 lockOwner, apiVars, hand, writeFailed, pausedTakes>>

Work(w) ==
  \/ Register(w) \/ Check(w) \/ Pop(w) \/ Fetch(w) \/ TallyDequeue(w) \/ Claim(w)
  \/ Mark(w) \/ Lock(w) \/ Insert(w) \/ Unmark(w) \/ RecordWrite(w) \/ Release(w)
  \/ EmitCompletion(w)

-----------------------------------------------------------------------------
(* The environment: what the intervention controller does to the keys and   *)
(* the lock, at any moment (the controller itself is module Interventions). *)

Intervene ==
  /\ interventions < MaxInterventions
  /\ interventions' = interventions + 1

StartPause ==
  /\ Intervene
  /\ paused' \in SUBSET Workers \ {{}}
  /\ UNCHANGED <<redisVars, rejecting, table, lockOwner, apiVars, workerVars, faults>>

StartRejection ==
  /\ Intervene
  /\ rejecting' \in SUBSET Requests \ {{}}
  /\ UNCHANGED <<redisVars, paused, table, lockOwner, apiVars, workerVars, faults>>

StartLock ==
  /\ Intervene
  /\ lockOwner = Nobody
  /\ lockOwner' = Controller
  /\ UNCHANGED <<redisVars, paused, rejecting, table, apiVars, workerVars, faults>>

StopPause ==
  /\ paused # {}
  /\ paused' = {}
  /\ UNCHANGED <<redisVars, rejecting, interventions, table, lockOwner, apiVars,
                 workerVars, faults>>

StopRejection ==
  /\ rejecting # {}
  /\ rejecting' = {}
  /\ UNCHANGED <<redisVars, paused, interventions, table, lockOwner, apiVars,
                 workerVars, faults>>

StopLock ==
  /\ lockOwner = Controller
  /\ lockOwner' = Nobody
  /\ UNCHANGED <<redisVars, controlVars, table, apiVars, workerVars, faults>>

Environment ==
  StartPause \/ StartRejection \/ StartLock \/ StopPause \/ StopRejection \/ StopLock

Next ==
  \/ \E r \in Requests : Send(r) \/ Handler(r)
  \/ \E w \in Workers : Work(w)
  \/ Environment

Spec == Init /\ [][Next]_vars

-----------------------------------------------------------------------------
(* Where an item is. *)

Queued(r) == \E i \in 1 .. Len(queue) : queue[i] = r
Holders(r) == {w \in Workers : hand[w] = r}
Stored(r) == table[r] > 0

(* Workers between the commit of their item and the end of their work on it. *)
HasWritten(w) == workerPc[w] \in {"unmark", "record", "release", "dead"}

Place(r) ==
  IF Stored(r) THEN "stored"
  ELSE IF Queued(r) THEN "queued"
  ELSE IF Holders(r) = {} THEN "outside"
  ELSE IF \E w \in Holders(r) : workerPc[w] # "dead" THEN "held"
  ELSE "lost"

-----------------------------------------------------------------------------
(* An item is in one place: it stands in the list at most once, is in the    *)
(* hands of at most one worker, not in both, and is written at most once, by *)
(* the worker that holds it, whatever calls fail and whoever dies.           *)
ExclusiveCustody ==
  /\ \A i, j \in 1 .. Len(queue) : queue[i] = queue[j] => i = j
  /\ \A r \in Requests :
       /\ \A v, w \in Holders(r) : v = w
       /\ Queued(r) => Holders(r) = {} /\ ~Stored(r)
       /\ table[r] <= 1
       /\ Stored(r) => \A w \in Holders(r) : HasWritten(w)

(* What the client is told is true: 202 is only sent for an item that was    *)
(* enqueued, 503 only for one that never was and never will be.              *)
AnswersAreTruthful ==
  \A r \in Requests : apiPc[r] = "answered" =>
    /\ status[r] = 202 => Place(r) # "outside"
    /\ status[r] = 503 => Place(r) = "outside"

(* The in-flight gauge never misses a handler that is between its increment  *)
(* and its decrement, exceeds them by no more than the calls that failed,    *)
(* and the peak has seen it.                                                 *)
InflightCoversHandlers ==
  LET inside == {r \in Requests :
                   apiPc[r] \in {"gate", "push", "stamp", "tally", "leave"}}
  IN  /\ Cardinality(inside) <= inflight
      /\ inflight <= Cardinality(inside) + faults
      /\ inflight <= peak

(* The busy hashes a sampler reads: a worker in the transaction is in both,  *)
(* the write hash is inside the worker hash, and a live worker that is       *)
(* marked busy has an item in hand.                                          *)
BusyMarksWork ==
  /\ \A w \in Workers : workerPc[w] \in {"lock", "insert"} => w \in writeBusy
  /\ writeBusy \subseteq busy
  /\ \A w \in busy : hand[w] # Nobody

(* Each counter trails the one before it in the life of an item and the rows *)
(* of the table lie between them: a reader of one HGETALL snapshot followed  *)
(* by a row count never sees work that was counted but not done.             *)
CountersTrailTheWork ==
  LET rows == Cardinality({r \in Requests : Stored(r)})
      popped == Cardinality({r \in Requests : Place(r) \in {"held", "lost", "stored"}})
      written == counters["postgresql_write_count"] - counters["postgresql_write_errors"]
  IN  /\ counters["worker_processed"] <= written
      /\ written <= rows
      /\ rows <= counters["queue_residence_count"]
      /\ counters["queue_residence_count"] <= counters["redis_dequeue_count"]
      /\ counters["redis_dequeue_count"] <= popped
      /\ counters["redis_enqueue_count"] - counters["redis_enqueue_errors"]
           <= Cardinality({r \in Requests : Place(r) # "outside"})

(* While the controller keeps the advisory lock no row is written. *)
LockFreezesTable ==
  [][lockOwner = Controller /\ lockOwner' = Controller => table' = table]_vars

(* worker_pause: a worker that had passed the check when it was paused takes *)
(* one more item, and no worker takes a second one.                          *)
PauseAllowsOneTake == \A w \in Workers : pausedTakes[w] <= 1

(* The pipeline implements the promise of module CheckoutPromise. *)
AnswerOf(r) ==
  IF apiPc[r] # "answered" THEN "none"
  ELSE CASE status[r] = 202 -> "accepted"
         [] status[r] = 503 -> "rejected"
         [] status[r] = 500 -> "failed"

Promise == INSTANCE CheckoutPromise WITH
             place <- [r \in Requests |-> Place(r)],
             answer <- [r \in Requests |-> AnswerOf(r)]

ImplementsPromise == Promise!Spec
=============================================================================
