------------------------------ MODULE TraceAudit -------------------------------
(***************************************************************************)
(* The traces of the checkout application and the gate that judges them:   *)
(* the events and spans posted by do_POST and run_worker                   *)
(* (src/lab/action_dynamics/application.py) with OtlpTelemetryClient       *)
(* (application_telemetry.py), and the trace checks of _assess_capture     *)
(* (src/src/quantis_core/action_dynamics_lab.py).                          *)
(*                                                                         *)
(* CheckoutPipeline has one action per call of the same two loops.  Here   *)
(* the calls between two steps that matter to a trace are one action: they *)
(* all work, or one of them breaks and the thread does what the code does  *)
(* then.  The gate is evaluated on what the collector holds, in every      *)
(* state, for a capture may end at any time.                               *)
(*                                                                         *)
(* The host's clock is the order of its readings: it ticks when an item is *)
(* stamped, for the only readings of different processes that the gate     *)
(* compares are that stamp and the one a worker takes before it pops.      *)
(***************************************************************************)
EXTENDS Naturals, Sequences, FiniteSets

CONSTANTS
  Requests,   \* POST /checkout calls, each sent at most once
  Workers,    \* worker processes
  Nobody,     \* no item in hand
  MaxFaults   \* bound: groups of calls of which one breaks

ASSUME TraceAssumption == MaxFaults \in Nat /\ Nobody \notin Requests

VARIABLES
  apiPc, status,   \* each handler: its next step, its HTTP status
  enqueueSpan,     \* the handlers that built the redis.enqueue span
  queue,           \* QUEUE, the Redis list
  workerPc, hand,  \* each worker: its next step, its item
  polled,          \* each worker about to pop: dequeue_started_unix_nano
  table,           \* rows written for each request
  clock,
  start,           \* start_unix_nano of each request's spans
  events, spans,   \* what the collector holds
  faults

apiVars == <<apiPc, status, enqueueSpan>>
workerVars == <<workerPc, hand, polled>>
collected == <<events, spans>>
vars == <<apiVars, queue, workerVars, table, clock, start, collected, faults>>

(* The spans of a checkout, in the order of its path. *)
Path == <<"api.admission", "redis.enqueue", "queue.residence", "redis.dequeue",
          "worker.processing", "postgresql.write">>
Names == {Path[i] : i \in DOMAIN Path}
WorkerSpans == {Path[i] : i \in 3 .. 6}
EventNames == {"checkout.accepted", "checkout.rejected", "checkout.completed"}

ApiSteps == {"idle", "gate", "push", "tally", "leave", "logs", "spans", "missed",
             "reply", "answered", "dropped"}
WorkerSteps == {"poll", "pop", "take", "write", "finish", "logs", "spans", "missed", "dead"}
Times == 0 .. Cardinality(Requests)

TypeOK ==
  /\ apiPc \in [Requests -> ApiSteps] /\ status \in [Requests -> {202, 500, 503}]
  /\ enqueueSpan \in SUBSET Requests
  /\ queue \in Seq(Requests)
  /\ workerPc \in [Workers -> WorkerSteps]
  /\ hand \in [Workers -> Requests \cup {Nobody}]
  /\ polled \in [Workers -> Times] /\ table \in [Requests -> {0, 1}]
  /\ clock \in Times /\ start \in [Requests -> [Names -> Times]]
  /\ events \in SUBSET (Requests \X EventNames)
  /\ spans \in SUBSET (Requests \X Names)
  /\ faults \in 0 .. MaxFaults

Init ==
  /\ apiPc = [r \in Requests |-> "idle"] /\ status = [r \in Requests |-> 202]
  /\ enqueueSpan = {} /\ queue = <<>>
  /\ workerPc = [w \in Workers |-> "poll"] /\ hand = [w \in Workers |-> Nobody]
  /\ polled = [w \in Workers |-> 0] /\ table = [r \in Requests |-> 0]
  /\ clock = 0 /\ start = [r \in Requests |-> [n \in Names |-> 0]]
  /\ events = {} /\ spans = {} /\ faults = 0

-----------------------------------------------------------------------------
Works == faults' = faults
Breaks == faults < MaxFaults /\ faults' = faults + 1
MayApply(effect, variables) == effect \/ UNCHANGED variables

ApiGoto(r, step) == apiPc' = [apiPc EXCEPT ![r] = step]
WorkerGoto(w, step) == workerPc' = [workerPc EXCEPT ![w] = step]
Fails(r) == status' = [status EXCEPT ![r] = 500]
Starts(r, name) == start' = [start EXCEPT ![r][name] = clock]

(* emit_logs and emit_spans: one POST, which the collector may have taken   *)
(* although the caller saw it break.                                        *)
EmitLog(r, event) == events' = events \cup {<<r, event>>} /\ UNCHANGED spans
EmitSpans(r, names) == spans' = spans \cup ({r} \X names) /\ UNCHANGED events

(* The parent of each span: the context it is a child of. *)
(* Faulty ParentOf: the traceparent sent through Redis is the root's. *)
ParentIfRootTravels ==
  [n \in Names |-> CASE n = "api.admission" -> "none"
                     [] n \in {"redis.enqueue", "queue.residence"} -> "api.admission"
                     [] n = "redis.dequeue" -> "queue.residence"
                     [] n = "worker.processing" -> "redis.dequeue"
                     [] n = "postgresql.write" -> "worker.processing"]

ParentOf ==
  [n \in Names |-> CASE n = "api.admission" -> "none"
                     [] n = "redis.enqueue" -> "api.admission"
                     [] n = "queue.residence" -> "redis.enqueue"
                     [] n = "redis.dequeue" -> "queue.residence"
                     [] n = "worker.processing" -> "redis.dequeue"
                     [] n = "postgresql.write" -> "worker.processing"]

-----------------------------------------------------------------------------
(* The API: do_POST *)

Enter(r) ==
  /\ apiPc[r] = "idle" /\ Starts(r, "api.admission")
  /\ \/ Works /\ ApiGoto(r, "gate")
     \/ Breaks /\ ApiGoto(r, "dropped")
  /\ UNCHANGED <<status, enqueueSpan, queue, workerVars, table, clock, collected>>

(* _should_reject, of a request that is let in or rejected. *)
Gate(r) ==
  /\ apiPc[r] = "gate"
  /\ \/ Works /\ ApiGoto(r, "push") /\ Starts(r, "redis.enqueue") /\ UNCHANGED status
     \/ /\ \/ Works /\ status' = [status EXCEPT ![r] = 503]
           \/ Breaks /\ Fails(r)
        /\ ApiGoto(r, "leave") /\ UNCHANGED start
  /\ UNCHANGED <<enqueueSpan, queue, workerVars, table, clock, collected>>

(* The delay is read and slept; then the item is stamped. *)
Stamp(r) ==
  /\ apiPc[r] = "push" /\ start[r]["queue.residence"] = 0
  /\ \/ /\ Works /\ clock' = clock + 1
        /\ start' = [start EXCEPT ![r]["queue.residence"] = clock']
        /\ UNCHANGED <<apiPc, status>>
     \/ Breaks /\ Fails(r) /\ ApiGoto(r, "tally") /\ UNCHANGED <<clock, start>>
  /\ UNCHANGED <<enqueueSpan, queue, workerVars, table, collected>>

(* RPUSH and the SET after it. *)
Push(r) ==
  /\ apiPc[r] = "push" /\ start[r]["queue.residence"] > 0 /\ ApiGoto(r, "tally")
  /\ \/ Works /\ queue' = Append(queue, r) /\ UNCHANGED status
     \/ Breaks /\ MayApply(queue' = Append(queue, r), queue) /\ Fails(r)
  /\ UNCHANGED <<enqueueSpan, workerVars, table, clock, start, collected>>

(* The inner finally: _record_operation, and the span after it. *)
TallyEnqueue(r) ==
  /\ apiPc[r] = "tally" /\ ApiGoto(r, "leave")
  /\ \/ Works /\ enqueueSpan' = enqueueSpan \cup {r} /\ UNCHANGED status
     \/ Breaks /\ Fails(r) /\ UNCHANGED enqueueSpan
  /\ UNCHANGED <<queue, workerVars, table, clock, start, collected>>

(* The outer finally and _record_api. *)
Leave(r) ==
  /\ apiPc[r] = "leave"
  /\ \/ Works /\ ApiGoto(r, "logs")
     \/ Breaks /\ ApiGoto(r, "dropped")
  /\ UNCHANGED <<status, enqueueSpan, queue, workerVars, table, clock, start, collected>>

PostApiLogs(r) ==
  /\ apiPc[r] = "logs"
  /\ LET event == IF status[r] = 202 THEN "checkout.accepted" ELSE "checkout.rejected"
     IN \/ Works /\ EmitLog(r, event) /\ ApiGoto(r, "spans")
        \/ Breaks /\ MayApply(EmitLog(r, event), collected) /\ ApiGoto(r, "missed")
  /\ UNCHANGED <<status, enqueueSpan, queue, workerVars, table, clock, start>>

(* Faulty PostApiSpans: the root span is left out of a batch. *)
PostApiChild(r) ==
  /\ apiPc[r] = "spans"
  /\ LET built == IF r \in enqueueSpan THEN {"redis.enqueue"} ELSE {"api.admission"}
     IN \/ Works /\ EmitSpans(r, built) /\ ApiGoto(r, "reply")
        \/ Breaks /\ MayApply(EmitSpans(r, built), collected) /\ ApiGoto(r, "missed")
  /\ UNCHANGED <<status, enqueueSpan, queue, workerVars, table, clock, start>>

PostApiSpans(r) ==
  /\ apiPc[r] = "spans"
  /\ LET built == {"api.admission"} \cup {n \in {"redis.enqueue"} : r \in enqueueSpan}
     IN \/ Works /\ EmitSpans(r, built) /\ ApiGoto(r, "reply")
        \/ Breaks /\ MayApply(EmitSpans(r, built), collected) /\ ApiGoto(r, "missed")
  /\ UNCHANGED <<status, enqueueSpan, queue, workerVars, table, clock, start>>

(* telemetry_emit_errors is incremented; then, or at once, the answer. *)
Answer(r) ==
  /\ \/ apiPc[r] = "missed" /\ Works /\ ApiGoto(r, "reply")
     \/ apiPc[r] = "missed" /\ Breaks /\ ApiGoto(r, "dropped")
     \/ apiPc[r] = "reply" /\ Works /\ ApiGoto(r, "answered")
  /\ UNCHANGED <<status, enqueueSpan, queue, workerVars, table, clock, start, collected>>

-----------------------------------------------------------------------------
(* A worker: run_worker.  An exception that nothing catches ends it. *)

(* The clock is read before the LPOP. *)
Poll(w) ==
  /\ workerPc[w] = "poll"
  /\ \/ Works /\ WorkerGoto(w, "pop") /\ polled' = [polled EXCEPT ![w] = clock]
     \/ Breaks /\ WorkerGoto(w, "dead") /\ UNCHANGED polled
  /\ UNCHANGED <<apiVars, queue, hand, table, clock, start, collected>>

Pop(w) ==
  /\ workerPc[w] = "pop" /\ polled' = [polled EXCEPT ![w] = 0]
  /\ \/ /\ queue = <<>> /\ Works /\ WorkerGoto(w, "poll")
        /\ UNCHANGED <<queue, hand, start>>
     \/ /\ queue # <<>> /\ Works /\ WorkerGoto(w, "take")
        /\ queue' = Tail(queue) /\ hand' = [hand EXCEPT ![w] = Head(queue)]
        /\ start' = [start EXCEPT ![Head(queue)]["redis.dequeue"] = polled[w]]
     \/ /\ Breaks /\ WorkerGoto(w, "dead")
        /\ MayApply(queue # <<>> /\ queue' = Tail(queue), queue) /\ UNCHANGED <<hand, start>>
  /\ UNCHANGED <<apiVars, table, clock, collected>>

(* The delay, the counters and the busy mark; then processing starts. *)
Take(w) ==
  /\ workerPc[w] = "take"
  /\ \/ /\ Works /\ WorkerGoto(w, "write")
        /\ start' = [start EXCEPT ![hand[w]] = [@ EXCEPT !["worker.processing"] = clock,
                                                         !["postgresql.write"] = clock]]
     \/ Breaks /\ WorkerGoto(w, "dead") /\ UNCHANGED start
  /\ UNCHANGED <<apiVars, queue, hand, polled, table, clock, collected>>

(* Faulty Write: an exception of the transaction is swallowed. *)
WriteAnyway(w) ==
  /\ workerPc[w] = "write" /\ WorkerGoto(w, "finish")
  /\ LET written == table' = [table EXCEPT ![hand[w]] = @ + 1]
     IN \/ Works /\ written
        \/ Breaks /\ MayApply(written, table)
  /\ UNCHANGED <<apiVars, queue, hand, polled, clock, start, collected>>

(* The transaction. *)
Write(w) ==
  /\ workerPc[w] = "write"
  /\ LET written == table' = [table EXCEPT ![hand[w]] = @ + 1]
     IN \/ Works /\ written /\ WorkerGoto(w, "finish")
        \/ Breaks /\ MayApply(written, table) /\ WorkerGoto(w, "dead")
  /\ UNCHANGED <<apiVars, queue, hand, polled, clock, start, collected>>

(* The marks and the counters after it. *)
Finish(w) ==
  /\ workerPc[w] = "finish"
  /\ \/ Works /\ WorkerGoto(w, "logs")
     \/ Breaks /\ WorkerGoto(w, "dead")
  /\ UNCHANGED <<apiVars, queue, hand, polled, table, clock, start, collected>>

PostCompletion(w) ==
  /\ workerPc[w] = "logs"
  /\ \/ Works /\ EmitLog(hand[w], "checkout.completed") /\ WorkerGoto(w, "spans")
     \/ /\ Breaks /\ WorkerGoto(w, "missed")
        /\ MayApply(EmitLog(hand[w], "checkout.completed"), collected)
  /\ UNCHANGED <<apiVars, queue, hand, polled, table, clock, start>>

PostWorkerSpans(w) ==
  /\ workerPc[w] = "spans"
  /\ \/ Works /\ EmitSpans(hand[w], WorkerSpans) /\ WorkerGoto(w, "poll")
     \/ /\ Breaks /\ WorkerGoto(w, "missed")
        /\ MayApply(EmitSpans(hand[w], WorkerSpans), collected)
  /\ hand' = [hand EXCEPT ![w] = IF workerPc'[w] = "poll" THEN Nobody ELSE @]
  /\ UNCHANGED <<apiVars, queue, polled, table, clock, start>>

CountMissed(w) ==
  /\ workerPc[w] = "missed"
  /\ \/ Works /\ WorkerGoto(w, "poll")
     \/ Breaks /\ WorkerGoto(w, "dead")
  /\ hand' = [hand EXCEPT ![w] = Nobody]
  /\ UNCHANGED <<apiVars, queue, polled, table, clock, start, collected>>

-----------------------------------------------------------------------------
Handle(r) ==
  \/ Enter(r) \/ Gate(r) \/ Stamp(r) \/ Push(r) \/ TallyEnqueue(r) \/ Leave(r)
  \/ PostApiLogs(r) \/ PostApiSpans(r) \/ Answer(r)

Work(w) ==
  \/ Poll(w) \/ Pop(w) \/ Take(w) \/ Write(w) \/ Finish(w)
  \/ PostCompletion(w) \/ PostWorkerSpans(w) \/ CountMissed(w)

Next == (\E r \in Requests : Handle(r)) \/ (\E w \in Workers : Work(w))

Spec == Init /\ [][Next]_vars

-----------------------------------------------------------------------------
(* The gate: _assess_capture on what the collector holds *)

AcceptedTraces == {r \in Requests : <<r, "checkout.accepted">> \in events}
CompletedTraces == {r \in Requests : <<r, "checkout.completed">> \in events}

(* No span names a parent that was not collected. *)
ValidTraceStructure ==
  /\ spans # {}
  /\ \A s \in spans : ParentOf[s[2]] # "none" => <<s[1], ParentOf[s[2]]>> \in spans

(* Each span of the path is there, is the child of the one before, and does *)
(* not start before it.                                                     *)
HasExactTracePath(r) ==
  \A i \in DOMAIN Path :
    /\ <<r, Path[i]>> \in spans
    /\ ParentOf[Path[i]] = IF i = 1 THEN "none" ELSE Path[i - 1]
    /\ i > 1 => start[r][Path[i]] >= start[r][Path[i - 1]]

(* complete_trace_numerator; complete_trace_denominator is that of accepted. *)
CompleteTraces ==
  {r \in AcceptedTraces \cap CompletedTraces : ValidTraceStructure /\ HasExactTracePath(r)}

-----------------------------------------------------------------------------
(* Properties *)

Idle == {"idle", "answered", "dropped"}

(* Nothing moves any more but workers that poll an empty queue. *)
AtRest ==
  /\ \A r \in Requests : apiPc[r] \in Idle
  /\ \A w \in Workers : workerPc[w] \in {"poll", "pop", "dead"}
  /\ queue = <<>> \/ \A w \in Workers : workerPc[w] = "dead"

(* A request the gate counts as complete was let in by the API and has its  *)
(* row in PostgreSQL, whatever calls broke on the way.                      *)
AuditIsSound == \A r \in CompleteTraces : status[r] = 202 /\ table[r] = 1

(* If no call broke, an accepted request that the gate does not count when  *)
(* all is at rest was popped by a worker that had read its clock before the *)
(* item was stamped: the worker reads dequeue_started_unix_nano before its  *)
(* LPOP, so the span of a dequeue can start before the residence it ends.   *)
LossesAreExplained ==
  AtRest /\ faults = 0 =>
    \A r \in AcceptedTraces :
      r \in CompleteTraces \/ start[r]["redis.dequeue"] < start[r]["queue.residence"]

(* If no call broke, a capture that ends when every checkout was answered   *)
(* has no orphaned span, also when workers are still busy: the API posts    *)
(* its spans before it answers.  One orphan would void the whole capture.   *)
AnswersLeaveRoots ==
  faults = 0 /\ (\A r \in Requests : apiPc[r] \in Idle) =>
    spans = {} \/ ValidTraceStructure
================================================================================
