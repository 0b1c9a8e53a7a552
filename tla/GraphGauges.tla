---------------------------- MODULE GraphGauges ----------------------------
(***************************************************************************)
(* The graph lab: src/lab/graph_jepa/service.py wraps the calls of the     *)
(* fault-matrix application with measurements of its own in Redis, and     *)
(* src/lab/graph_jepa/run_experiment.py reads them, one command after the  *)
(* other, at the end of every window.                                      *)
(*                                                                         *)
(* One action is one external call; a call works or breaks, and one that   *)
(* broke may have been executed (MaxFaults bounds how often). The calls of *)
(* the wrapped application that these measurements do not see (the outage  *)
(* check, heartbeats, logs: module FaultMatrix) are left out, latencies    *)
(* too; the time of an event is left to the window it is read in.          *)
(***************************************************************************)
EXTENDS Integers, Sequences, FiniteSets, FiniteSetsExt

CONSTANTS
  Requests, Workers,
  WindowOf,      \* the window in which the runner sends a request
  WindowCount,
  Nothing,       \* not a request: the hand of a worker with no item
  MaxFaults      \* bound: calls that fail

VARIABLES
  inflight, peak,     \* API_INFLIGHT_CURRENT and API_INFLIGHT_PEAK
  busy,               \* the fields of WORKER_BUSY
  counters,           \* COUNTERS, the fields of the path of an item
  queue, table,       \* the list; the requests with a row
  apiPc, failed,      \* each handler: its next step; whether it answers 500
  workerPc, hand,     \* each worker: its next step; the item it popped
  dying,              \* each worker: the call that raised in its transaction
  runner, window,     \* the runner: its next step; the window
  row,                \* what the runner has read for this window
  previous,           \* the last row it emitted
  most,               \* history: most handlers at once since the peak's reset
  lost,               \* history: updates of the inflight count that were lost
  swallowed,          \* history: other measurements that were lost
  faults              \* calls that failed so far

gauges == <<inflight, peak, most, lost>>
store == <<counters, queue, table>>
apiVars == <<apiPc, failed>>
workerVars == <<workerPc, hand, dying, busy>>
runVars == <<runner, window, row, previous>>
vars == <<gauges, store, apiVars, workerVars, runVars, swallowed, faults>>

CounterNames == {"api_requests", "enqueue_count", "residence_count",
                 "write_count", "worker_processed"}

\* A field the runner has not read yet is -1.
Unread == [counters |-> [c \in CounterNames |-> 0], rows |-> 0, current |-> -1,
           peak |-> -1, busy |-> -1, depth |-> -1, oldest |-> -1]

Init ==
  /\ inflight = 0 /\ peak = 0 /\ busy = {}
  /\ counters = [c \in CounterNames |-> 0]
  /\ queue = <<>> /\ table = {}
  /\ apiPc = [r \in Requests |-> "unsent"] /\ failed = {}
  /\ workerPc = [w \in Workers |-> "pop"]
  /\ hand = [w \in Workers |-> Nothing]
  /\ dying = [w \in Workers |-> "no"]
  /\ runner = "send" /\ window = 1
  /\ row = Unread /\ previous = Unread
  /\ most = 0
  /\ lost = [up |-> 0, down |-> 0]
  /\ swallowed = FALSE
  /\ faults = 0

Works == faults' = faults
Breaks == faults < MaxFaults /\ faults' = faults + 1
MayApply(effect, variables) == effect \/ UNCHANGED variables

ApiGoto(r, step) == apiPc' = [apiPc EXCEPT ![r] = step]
WorkerGoto(w, step) == workerPc' = [workerPc EXCEPT ![w] = step]
Raises(w, call) == dying' = [dying EXCEPT ![w] = call]
Tally(name) == counters' = [counters EXCEPT ![name] = @ + 1]

\* A measurement in a try that ignores a RedisError.
Measure(name) ==
  \/ Works /\ Tally(name) /\ UNCHANGED swallowed
  \/ Breaks /\ MayApply(Tally(name), counters) /\ swallowed' = TRUE

-----------------------------------------------------------------------------
(* The API: _observed_do_post around the handler. *)

\* Handlers between their two updates of the count.
Live == {r \in Requests : apiPc[r] \in {"push", "stamp", "record", "tally", "reply",
                                        "leave"}}

InflightScript(delta) ==
  LET current == Max({0, inflight + delta})
  IN  inflight' = current /\ peak' = Max({peak, current})

Enter(r) ==
  /\ apiPc[r] = "unsent" /\ runner = "await" /\ WindowOf[r] = window
  /\ ApiGoto(r, "push")
  /\ most' = Max({most, Cardinality(Live) + 1})
  /\ \/ (Works \/ Breaks) /\ InflightScript(1) /\ UNCHANGED lost
     \/ Breaks /\ lost' = [lost EXCEPT !.up = @ + 1] /\ UNCHANGED <<inflight, peak>>
  /\ UNCHANGED <<store, failed, workerVars, runVars, swallowed>>

\* The wrapped enqueue script.
Push(r) ==
  /\ apiPc[r] = "push"
  /\ \/ Works /\ queue' = Append(queue, r) /\ ApiGoto(r, "stamp") /\ UNCHANGED failed
     \/ /\ Breaks
        /\ MayApply(queue' = Append(queue, r), queue)
        /\ ApiGoto(r, "record") /\ failed' = failed \cup {r}
  /\ UNCHANGED <<gauges, counters, table, workerVars, runVars, swallowed>>

\* SET last_enqueue: the one measurement of an enqueue that can fail it.
StampEnqueue(r) ==
  /\ apiPc[r] = "stamp"
  /\ ApiGoto(r, "record")
  /\ \/ Works /\ UNCHANGED failed
     \/ Breaks /\ failed' = failed \cup {r}
  /\ UNCHANGED <<gauges, store, workerVars, runVars, swallowed>>

RecordEnqueue(r) ==
  /\ apiPc[r] = "record"
  /\ Measure("enqueue_count")
  /\ ApiGoto(r, "tally")
  /\ UNCHANGED <<gauges, queue, table, failed, workerVars, runVars>>

TallyRequest(r) ==
  /\ apiPc[r] = "tally"
  /\ Measure("api_requests")
  /\ ApiGoto(r, "reply")
  /\ UNCHANGED <<gauges, queue, table, failed, workerVars, runVars>>

Reply(r) ==
  /\ apiPc[r] = "reply"
  /\ ApiGoto(r, "leave")
  /\ \/ Works /\ UNCHANGED failed
     \/ Breaks /\ failed' = failed \cup {r}
  /\ UNCHANGED <<gauges, store, workerVars, runVars, swallowed>>

(* Faulty Leave: a handler that answers an error is not taken off the count. *)
LeaveOnSuccess(r) ==
  /\ apiPc[r] = "leave"
  /\ ApiGoto(r, "gone")
  /\ IF r \in failed THEN UNCHANGED <<inflight, peak>> ELSE InflightScript(-1)
  /\ Works
  /\ UNCHANGED <<store, failed, workerVars, runVars, swallowed, most, lost>>

Leave(r) ==
  /\ apiPc[r] = "leave"
  /\ ApiGoto(r, "gone")
  /\ \/ (Works \/ Breaks) /\ InflightScript(-1) /\ UNCHANGED lost
     \/ /\ Breaks
        /\ lost' = [lost EXCEPT !.down = @ + 1]
        /\ UNCHANGED <<inflight, peak>>
  /\ UNCHANGED <<store, failed, workerVars, runVars, swallowed, most>>

Handler(r) ==
  \/ Enter(r) \/ Push(r) \/ StampEnqueue(r) \/ RecordEnqueue(r) \/ TallyRequest(r)
  \/ Reply(r) \/ Leave(r)

-----------------------------------------------------------------------------
(* A worker. *)

Take(w) == hand' = [hand EXCEPT ![w] = Head(queue)] /\ queue' = Tail(queue)

Pop(w) ==
  /\ workerPc[w] = "pop" /\ queue # <<>>
  /\ \/ Works /\ Take(w) /\ WorkerGoto(w, "stamp")
     \/ Breaks /\ MayApply(Take(w), <<hand, queue>>) /\ WorkerGoto(w, "dead")
  /\ UNCHANGED <<gauges, counters, table, apiVars, dying, busy, runVars, swallowed>>

\* SET last_dequeue: it can end the worker with the item in its hand.
StampDequeue(w) ==
  /\ workerPc[w] = "stamp"
  /\ \/ Works /\ WorkerGoto(w, "residence")
     \/ Breaks /\ WorkerGoto(w, "dead")
  /\ UNCHANGED <<gauges, store, apiVars, hand, dying, busy, runVars, swallowed>>

(* Faulty RecordResidence: only waits of some length are counted. *)
ResidenceOfWaits(w) ==
  /\ workerPc[w] = "residence"
  /\ Works /\ MayApply(Tally("residence_count"), counters)
  /\ WorkerGoto(w, "busy")
  /\ UNCHANGED <<gauges, queue, table, apiVars, hand, dying, busy, runVars, swallowed>>

RecordResidence(w) ==
  /\ workerPc[w] = "residence"
  /\ Measure("residence_count")
  /\ WorkerGoto(w, "busy")
  /\ UNCHANGED <<gauges, queue, table, apiVars, hand, dying, busy, runVars>>

(* _ObservedTransaction.__enter__: HSET, then the inner transaction's. *)
SetBusy(w) ==
  /\ workerPc[w] = "busy"
  /\ WorkerGoto(w, "begin")
  /\ \/ Works /\ busy' = busy \cup {w} /\ UNCHANGED swallowed
     \/ Breaks /\ MayApply(busy' = busy \cup {w}, busy) /\ swallowed' = TRUE
  /\ UNCHANGED <<gauges, store, apiVars, hand, dying, runVars>>

(* Faulty Begin: a transaction that cannot begin is left like any other. *)
BeginOrLeave(w) ==
  /\ workerPc[w] = "begin"
  /\ \/ Works /\ WorkerGoto(w, "commit") /\ UNCHANGED dying
     \/ Breaks /\ WorkerGoto(w, "free") /\ Raises(w, "begin")
  /\ UNCHANGED <<gauges, store, apiVars, hand, busy, runVars, swallowed>>

\* A transaction that cannot begin is never left: the field stays.
Begin(w) ==
  /\ workerPc[w] = "begin"
  /\ \/ Works /\ WorkerGoto(w, "commit") /\ UNCHANGED dying
     \/ Breaks /\ WorkerGoto(w, "write") /\ Raises(w, "begin")
  /\ UNCHANGED <<gauges, store, apiVars, hand, busy, runVars, swallowed>>

\* The advisory lock, the INSERT and the COMMIT: one transaction, which
\* shows at its commit or not at all.
Commit(w) ==
  /\ workerPc[w] = "commit"
  /\ WorkerGoto(w, "free")
  /\ \/ Works /\ table' = table \cup {hand[w]} /\ UNCHANGED dying
     \/ /\ Breaks
        /\ MayApply(table' = table \cup {hand[w]}, table)
        /\ Raises(w, "commit")
  /\ UNCHANGED <<gauges, counters, queue, apiVars, hand, busy, runVars, swallowed>>

(* _ObservedTransaction.__exit__, in its finally clause: HDEL. *)
ClearBusy(w) ==
  /\ workerPc[w] = "free"
  /\ WorkerGoto(w, "write")
  /\ \/ Works /\ busy' = busy \ {w} /\ UNCHANGED swallowed
     \/ Breaks /\ MayApply(busy' = busy \ {w}, busy) /\ swallowed' = TRUE
  /\ UNCHANGED <<gauges, store, apiVars, hand, dying, runVars>>

RecordWrite(w) ==
  /\ workerPc[w] = "write"
  /\ Measure("write_count")
  /\ WorkerGoto(w, IF dying[w] # "no" THEN "dead" ELSE "count")
  /\ UNCHANGED <<gauges, queue, table, apiVars, hand, dying, busy, runVars>>

CountWork(w) ==
  /\ workerPc[w] = "count"
  /\ Measure("worker_processed")
  /\ WorkerGoto(w, "pop")
  /\ hand' = [hand EXCEPT ![w] = Nothing]
  /\ UNCHANGED <<gauges, queue, table, apiVars, dying, busy, runVars>>

Work(w) ==
  \/ Pop(w) \/ StampDequeue(w) \/ RecordResidence(w) \/ SetBusy(w) \/ Begin(w)
  \/ Commit(w) \/ ClearBusy(w) \/ RecordWrite(w) \/ CountWork(w)

-----------------------------------------------------------------------------
(* The runner: requests at once, all answers, then one read after another. *)

others == <<store, apiVars, workerVars, swallowed>>

Send ==
  /\ runner = "send"
  /\ runner' = "await"
  /\ row' = Unread
  /\ Works
  /\ UNCHANGED <<gauges, others, window, previous>>

Answered(r) == apiPc[r] \in {"leave", "gone"}

(* Faulty Await: the window closes although answers are missing. *)
AwaitNobody ==
  /\ runner = "await"
  /\ runner' = IF failed = {} THEN "counters" ELSE "failed"
  /\ Works
  /\ UNCHANGED <<gauges, others, window, row, previous>>

Await ==
  /\ runner = "await"
  /\ \A r \in Requests : WindowOf[r] = window => Answered(r)
  /\ runner' = IF failed = {} THEN "counters" ELSE "failed"
  /\ Works
  /\ UNCHANGED <<gauges, others, window, row, previous>>

(* Faulty After: the head of the list is read before its length. *)
AfterOldestFirst ==
  [counters |-> "rows", rows |-> "current", current |-> "peak", peak |-> "reset",
   busy |-> "oldest", oldest |-> "depth", depth |-> "emit"]

After == [counters |-> "rows", rows |-> "current", current |-> "peak",
          peak |-> "reset", busy |-> "depth", depth |-> "oldest", oldest |-> "emit"]

\* One read of the sample: the value goes into the row.
Read(step, value) ==
  /\ runner = step
  /\ \/ Works /\ runner' = After[step] /\ row' = [row EXCEPT ![step] = value]
     \/ Breaks /\ runner' = "failed" /\ UNCHANGED row
  /\ UNCHANGED <<gauges, others, window, previous>>

Reads ==
  \/ Read("counters", counters)
  \/ Read("rows", Cardinality(table))
  \/ Read("current", inflight)
  \/ Read("peak", peak)
  \/ Read("busy", Cardinality(busy))
  \/ Read("depth", Len(queue))
  \/ Read("oldest", IF queue = <<>> THEN 0 ELSE 1)

(* Faulty ResetPeak: the peak of the window before is kept. *)
KeepPeak ==
  /\ runner = "reset"
  /\ Works
  /\ runner' = "busy"
  /\ most' = Cardinality(Live)
  /\ UNCHANGED <<inflight, peak, lost, others, window, row, previous>>

\* SET peak to the count read two commands ago.
ResetPeak ==
  /\ runner = "reset"
  /\ \/ Works /\ runner' = "busy" /\ peak' = row.current
        /\ most' = Cardinality(Live)
     \/ Breaks /\ runner' = "failed" /\ MayApply(peak' = row.current, peak)
        /\ UNCHANGED most
  /\ UNCHANGED <<inflight, lost, others, window, row, previous>>

\* compile_operational_metric_window, and the row is posted.
Emit ==
  /\ runner = "emit"
  /\ \/ /\ Works
        /\ runner' = IF window = WindowCount THEN "done" ELSE "send"
        /\ window' = IF window = WindowCount THEN window ELSE window + 1
        /\ previous' = row
     \/ Breaks /\ runner' = "failed" /\ UNCHANGED <<window, previous>>
  /\ UNCHANGED <<gauges, others, row>>

Run == Send \/ Await \/ Reads \/ ResetPeak \/ Emit

Next ==
  \/ \E r \in Requests : Handler(r)
  \/ \E w \in Workers : Work(w)
  \/ Run

Spec == Init /\ [][Next]_vars

-----------------------------------------------------------------------------
(* Properties. *)

ApiSteps == {"unsent", "push", "stamp", "record", "tally", "reply", "leave", "gone"}
WorkerSteps == {"pop", "stamp", "residence", "busy", "begin", "commit", "free",
                "write", "count", "dead"}
Sampling == {"counters", "rows", "current", "peak", "reset", "busy", "depth",
             "oldest", "emit"}

(* The count is never negative, whatever update was lost before. *)
TypeOK ==
  /\ inflight \in Nat /\ peak \in Nat
  /\ busy \subseteq Workers
  /\ counters \in [CounterNames -> Nat]
  /\ queue \in Seq(Requests) /\ table \subseteq Requests
  /\ apiPc \in [Requests -> ApiSteps] /\ failed \subseteq Requests
  /\ workerPc \in [Workers -> WorkerSteps]
  /\ hand \in [Workers -> Requests \cup {Nothing}]
  /\ dying \in [Workers -> {"no", "begin", "commit"}]
  /\ runner \in Sampling \cup {"send", "await", "done", "failed"}
  /\ window \in 1 .. WindowCount
  /\ faults \in 0 .. MaxFaults

(* The count is the number of handlers at work, up to one for every update   *)
(* that was lost: whether a handler answers 202, 500 or nobody, its finally  *)
(* clause gives back what it took.  About _observed_do_post and the floor of *)
(* the script, which may only hide a lost upward update.                     *)
InflightDriftIsExplained ==
  /\ inflight >= Cardinality(Live) - lost.up
  /\ inflight <= Cardinality(Live) + lost.down

Unharmed == lost = [up |-> 0, down |-> 0]

(* When no update was lost, the peak of a row is the most handlers that were *)
(* at work at once since the peak was last reset, or the count the reset     *)
(* wrote, and never less than the row's own count.  About the reads of the   *)
(* count and of the peak and the reset, three commands handlers run between. *)
PeakIsOfItsWindow ==
  runner = "reset" /\ Unharmed =>
    /\ row.peak >= row.current
    /\ row.peak >= most
    /\ row.peak <= Max({most, previous.current})

(* A handler the sample can still count has answered: no row's current count *)
(* shows a request in progress.  About the runner, which awaits all answers  *)
(* before it samples, and the update in the finally clause after the answer. *)
SampledHandlersHaveAnswered ==
  runner \in Sampling => \A r \in Live : apiPc[r] = "leave"

(* WORKER_BUSY names the workers in a transaction, and those whose           *)
(* transaction could not begin: these never leave it, and stay busy for all  *)
(* later rows although they are dead.  About _ObservedTransaction.           *)
BusyIsExplained ==
  ~swallowed =>
    busy = {w \in Workers : workerPc[w] \in {"begin", "commit", "free"}}
             \cup {w \in Workers : dying[w] = "begin"}

(* The fields of a row are read at different moments and still agree: no     *)
(* more work is counted than rows were written, no item is counted both as   *)
(* written and as queued, and an empty queue has no oldest item.  About the  *)
(* order of the reads of _sample and of the runner's loop.                   *)
RowReadsAgree ==
  runner = "emit" =>
    /\ row.counters["worker_processed"] <= row.rows
    /\ row.rows + row.depth <= Cardinality({r \in Requests : WindowOf[r] <= window})
    /\ row.depth = 0 => row.oldest = 0

(* When no measurement was lost, a counter snapshot orders the path of an    *)
(* item: no more items were processed than written, and no more written than *)
(* had their residence counted.  About the order of the wrapped calls.       *)
CountersFollowThePath ==
  ~swallowed =>
    /\ counters["worker_processed"] <= counters["write_count"]
    /\ counters["write_count"] <= counters["residence_count"]
=============================================================================
