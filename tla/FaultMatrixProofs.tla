--------------------------- MODULE FaultMatrixProofs ---------------------------
(***************************************************************************)
(* Theorems about FaultMatrix, for any number of requests and workers, any *)
(* thresholds of the backlog and any number of failed calls and faults;    *)
(* then about GraphGauges, the measurements around the same calls; then    *)
(* about FaultMatrixRun, for any number of windows, any interval of the    *)
(* fault inside them and any number of polls.                              *)
(***************************************************************************)
EXTENDS FaultMatrixRun, FiniteSetTheorems, TLAPS

-----------------------------------------------------------------------------
(* The helpers keep the types of what they change. *)

(* Counting an operation keeps the counters natural numbers. *)
LEMMA TallyType ==
  ASSUME counters \in [CounterNames -> Nat], NEW names, Tally(names)
  PROVE  counters' \in [CounterNames -> Nat]
BY DEF Tally

(* The budget of failed calls is never exceeded. *)
LEMMA FaultType ==
  ASSUME faults \in 0 .. MaxFaults, Works \/ Breaks
  PROVE  faults' \in 0 .. MaxFaults
BY MatrixBounds DEF Works, Breaks

(* A handler thread only moves to steps of do_POST. *)
LEMMA ApiType ==
  ASSUME TypeOK, NEW r \in Requests, NEW step \in ApiSteps, ApiGoto(r, step)
  PROVE  apiPc' \in [Requests -> ApiSteps]
BY DEF TypeOK, ApiGoto

(* A worker only moves to steps of run_worker. *)
LEMMA WorkerType ==
  ASSUME TypeOK, NEW w \in Workers, NEW step \in WorkerSteps, WorkerGoto(w, step)
  PROVE  workerPc' \in [Workers -> WorkerSteps]
BY DEF TypeOK, WorkerGoto

(* Every length has a bucket. *)
LEMMA BucketType == \A length : Bucket(length) \in Buckets
BY DEF Bucket, Buckets

(* The scripts keep the types of the three keys. *)
LEMMA AdvanceType ==
  ASSUME TypeOK, NEW list \in Seq(Requests), Advance(list)
  PROVE  /\ queue' \in Seq(Requests)
         /\ backlog' \in Buckets
         /\ crossings' \in Seq(Buckets)
BY BucketType DEF TypeOK, Advance

(* The transition that a script returns is a natural number. *)
LEMMA CrossingType ==
  ASSUME TypeOK, NEW list
  PROVE  Crossing(list) \in Nat
BY DEF TypeOK, Crossing

(* Pushing an item and popping one leave a list of requests. *)
LEMMA ListType ==
  ASSUME TypeOK
  PROVE  /\ \A r \in Requests : Append(queue, r) \in Seq(Requests)
         /\ queue # <<>> => /\ Tail(queue) \in Seq(Requests)
                            /\ Head(queue) \in Requests
BY DEF TypeOK

(* A pop moves a request from the list into a hand. *)
LEMMA TakeType ==
  ASSUME TypeOK, NEW w \in Workers, Take(w)
  PROVE  /\ hand' \in [Workers -> Requests \cup {Nobody}]
         /\ queue' \in Seq(Requests)
         /\ backlog' \in Buckets
         /\ crossings' \in Seq(Buckets)
<1>1. Tail(queue) \in Seq(Requests) /\ Head(queue) \in Requests
  BY ListType DEF Take
<1>2. Advance(Tail(queue)) /\ hand' = [hand EXCEPT ![w] = Head(queue)]
  BY DEF Take
<1> QED
  BY <1>1, <1>2, AdvanceType DEF TypeOK

LogRecords == [accepted : SUBSET Requests, completed : SUBSET Requests,
               crossings : SUBSET Nat]

(* What is logged are requests and transitions. *)
LEMMA LoggedType ==
  ASSUME logs \in LogRecords, NEW items \in SUBSET Requests, NEW transition \in Nat,
         \/ Logged("accepted", items, transition)
         \/ Logged("completed", items, transition)
  PROVE  logs' \in LogRecords
<1>1. PICK more \in SUBSET Nat : more = {transition} \ {0}
  OBVIOUS
<1>2. CASE Logged("accepted", items, transition)
  <2>1. logs' = [logs EXCEPT !["accepted"] = @ \cup items, !.crossings = @ \cup more]
    BY <1>1, <1>2 DEF Logged
  <2> QED
    BY <2>1 DEF LogRecords
<1>3. CASE Logged("completed", items, transition)
  <2>1. logs' = [logs EXCEPT !["completed"] = @ \cup items, !.crossings = @ \cup more]
    BY <1>1, <1>3 DEF Logged
  <2> QED
    BY <2>1 DEF LogRecords
<1> QED
  BY <1>2, <1>3

(* TypeOK with that name. *)
LEMMA LogsType == TypeOK => logs \in LogRecords
BY DEF TypeOK, LogRecords

(* Counting a failed emission keeps the types. *)
LEMMA ExcuseType ==
  ASSUME TypeOK, CountEmitError
  PROVE  /\ counters' \in [CounterNames -> Nat]
         /\ logs' = logs
         /\ swallowed' \in SUBSET {"api", "worker", "emit"}
         /\ faults' \in 0 .. MaxFaults
<1>1. counters \in [CounterNames -> Nat] /\ faults \in 0 .. MaxFaults
  BY DEF TypeOK
<1>2. counters' \in [CounterNames -> Nat]
  BY <1>1, TallyType DEF CountEmitError, MayApply
<1>3. faults' \in 0 .. MaxFaults
  BY <1>1, FaultType DEF CountEmitError
<1> QED
  BY <1>2, <1>3 DEF TypeOK, CountEmitError

-----------------------------------------------------------------------------
(* Type correctness *)

(* The HTTP statuses of the handlers; a literal set of numbers in a goal    *)
(* about functions is better hidden behind a name.                          *)
Statuses == {202, 500, 503}

LEMMA StatusValues == 202 \in Statuses /\ 500 \in Statuses /\ 503 \in Statuses
BY DEF Statuses

(* TypeOK with that name. *)
LEMMA StatusType == TypeOK => status \in [Requests -> Statuses]
BY DEF TypeOK, Statuses

LEMMA Assemble ==
  ASSUME queue' \in Seq(Requests), backlog' \in Buckets \cup {"unset"},
         crossings' \in Seq(Buckets), counters' \in [CounterNames -> Nat],
         instances' \in SUBSET Workers, crash' \in BOOLEAN, outage' \in BOOLEAN,
         table' \in [Requests -> Nat], lockOwner' \in Workers \cup {Runner, Nobody},
         logs' \in LogRecords,
         apiPc' \in [Requests -> ApiSteps], status' \in [Requests -> Statuses],
         seen' \in [Requests -> Nat], workerPc' \in [Workers -> WorkerSteps],
         hand' \in [Workers -> Requests \cup {Nobody}], found' \in [Workers -> Nat],
         busy' \in SUBSET Workers, swallowed' \in SUBSET {"api", "worker", "emit"},
         faults' \in 0 .. MaxFaults, injected' \in 0 .. MaxControls
  PROVE  TypeOK'
BY DEF TypeOK, Statuses, LogRecords

(* A step of a handler keeps the types. *)
LEMMA HandlerType ==
  ASSUME TypeOK, NEW r \in Requests, Send(r) \/ Handler(r)
  PROVE  TypeOK'
<1> USE DEF listVars, controls, database, reports, apiVars, workerVars, MayApply
<1>0. status \in [Requests -> Statuses]
  BY StatusType
<1>00. logs \in LogRecords
  BY LogsType
<1>1. CASE Send(r)
  <2>1. apiPc' \in [Requests -> ApiSteps]
    BY <1>1, ApiType DEF Send, ApiSteps
  <2> QED
    BY <1>1, <2>1 DEF Send, TypeOK
<1>2. CASE Gate(r)
  <2>1. apiPc' \in [Requests -> ApiSteps]
    BY <1>2, ApiType DEF Gate, ApiSteps
  <2>2. status' \in [Requests -> Statuses]
    BY <1>2, <1>0, StatusValues DEF Gate, Fails
  <2>3. faults' \in 0 .. MaxFaults
    BY <1>2, FaultType DEF Gate, TypeOK
  <2> QED
    BY <1>2, <2>1, <2>2, <2>3, <1>00, Assemble DEF Gate, TypeOK
<1>3. CASE Push(r)
  <2>1. apiPc' \in [Requests -> ApiSteps]
    BY <1>3, ApiType DEF Push, ApiSteps
  <2>2. status' \in [Requests -> Statuses]
    BY <1>3, <1>0, StatusValues DEF Push, Fails
  <2>3. faults' \in 0 .. MaxFaults
    BY <1>3, FaultType DEF Push, TypeOK
  <2>4. Append(queue, r) \in Seq(Requests) /\ Crossing(Append(queue, r)) \in Nat
    BY ListType, CrossingType
  <2>5. Advance(Append(queue, r)) \/ UNCHANGED <<queue, backlog, crossings>>
    BY <1>3 DEF Push
  <2>6. /\ queue' \in Seq(Requests)
        /\ backlog' \in Buckets \cup {"unset"}
        /\ crossings' \in Seq(Buckets)
    <3>1. CASE Advance(Append(queue, r))
      BY <2>4, <3>1, AdvanceType
    <3>2. CASE UNCHANGED <<queue, backlog, crossings>>
      BY <3>2 DEF TypeOK
    <3> QED
      BY <2>5, <3>1, <3>2
  <2>7. seen' = seen \/ seen' = [seen EXCEPT ![r] = Crossing(Append(queue, r))]
    BY <1>3 DEF Push
  <2>8. seen' \in [Requests -> Nat]
    <3>1. seen \in [Requests -> Nat]
      BY DEF TypeOK
    <3>2. PICK transition \in Nat : transition = Crossing(Append(queue, r))
      BY <2>4
    <3>3. seen' = seen \/ seen' = [seen EXCEPT ![r] = transition]
      BY <2>7, <3>2
    <3> QED
      BY <3>1, <3>3
  <2>9. UNCHANGED <<instances, controls, database, reports, workerVars>>
    BY <1>3 DEF Push
  <2> QED
    BY <2>1, <2>2, <2>3, <2>6, <2>8, <2>9, <1>00, Assemble DEF TypeOK
<1>4. CASE Emit(r)
  <2>1. apiPc' \in [Requests -> ApiSteps]
    BY <1>4, ApiType DEF Emit, ApiSteps
  <2>2. faults' \in 0 .. MaxFaults
    BY <1>4, FaultType DEF Emit, TypeOK
  <2>3. PICK items \in SUBSET Requests : items = IF status[r] = 202 THEN {r} ELSE {}
    OBVIOUS
  <2>4. seen[r] \in Nat
    BY DEF TypeOK
  <2>5. Logged("accepted", items, seen[r]) \/ UNCHANGED logs
    BY <1>4, <2>3 DEF Emit
  <2>6. logs' \in LogRecords
    BY <1>00, <2>4, <2>5, LoggedType
  <2> QED
    BY <1>4, <1>0, <2>1, <2>2, <2>6, <1>00, Assemble DEF Emit, TypeOK
<1>5. CASE ExcuseEmit(r)
  <2>1. apiPc' \in [Requests -> ApiSteps]
    BY <1>5, ApiType DEF ExcuseEmit, ApiSteps
  <2> QED
    BY <1>5, <1>0, <2>1, ExcuseType, <1>00, Assemble DEF ExcuseEmit, TypeOK
<1>6. CASE Count(r)
  <2>1. apiPc' \in [Requests -> ApiSteps]
    BY <1>6, ApiType DEF Count, ApiSteps
  <2>2. faults' \in 0 .. MaxFaults
    BY <1>6, FaultType DEF Count, TypeOK
  <2>3. counters' \in [CounterNames -> Nat]
    BY <1>6, TallyType DEF Count, TypeOK
  <2> QED
    BY <1>6, <1>0, <2>1, <2>2, <2>3, <1>00, Assemble DEF Count, TypeOK
<1>7. CASE Reply(r)
  <2>1. apiPc' \in [Requests -> ApiSteps]
    BY <1>7, ApiType DEF Reply, ApiSteps
  <2>2. faults' \in 0 .. MaxFaults
    BY <1>7, FaultType DEF Reply, TypeOK
  <2> QED
    BY <1>7, <2>1, <2>2 DEF Reply, TypeOK
<1> QED
  BY <1>1, <1>2, <1>3, <1>4, <1>5, <1>6, <1>7 DEF Handler

(* The steps at which a worker must have an item. *)
Holding == {"wait", "lock", "commit", "complete"}

(* A worker that processes an item has one in its hand: without this the    *)
(* types are not inductive, for a completion logs the item of the hand.     *)
HandsAreFull == \A w \in Workers : workerPc[w] \in Holding => hand[w] # Nobody

(* A step of a worker keeps the types. *)
LEMMA WorkType ==
  ASSUME TypeOK, HandsAreFull, NEW w \in Workers, Work(w)
  PROVE  TypeOK'
<1> USE DEF listVars, controls, database, reports, apiVars, workerVars, MayApply
<1>0. status \in [Requests -> Statuses] /\ logs \in LogRecords
  BY StatusType, LogsType
<1>1. CASE CheckCrash(w)
  <2>1. workerPc' \in [Workers -> WorkerSteps]
    BY <1>1, WorkerType DEF CheckCrash, WorkerSteps, Emissions
  <2>2. faults' \in 0 .. MaxFaults
    BY <1>1, FaultType DEF CheckCrash, TypeOK
  <2> QED
    BY <1>1, <2>1, <2>2 DEF CheckCrash, TypeOK
<1>2. CASE Register(w)
  <2>1. workerPc' \in [Workers -> WorkerSteps]
    BY <1>2, WorkerType DEF Register, WorkerSteps, Emissions
  <2>2. faults' \in 0 .. MaxFaults
    BY <1>2, FaultType DEF Register, TypeOK
  <2>3. instances' \in SUBSET Workers
    BY <1>2 DEF Register, TypeOK
  <2> QED
    BY <1>2, <2>1, <2>2, <2>3 DEF Register, TypeOK
<1>3. CASE Dequeue(w)
  <2>1. workerPc' \in [Workers -> WorkerSteps]
    BY <1>3, WorkerType DEF Dequeue, WorkerSteps, Emissions
  <2>2. faults' \in 0 .. MaxFaults
    BY <1>3, FaultType DEF Dequeue, TypeOK
  <2>3. Take(w) \/ UNCHANGED <<queue, backlog, crossings, hand>>
    BY <1>3 DEF Dequeue
  <2>4. /\ queue' \in Seq(Requests)
        /\ backlog' \in Buckets \cup {"unset"}
        /\ crossings' \in Seq(Buckets)
        /\ hand' \in [Workers -> Requests \cup {Nobody}]
    <3>1. CASE Take(w)
      BY <3>1, TakeType
    <3>2. CASE UNCHANGED <<queue, backlog, crossings, hand>>
      BY <3>2 DEF TypeOK
    <3> QED
      BY <2>3, <3>1, <3>2
  <2>5. found' \in [Workers -> Nat]
    <3>1. PICK transition \in Nat : transition = Crossing(Tail(queue))
      BY CrossingType
    <3>2. found' = found \/ found' = [found EXCEPT ![w] = transition]
      BY <1>3, <3>1 DEF Dequeue
    <3>3. found \in [Workers -> Nat]
      BY DEF TypeOK
    <3> QED
      BY <3>2, <3>3
  <2>6. UNCHANGED <<instances, controls, database, reports, apiVars, busy>>
    BY <1>3 DEF Dequeue
  <2> QED
    BY <1>0, <2>1, <2>2, <2>4, <2>5, <2>6, Assemble DEF TypeOK
<1>4. CASE MeasureWait(w)
  <2>1. workerPc' \in [Workers -> WorkerSteps]
    BY <1>4, WorkerType DEF MeasureWait, WorkerSteps
  <2>2. faults' \in 0 .. MaxFaults
    BY <1>4, FaultType DEF MeasureWait, TypeOK
  <2> QED
    BY <1>4, <2>1, <2>2 DEF MeasureWait, TypeOK
<1>5. CASE Lock(w)
  <2>1. workerPc' \in [Workers -> WorkerSteps]
    BY <1>5, WorkerType DEF Lock, WorkerSteps, Emissions
  <2>2. faults' \in 0 .. MaxFaults
    BY <1>5, FaultType DEF Lock, TypeOK
  <2>3. lockOwner' \in Workers \cup {Runner, Nobody}
    BY <1>5 DEF Lock, TypeOK
  <2> QED
    BY <1>5, <2>1, <2>2, <2>3 DEF Lock, TypeOK
<1>6. CASE Commit(w)
  <2>1. workerPc' \in [Workers -> WorkerSteps]
    BY <1>6, WorkerType DEF Commit, WorkerSteps, Emissions
  <2>2. faults' \in 0 .. MaxFaults
    BY <1>6, FaultType DEF Commit, TypeOK
  <2>3. lockOwner' \in Workers \cup {Runner, Nobody}
    BY <1>6 DEF Commit, TypeOK
  <2>4. table' \in [Requests -> Nat]
    <3>1. \/ table' = [table EXCEPT ![hand[w]] = table[hand[w]] + 1]
          \/ table' = table
      BY <1>6 DEF Commit
    <3>2. table \in [Requests -> Nat]
      BY DEF TypeOK
    <3> HIDE DEF MayApply, database
    <3> QED
      BY <3>1, <3>2
  <2>5. UNCHANGED <<listVars, instances, controls, reports, apiVars, hand, found, busy>>
    BY <1>6 DEF Commit
  <2> QED
    BY <1>0, <2>1, <2>2, <2>3, <2>4, <2>5, Assemble DEF TypeOK
<1>7. CASE EmitWorker(w)
  <2>1. /\ After[workerPc[w]] \in WorkerSteps
        /\ Excuse[workerPc[w]] \in WorkerSteps
    BY <1>7 DEF EmitWorker, Emissions, Excuse, Excuses, After, WorkerSteps
  <2>2. \/ WorkerGoto(w, After[workerPc[w]])
        \/ WorkerGoto(w, Excuse[workerPc[w]])
    BY <1>7 DEF EmitWorker
  <2>3. workerPc' \in [Workers -> WorkerSteps]
    BY <2>1, <2>2, WorkerType
  <2>4. faults' \in 0 .. MaxFaults
    BY <1>7, FaultType DEF EmitWorker, TypeOK
  <2>5. busy' = busy \cup {w} \/ busy' = busy \ {w} \/ busy' = busy
    BY <1>7 DEF EmitWorker, Emissions
  <2>6. logs' \in LogRecords
    <3>1. WorkerLog(w) \/ logs' = logs
      BY <1>7 DEF EmitWorker
    <3>2. found[w] \in Nat
      BY DEF TypeOK
    <3>3. CASE workerPc[w] = "complete"
      <4>1. hand[w] \in Requests
        BY <3>3 DEF TypeOK, HandsAreFull, Holding
      <4>2. Logged("completed", {hand[w]}, found[w]) \/ logs' = logs
        BY <3>1, <3>3 DEF WorkerLog
      <4>3. {hand[w]} \in SUBSET Requests
        BY <4>1
      <4> QED
        BY <1>0, <3>2, <4>2, <4>3, LoggedType
    <3>4. CASE workerPc[w] # "complete"
      BY <1>0, <3>1, <3>4 DEF WorkerLog
    <3> QED
      BY <3>3, <3>4
  <2>7. UNCHANGED <<listVars, instances, controls, database, counters, swallowed,
                    apiVars, hand, found>>
    BY <1>7 DEF EmitWorker
  <2> QED
    BY <1>0, <2>3, <2>4, <2>5, <2>6, <2>7, Assemble DEF TypeOK
<1>8. CASE ExcuseWorker(w)
  <2>1. After[workerPc[w]] \in WorkerSteps
    BY <1>8 DEF ExcuseWorker, Emissions, Excuse, Excuses, After, WorkerSteps
  <2>2. workerPc' \in [Workers -> WorkerSteps]
    BY <1>8, <2>1, WorkerType DEF ExcuseWorker
  <2>3. /\ CountEmitError
        /\ UNCHANGED <<listVars, instances, controls, database, apiVars, hand, found, busy>>
    BY <1>8 DEF ExcuseWorker
  <2> QED
    BY <1>0, <2>2, <2>3, ExcuseType, Assemble DEF TypeOK
<1>9. CASE CountWork(w)
  <2>1. workerPc' \in [Workers -> WorkerSteps]
    BY <1>9, WorkerType DEF CountWork, WorkerSteps
  <2>2. faults' \in 0 .. MaxFaults
    BY <1>9, FaultType DEF CountWork, TypeOK
  <2>3. counters' \in [CounterNames -> Nat]
    BY <1>9, TallyType DEF CountWork, TypeOK
  <2>4. hand' \in [Workers -> Requests \cup {Nobody}] /\ found' \in [Workers -> Nat]
    BY <1>9 DEF CountWork, TypeOK
  <2>5. swallowed' \in SUBSET {"api", "worker", "emit"}
    <3>1. swallowed' = swallowed \/ swallowed' = swallowed \cup {"worker"}
      BY <1>9 DEF CountWork
    <3>2. swallowed \in SUBSET {"api", "worker", "emit"}
      BY DEF TypeOK
    <3> QED
      BY <3>1, <3>2
  <2>6. UNCHANGED <<listVars, instances, controls, database, logs, apiVars, busy>>
    BY <1>9 DEF CountWork
  <2> QED
    BY <1>0, <2>1, <2>2, <2>3, <2>4, <2>5, <2>6, Assemble DEF TypeOK
<1> QED
  BY <1>1, <1>2, <1>3, <1>4, <1>5, <1>6, <1>7, <1>8, <1>9 DEF Work

(* A step of a worker keeps the hands of all workers full. *)
LEMMA WorkKeepsHands ==
  ASSUME TypeOK, HandsAreFull, NEW w \in Workers, Work(w)
  PROVE  HandsAreFull'
<1> USE DEF Holding, WorkerGoto
<1>0. workerPc \in [Workers -> WorkerSteps] /\ hand \in [Workers -> Requests \cup {Nobody}]
  BY DEF TypeOK
<1>1. CASE Dequeue(w)
  <2>1. CASE Take(w) /\ WorkerGoto(w, "wait")
    <3>1. Head(queue) # Nobody
      BY <2>1, ListType, MatrixNames DEF Take
    <3> QED
      BY <1>0, <2>1, <3>1 DEF Take, HandsAreFull
  <2>2. CASE UNCHANGED hand /\ (\E s \in {"check", "idle", "confess"} : WorkerGoto(w, s))
    BY <1>0, <2>2 DEF HandsAreFull
  <2>3. CASE Take(w) /\ WorkerGoto(w, "confess")
    BY <1>0, <2>3 DEF Take, HandsAreFull
  <2> QED
    BY <1>1, <2>1, <2>2, <2>3 DEF Dequeue, MayApply
<1>2. CASE CountWork(w)
  BY <1>0, <1>2 DEF CountWork, HandsAreFull
<1>3. CASE EmitWorker(w) \/ ExcuseWorker(w)
  <2>1. /\ After[workerPc[w]] \notin Holding
        /\ workerPc[w] \in Emissions => Excuse[workerPc[w]] \notin Holding
    BY <1>3 DEF EmitWorker, ExcuseWorker, Emissions, Excuse, Excuses, After
  <2>2. UNCHANGED hand
    BY <1>3 DEF EmitWorker, ExcuseWorker
  <2>3. \/ WorkerGoto(w, After[workerPc[w]])
        \/ workerPc[w] \in Emissions /\ WorkerGoto(w, Excuse[workerPc[w]])
    BY <1>3 DEF EmitWorker, ExcuseWorker
  <2> QED
    BY <1>0, <2>1, <2>2, <2>3 DEF HandsAreFull
<1>4. CASE CheckCrash(w) \/ Register(w) \/ MeasureWait(w) \/ Lock(w) \/ Commit(w)
  BY <1>0, <1>4 DEF CheckCrash, Register, MeasureWait, Lock, Commit, HandsAreFull
<1> QED
  BY <1>1, <1>2, <1>3, <1>4 DEF Work

(* Types and full hands are inductive together: they hold in the beginning, *)
(* and every step keeps them.                                               *)
LEMMA InitTypes ==
  ASSUME Init
  PROVE  TypeOK /\ HandsAreFull
<1>1. /\ backlog \in Buckets \cup {"unset"}
      /\ counters \in [CounterNames -> Nat]
      /\ faults \in 0 .. MaxFaults /\ injected \in 0 .. MaxControls
  BY MatrixBounds DEF Init, Buckets, NoCounts
<1>2. /\ apiPc \in [Requests -> ApiSteps]
      /\ workerPc \in [Workers -> WorkerSteps]
      /\ status \in [Requests -> {202, 500, 503}]
  BY DEF Init, ApiSteps, WorkerSteps
<1>3. /\ queue \in Seq(Requests) /\ crossings \in Seq(Buckets)
      /\ table \in [Requests -> Nat]
      /\ seen \in [Requests -> Nat] /\ found \in [Workers -> Nat]
      /\ hand \in [Workers -> Requests \cup {Nobody}]
      /\ logs \in [accepted : SUBSET Requests, completed : SUBSET Requests,
                   crossings : SUBSET Nat]
  BY DEF Init, NoLogs
<1>4. HandsAreFull
  BY DEF Init, HandsAreFull, Holding
<1> QED
  BY <1>1, <1>2, <1>3, <1>4 DEF Init, TypeOK

LEMMA NextKeepsTypes ==
  ASSUME TypeOK, HandsAreFull, [Next]_vars
  PROVE  TypeOK' /\ HandsAreFull'
<1> USE DEF listVars, controls, database, reports, apiVars, workerVars
<1>1. CASE \E r \in Requests : Send(r) \/ Handler(r)
  <2>1. UNCHANGED <<workerPc, hand>>
    BY <1>1 DEF Send, Handler, Gate, Push, Emit, ExcuseEmit, Count, Reply
  <2> QED
    BY <1>1, <2>1, HandlerType DEF HandsAreFull
<1>2. CASE \E w \in Workers : Work(w)
  BY <1>2, WorkType, WorkKeepsHands
<1>3. CASE Inject
  <2>1. injected' \in 0 .. MaxControls
    BY <1>3, MatrixBounds DEF Inject, TypeOK
  <2>2. /\ crash' \in BOOLEAN /\ outage' \in BOOLEAN
        /\ lockOwner' \in Workers \cup {Runner, Nobody}
    <3>1. /\ crash \in BOOLEAN /\ outage \in BOOLEAN
          /\ lockOwner \in Workers \cup {Runner, Nobody}
      BY DEF TypeOK
    <3> QED
      BY <1>3, <3>1 DEF Inject
  <2>3. UNCHANGED <<listVars, instances, table, reports, apiVars, workerVars, faults>>
    BY <1>3 DEF Inject
  <2> QED
    BY <2>1, <2>2, <2>3 DEF TypeOK, HandsAreFull
<1>4. CASE Withdraw
  BY <1>4 DEF Withdraw, TypeOK, HandsAreFull
<1>5. CASE UNCHANGED vars
  BY <1>5 DEF vars, TypeOK, HandsAreFull
<1> QED
  BY <1>1, <1>2, <1>3, <1>4, <1>5 DEF Next

LEMMA Inductive == Spec => [](TypeOK /\ HandsAreFull)
<1>1. Init => TypeOK /\ HandsAreFull
  BY InitTypes
<1>2. TypeOK /\ HandsAreFull /\ [Next]_vars => TypeOK' /\ HandsAreFull'
  BY NextKeepsTypes
<1> QED
  BY <1>1, <1>2, PTL DEF Spec

(* Every reachable state is well typed. *)
THEOREM TypeCorrect == Spec => []TypeOK
BY Inductive, PTL

-----------------------------------------------------------------------------
(* The cached backlog state *)

(* The invariant is inductive over the two scripts: it does not matter who  *)
(* runs them, in which order, nor whether the caller hears of it.           *)
LEMMA AdvanceFollows ==
  ASSUME TypeOK, BacklogFollowsQueue, NEW list \in Seq(Requests), Advance(list)
  PROVE  BacklogFollowsQueue'
<1>1. backlog' = Bucket(Len(queue')) /\ backlog' # "unset"
  BY BucketType DEF Advance, Buckets
<1>2. crossings \in Seq(Buckets)
  BY DEF TypeOK
<1>3. CASE backlog = Bucket(Len(list))
  <2>1. crossings' = crossings /\ backlog' = backlog
    BY <1>3 DEF Advance
  <2> QED
    BY <1>1, <2>1 DEF BacklogFollowsQueue
<1>4. CASE backlog # Bucket(Len(list))
  <2>1. PICK b \in Buckets : b = Bucket(Len(list))
    BY BucketType
  <2>2. crossings' = Append(crossings, b) /\ backlog' = b
    BY <1>4, <2>1 DEF Advance
  <2>3. crossings' # <<>> /\ crossings'[Len(crossings')] = b
    BY <1>2, <2>2
  <2>4. ASSUME NEW i \in 1 .. Len(crossings') - 1
        PROVE  crossings'[i] # crossings'[i + 1]
    <3>1. Len(crossings') = Len(crossings) + 1
      BY <1>2, <2>2
    <3>2. CASE i < Len(crossings)
      BY <1>2, <2>2, <3>1, <3>2 DEF BacklogFollowsQueue
    <3>3. CASE i = Len(crossings)
      <4>1. crossings # <<>> /\ crossings'[i] = backlog /\ crossings'[i + 1] = b
        BY <1>2, <2>2, <3>1, <3>3 DEF BacklogFollowsQueue
      <4> QED
        BY <1>4, <2>1, <4>1
    <3> QED
      BY <1>2, <3>1, <3>2, <3>3
  <2> QED
    BY <1>1, <2>2, <2>3, <2>4 DEF BacklogFollowsQueue
<1> QED
  BY <1>3, <1>4

(* Steps that do not run a script leave the list and its state alone. *)
LEMMA QuietFollows ==
  ASSUME BacklogFollowsQueue, UNCHANGED listVars
  PROVE  BacklogFollowsQueue'
BY DEF BacklogFollowsQueue, listVars, Bucket

(* The cached state is the bucket of the list, and crossings alternate. *)
THEOREM BacklogIsFollowed == Spec => []BacklogFollowsQueue
<1>1. Init => BacklogFollowsQueue
  BY MatrixBounds DEF Init, BacklogFollowsQueue, Bucket
<1>2. TypeOK /\ BacklogFollowsQueue /\ [Next]_vars => BacklogFollowsQueue'
  <2> SUFFICES ASSUME TypeOK, BacklogFollowsQueue, [Next]_vars
               PROVE  BacklogFollowsQueue'
    OBVIOUS
  <2>1. ASSUME NEW r \in Requests, Push(r) PROVE BacklogFollowsQueue'
    <3>1. Append(queue, r) \in Seq(Requests)
      BY ListType
    <3>2. Advance(Append(queue, r)) \/ UNCHANGED listVars
      BY <2>1 DEF Push, MayApply
    <3> QED
      BY <3>1, <3>2, AdvanceFollows, QuietFollows
  <2>2. ASSUME NEW r \in Requests, Send(r) \/ Handler(r), ~Push(r)
        PROVE  BacklogFollowsQueue'
    <3>1. UNCHANGED listVars
      BY <2>2 DEF Send, Handler, Gate, Emit, ExcuseEmit, Count, Reply
    <3> QED
      BY <3>1, QuietFollows
  <2>3. ASSUME NEW w \in Workers, Dequeue(w) PROVE BacklogFollowsQueue'
    <3>1. CASE Take(w)
      <4>1. Tail(queue) \in Seq(Requests) /\ Advance(Tail(queue))
        BY <3>1, ListType DEF Take
      <4> QED
        BY <4>1, AdvanceFollows
    <3>2. CASE UNCHANGED listVars
      BY <3>2, QuietFollows
    <3> QED
      BY <2>3, <3>1, <3>2 DEF Dequeue, MayApply
  <2>4. ASSUME NEW w \in Workers, Work(w), ~Dequeue(w)
        PROVE  BacklogFollowsQueue'
    <3>1. UNCHANGED listVars
      BY <2>4 DEF Work, CheckCrash, Register, MeasureWait, Lock, Commit, EmitWorker,
                  ExcuseWorker, CountWork
    <3> QED
      BY <3>1, QuietFollows
  <2>5. CASE Inject \/ Withdraw \/ UNCHANGED vars
    BY <2>5, QuietFollows DEF Inject, Withdraw, vars
  <2> QED
    BY <2>1, <2>2, <2>3, <2>4, <2>5 DEF Next
<1> QED
  BY <1>1, <1>2, TypeCorrect, PTL DEF Spec

-----------------------------------------------------------------------------
(* Crossings that nobody reports *)

(* A crossing is on its way from the script that saw it to the emission that *)
(* reports it: with a handler that is about to emit, or with a worker that   *)
(* has not reported its item.  (A worker that only counts its item is done   *)
(* with the crossing, although it still carries it.)                         *)
Awaited ==
  {seen[r] : r \in {q \in Requests : apiPc[q] = "emit"}}
  \cup {found[w] : w \in {v \in Workers : workerPc[v] \in Holding}}

Unreported == (1 .. Len(crossings)) \ (logs.crossings \cup Awaited)

(* Each failed call accounts for one crossing: CrossingsAreReported, less the *)
(* crossings that workers carry without a use.                                *)
LossesAreCounted == Cardinality(Unreported) <= faults

(* A set that gains at most one element is at most one larger. *)
LEMMA OneMore ==
  ASSUME NEW S, IsFiniteSet(S), NEW T, NEW x, T \subseteq S \cup {x}
  PROVE  /\ Cardinality(S) \in Nat /\ Cardinality(T) \in Nat
         /\ Cardinality(T) <= Cardinality(S) + 1
<1>1. IsFiniteSet(S \cup {x}) /\ Cardinality(S \cup {x}) <= Cardinality(S) + 1
      /\ Cardinality(S \cup {x}) \in Nat /\ Cardinality(S) \in Nat
  BY FS_AddElement, FS_CardinalityType
<1>2. Cardinality(T) \in Nat /\ Cardinality(T) <= Cardinality(S \cup {x})
  BY <1>1, FS_Subset, FS_CardinalityType
<1> QED
  BY <1>1, <1>2

(* A step loses nothing, or one crossing and a call. *)
Loses(x) ==
  \/ faults' \in {faults, faults + 1} /\ Unreported' \subseteq Unreported
  \/ faults' = faults + 1 /\ Unreported' \subseteq Unreported \cup {x}

LEMMA LossesStayCounted ==
  ASSUME TypeOK, LossesAreCounted, NEW x, Loses(x)
  PROVE  LossesAreCounted'
<1>1. faults \in Nat /\ Len(crossings) \in Nat
  BY MatrixBounds DEF TypeOK
<1>2. IsFiniteSet(Unreported)
  <2>1. IsFiniteSet(1 .. Len(crossings))
    BY <1>1, FS_Interval
  <2>2. Unreported \subseteq 1 .. Len(crossings)
    BY DEF Unreported
  <2> QED
    BY <2>1, <2>2, FS_Subset
<1>3. Cardinality(Unreported) \in Nat
  BY <1>2, FS_CardinalityType
<1> HIDE DEF Unreported
<1>4. CASE faults' \in {faults, faults + 1} /\ Unreported' \subseteq Unreported
  <2>1. Cardinality(Unreported') <= Cardinality(Unreported) /\ Cardinality(Unreported') \in Nat
    BY <1>2, <1>4, FS_Subset, FS_CardinalityType
  <2> QED
    BY <1>1, <1>3, <1>4, <2>1 DEF LossesAreCounted
<1>5. CASE faults' = faults + 1 /\ Unreported' \subseteq Unreported \cup {x}
  <2>1. Cardinality(Unreported') <= Cardinality(Unreported) + 1 /\ Cardinality(Unreported') \in Nat
    BY <1>2, <1>5, OneMore
  <2> QED
    BY <1>1, <1>3, <1>5, <2>1 DEF LossesAreCounted
<1> QED
  BY <1>4, <1>5 DEF Loses

(* A script adds at most one crossing, the one whose number it returns. *)
LEMMA AdvanceAdds ==
  ASSUME TypeOK, NEW list, Advance(list)
  PROVE  /\ 1 .. Len(crossings') \subseteq (1 .. Len(crossings)) \cup {Len(crossings) + 1}
         /\ \A n \in 1 .. Len(crossings') : n \in 1 .. Len(crossings) \/ n = Crossing(list)
<1>1. crossings \in Seq(Buckets) /\ Len(crossings) \in Nat
  BY DEF TypeOK
<1>2. CASE backlog = Bucket(Len(list))
  BY <1>2 DEF Advance
<1>3. CASE backlog # Bucket(Len(list))
  <2>1. PICK b \in Buckets : b = Bucket(Len(list))
    BY BucketType
  <2>2. crossings' = Append(crossings, b) /\ Crossing(list) = Len(crossings) + 1
    BY <1>3, <2>1 DEF Advance, Crossing
  <2>3. Len(crossings') = Len(crossings) + 1
    BY <1>1, <2>2
  <2> QED
    BY <1>1, <2>2, <2>3
<1> QED
  BY <1>2, <1>3

(* A report of a crossing stays, and is in the logs from then on. *)
LEMMA LoggedKeeps ==
  ASSUME logs \in LogRecords, NEW stream \in {"accepted", "completed"}, NEW items,
         NEW transition, Logged(stream, items, transition)
  PROVE  /\ logs'.crossings = logs.crossings \cup ({transition} \ {0})
         /\ logs.crossings \subseteq logs'.crossings
         /\ transition \in logs'.crossings \cup {0}
         /\ logs'.completed = IF stream = "completed" THEN logs.completed \cup items
                              ELSE logs.completed
<1>1. CASE stream = "accepted"
  <2>1. logs' = [logs EXCEPT !.accepted = @ \cup items,
                             !.crossings = @ \cup ({transition} \ {0})]
    BY <1>1 DEF Logged
  <2> QED
    BY <1>1, <2>1 DEF LogRecords
<1>2. CASE stream = "completed"
  <2>1. logs' = [logs EXCEPT !.completed = @ \cup items,
                             !.crossings = @ \cup ({transition} \ {0})]
    BY <1>2 DEF Logged
  <2> QED
    BY <1>2, <2>1 DEF LogRecords
<1> QED
  BY <1>1, <1>2

(* What a thread does not touch stays awaited. *)
LEMMA StillAwaited ==
  ASSUME NEW x,
         \A q \in Requests : apiPc[q] = "emit" =>
           seen[q] = x \/ (apiPc'[q] = "emit" /\ seen'[q] = seen[q]),
         \A v \in Workers : workerPc[v] \in Holding =>
           found[v] = x \/ (workerPc'[v] \in Holding /\ found'[v] = found[v])
  PROVE  Awaited \subseteq Awaited' \cup {x}
BY DEF Awaited

(* A step of a handler loses at most the crossing of its own push. *)
LEMMA HandlerLoses ==
  ASSUME TypeOK, NEW r \in Requests, Send(r) \/ Handler(r)
  PROVE  \E x : Loses(x)
<1> USE DEF listVars, reports, workerVars, apiVars
<1>1. /\ apiPc \in [Requests -> ApiSteps] /\ seen \in [Requests -> Nat]
      /\ Len(crossings) \in Nat
  BY DEF TypeOK
<1>2. UNCHANGED <<workerPc, found>>
  BY DEF Send, Handler, Gate, Push, Emit, ExcuseEmit, Count, Reply
<1>3. faults' \in {faults, faults + 1}
  BY DEF Send, Handler, Gate, Push, Emit, ExcuseEmit, Count, Reply, CountEmitError, Works, Breaks
<1>4. CASE Push(r)
  <2> DEFINE list == Append(queue, r)
             n == Len(crossings) + 1
  <2>0. apiPc[r] = "push" /\ apiPc' = [apiPc EXCEPT ![r] = "emit"] /\ logs' = logs
    BY <1>4 DEF Push, ApiGoto
  <2> HIDE DEF list
  <2>1. CASE Works /\ Advance(list) /\ seen' = [seen EXCEPT ![r] = Crossing(list)]
    <3>1. Awaited \subseteq Awaited' \cup {Crossing(list)} /\ Crossing(list) \in Awaited'
      BY <1>1, <1>2, <2>0, <2>1, StillAwaited DEF Awaited
    <3>2. Unreported' \subseteq Unreported
      BY <2>0, <2>1, <3>1, AdvanceAdds DEF Unreported
    <3> QED
      BY <1>3, <3>2 DEF Loses
  <2>2. CASE Breaks /\ UNCHANGED seen /\ (Advance(list) \/ UNCHANGED listVars)
    <3>1. Awaited \subseteq Awaited'
      BY <1>1, <1>2, <2>0, <2>2 DEF Awaited
    <3>2. 1 .. Len(crossings') \subseteq (1 .. Len(crossings)) \cup {n}
      BY <2>2, AdvanceAdds
    <3>3. Unreported' \subseteq Unreported \cup {n}
      BY <2>0, <3>1, <3>2 DEF Unreported
    <3> QED
      BY <2>2, <3>3 DEF Loses, Breaks
  <2> QED
    BY <1>4, <2>1, <2>2 DEF Push, MayApply, list
<1>5. CASE Emit(r)
  <2>1. /\ apiPc[r] = "emit" /\ UNCHANGED <<crossings, seen>>
        /\ \E step \in {"count", "excuse"} : apiPc' = [apiPc EXCEPT ![r] = step]
    BY <1>5 DEF Emit, ApiGoto
  <2>2. Awaited \subseteq Awaited' \cup {seen[r]}
    BY <1>1, <1>2, <2>1, StillAwaited
  <2>3. logs \in LogRecords
    BY LogsType
  <2>4. ASSUME NEW stream \in {"accepted", "completed"}, NEW items, Logged(stream, items, seen[r])
        PROVE  /\ logs.crossings \subseteq logs'.crossings
               /\ seen[r] \in logs'.crossings \cup {0}
    BY <2>3, <2>4, LoggedKeeps
  <2>5. CASE Logged("accepted", IF status[r] = 202 THEN {r} ELSE {}, seen[r])
    <3>1. /\ logs.crossings \subseteq logs'.crossings
          /\ seen[r] \in logs'.crossings \cup {0}
      BY <2>5, <2>4
    <3>2. Unreported' \subseteq Unreported
      BY <2>1, <2>2, <3>1 DEF Unreported
    <3> QED
      BY <1>3, <3>2 DEF Loses
  <2>6. CASE Breaks /\ logs' = logs
    <3>1. Unreported' \subseteq Unreported \cup {seen[r]}
      BY <2>1, <2>2, <2>6 DEF Unreported
    <3> QED
      BY <2>6, <3>1 DEF Loses, Breaks
  <2> QED
    BY <1>5, <2>5, <2>6 DEF Emit, MayApply
<1>6. CASE Send(r) \/ Gate(r) \/ ExcuseEmit(r) \/ Count(r) \/ Reply(r)
  <2>1. /\ apiPc[r] # "emit" /\ UNCHANGED <<crossings, seen, logs>>
        /\ \A q \in Requests : q # r => apiPc'[q] = apiPc[q]
    BY <1>1, <1>6 DEF Send, Gate, ExcuseEmit, Count, Reply, CountEmitError, ApiGoto
  <2>2. Unreported' \subseteq Unreported
    BY <1>2, <2>1 DEF Unreported, Awaited
  <2> QED
    BY <1>3, <2>2 DEF Loses
<1> QED
  BY <1>4, <1>5, <1>6 DEF Handler

(* A step of a worker loses at most the crossing of its own pop, or the one *)
(* that it carries.                                                         *)
LEMMA WorkLoses ==
  ASSUME TypeOK, NEW w \in Workers, Work(w)
  PROVE  \E x : Loses(x)
<1> USE DEF listVars, reports, apiVars, WorkerGoto, Holding
<1>1. /\ workerPc \in [Workers -> WorkerSteps] /\ found \in [Workers -> Nat]
      /\ Len(crossings) \in Nat /\ logs \in LogRecords
  BY LogsType DEF TypeOK
<1>2. UNCHANGED <<apiPc, seen>>
  BY DEF Work, CheckCrash, Register, Dequeue, MeasureWait, Lock, Commit, EmitWorker,
         ExcuseWorker, CountWork
<1>3. faults' \in {faults, faults + 1}
  BY DEF Work, CheckCrash, Register, Dequeue, MeasureWait, Lock, Commit, EmitWorker,
         ExcuseWorker, CountWork, CountEmitError, Works, Breaks
<1>4. CASE Dequeue(w)
  <2> DEFINE list == Tail(queue)
             n == Len(crossings) + 1
  <2>0. workerPc[w] = "dequeue" /\ logs' = logs
        /\ \E step : workerPc' = [workerPc EXCEPT ![w] = step]
    BY <1>4 DEF Dequeue
  <2> HIDE DEF list
  <2>1. CASE /\ Works /\ Advance(list) /\ WorkerGoto(w, "wait")
             /\ found' = [found EXCEPT ![w] = Crossing(list)]
    <3>1. Awaited \subseteq Awaited' \cup {Crossing(list)} /\ Crossing(list) \in Awaited'
      BY <1>1, <1>2, <2>0, <2>1, StillAwaited DEF Awaited
    <3>2. Unreported' \subseteq Unreported
      BY <2>0, <2>1, <3>1, AdvanceAdds DEF Unreported
    <3> QED
      BY <1>3, <3>2 DEF Loses
  <2>2. CASE UNCHANGED <<listVars, found>>
    <3>1. Unreported' \subseteq Unreported
      BY <1>1, <1>2, <2>0, <2>2 DEF Unreported, Awaited
    <3> QED
      BY <1>3, <3>1 DEF Loses
  <2>3. CASE Breaks /\ Advance(list) /\ UNCHANGED found
    <3>1. Awaited \subseteq Awaited'
      BY <1>1, <1>2, <2>0, <2>3 DEF Awaited
    <3>2. 1 .. Len(crossings') \subseteq (1 .. Len(crossings)) \cup {n}
      BY <2>3, AdvanceAdds
    <3>3. Unreported' \subseteq Unreported \cup {n}
      BY <2>0, <3>1, <3>2 DEF Unreported
    <3> QED
      BY <2>3, <3>3 DEF Loses, Breaks
  <2> QED
    BY <1>4, <2>1, <2>2, <2>3 DEF Dequeue, MayApply, Take, list
<1>5. CASE MeasureWait(w) \/ Lock(w) \/ Commit(w)
  <2>1. /\ UNCHANGED <<crossings, logs, found>>
        /\ \E step \in WorkerSteps :
             /\ workerPc' = [workerPc EXCEPT ![w] = step]
             /\ step \in Holding \/ faults' = faults + 1
    BY <1>5 DEF MeasureWait, Lock, Commit, Breaks, WorkerSteps, Emissions
  <2>2. PICK step \in WorkerSteps : /\ workerPc' = [workerPc EXCEPT ![w] = step]
                                    /\ step \in Holding \/ faults' = faults + 1
    BY <2>1
  <2>3. CASE step \in Holding
    <3>1. Awaited \subseteq Awaited'
      BY <1>1, <1>2, <2>1, <2>2, <2>3 DEF Awaited
    <3> QED
      BY <1>3, <2>1, <3>1 DEF Loses, Unreported
  <2>4. CASE faults' = faults + 1
    <3>1. Awaited \subseteq Awaited' \cup {found[w]}
      BY <1>1, <1>2, <2>1, <2>2, StillAwaited
    <3> QED
      BY <2>1, <2>4, <3>1 DEF Loses, Unreported
  <2> QED
    BY <2>2, <2>3, <2>4
<1>6. CASE EmitWorker(w) /\ workerPc[w] = "complete"
  <2>1. /\ UNCHANGED <<crossings, found>>
        /\ \E step : workerPc' = [workerPc EXCEPT ![w] = step]
    BY <1>6 DEF EmitWorker
  <2>2. Awaited \subseteq Awaited' \cup {found[w]}
    BY <1>1, <1>2, <2>1, StillAwaited
  <2>3. CASE Logged("completed", {hand[w]}, found[w])
    <3>1. /\ logs.crossings \subseteq logs'.crossings
          /\ found[w] \in logs'.crossings \cup {0}
      BY <1>1, <2>3, LoggedKeeps
    <3>2. Unreported' \subseteq Unreported
      BY <2>1, <2>2, <3>1 DEF Unreported
    <3> QED
      BY <1>3, <3>2 DEF Loses
  <2>4. CASE Breaks /\ logs' = logs
    <3>1. Unreported' \subseteq Unreported \cup {found[w]}
      BY <2>1, <2>2, <2>4 DEF Unreported
    <3> QED
      BY <2>4, <3>1 DEF Loses, Breaks
  <2> QED
    BY <1>6, <2>3, <2>4 DEF EmitWorker, MayApply, WorkerLog
<1>7. CASE \/ CheckCrash(w) \/ Register(w) \/ ExcuseWorker(w) \/ CountWork(w)
           \/ EmitWorker(w) /\ workerPc[w] # "complete"
  <2>1. /\ workerPc[w] \notin Holding /\ UNCHANGED <<crossings, logs>>
        /\ \E step : workerPc' = [workerPc EXCEPT ![w] = step]
    BY <1>7 DEF CheckCrash, Register, ExcuseWorker, CountWork, EmitWorker, CountEmitError,
                WorkerLog, MayApply, Emissions, Excuses, Excuse
  <2>2. \A v \in Workers : v # w => found'[v] = found[v]
    BY <1>1, <1>7 DEF CheckCrash, Register, ExcuseWorker, CountWork, EmitWorker
  <2>3. Awaited \subseteq Awaited'
    BY <1>1, <1>2, <2>1, <2>2 DEF Awaited
  <2> QED
    BY <1>3, <2>1, <2>3 DEF Loses, Unreported
<1> QED
  BY <1>4, <1>5, <1>6, <1>7 DEF Work

(* A crossing of the backlog is reported, or it is still on its way, or the *)
(* call that would have brought it there failed (the transition events of   *)
(* do_POST and run_worker).                                                 *)
THEOREM CrossingsReported == Spec => []CrossingsAreReported
<1>1. Init => LossesAreCounted
  <2> SUFFICES ASSUME Init PROVE LossesAreCounted
    OBVIOUS
  <2>1. Unreported = {} /\ faults = 0
    BY DEF Init, Unreported
  <2> QED
    BY <2>1, FS_EmptySet DEF LossesAreCounted
<1>2. TypeOK /\ LossesAreCounted /\ [Next]_vars => LossesAreCounted'
  <2> SUFFICES ASSUME TypeOK, LossesAreCounted, [Next]_vars PROVE LossesAreCounted'
    OBVIOUS
  <2>1. CASE Inject \/ Withdraw \/ UNCHANGED vars
    <3>1. UNCHANGED <<crossings, logs, apiPc, seen, workerPc, found, faults>>
      BY <2>1 DEF Inject, Withdraw, vars, listVars, reports, apiVars, workerVars
    <3> QED
      BY <3>1 DEF LossesAreCounted, Unreported, Awaited
  <2> QED
    BY <2>1, HandlerLoses, WorkLoses, LossesStayCounted DEF Next
<1>3. ASSUME TypeOK, HandsAreFull, LossesAreCounted
      PROVE  CrossingsAreReported
  <2> DEFINE lost == (1 .. Len(crossings)) \ (logs.crossings
                       \cup ({seen[r] : r \in {q \in Requests : apiPc[q] = "emit"}}
                       \cup {found[w] : w \in {v \in Workers \ Doomed : hand[v] # Nobody}}))
  <2>1. \A v \in Workers : workerPc[v] \in Holding => v \notin Doomed /\ hand[v] # Nobody
    BY <1>3 DEF Holding, Doomed, HandsAreFull
  <2>2. lost \subseteq Unreported
    BY <2>1 DEF Unreported, Awaited
  <2>3. IsFiniteSet(Unreported)
    <3>1. IsFiniteSet(1 .. Len(crossings))
      BY <1>3, FS_Interval DEF TypeOK
    <3>2. Unreported \subseteq 1 .. Len(crossings)
      BY DEF Unreported
    <3> QED
      BY <3>1, <3>2, FS_Subset
  <2>4. /\ Cardinality(lost) <= Cardinality(Unreported)
        /\ Cardinality(lost) \in Nat /\ Cardinality(Unreported) \in Nat
    BY <2>2, <2>3, FS_Subset, FS_CardinalityType
  <2>5. faults \in Nat
    BY <1>3, MatrixBounds DEF TypeOK
  <2>6. Cardinality(lost) <= faults
    <3> HIDE DEF lost
    <3> QED
      BY <1>3, <2>4, <2>5 DEF LossesAreCounted
  <2> QED
    BY <2>6 DEF CrossingsAreReported
<1> QED
  BY <1>1, <1>2, <1>3, Inductive, PTL DEF Spec

-----------------------------------------------------------------------------
(* Custody of an item: the list, the hands and the table agree with the     *)
(* steps of the threads.                                                    *)

Distinct(s) == \A i, j \in 1 .. Len(s) : s[i] = s[j] => i = j
Occurs(e, s) == \E i \in 1 .. Len(s) : s[i] = e

(* Appending a new element keeps a sequence free of repetitions. *)
LEMMA AppendDistinct ==
  ASSUME NEW S, NEW s \in Seq(S), NEW e \in S, Distinct(s), ~Occurs(e, s)
  PROVE  /\ Distinct(Append(s, e))
         /\ \A x : Occurs(x, Append(s, e)) <=> Occurs(x, s) \/ x = e
<1>1. /\ Append(s, e) \in Seq(S) /\ Len(Append(s, e)) = Len(s) + 1 /\ Len(s) \in Nat
      /\ \A i \in 1 .. Len(s) : Append(s, e)[i] = s[i]
      /\ Append(s, e)[Len(s) + 1] = e
  OBVIOUS
<1>. HIDE DEF Occurs
<1>. DEFINE t == Append(s, e)
<1>. HIDE DEF t
<1>2. Distinct(t)
  BY <1>1 DEF Distinct, Occurs, t
<1>3. \A x : Occurs(x, t) <=> Occurs(x, s) \/ x = e
  BY <1>1 DEF Occurs, t
<1> QED BY <1>2, <1>3 DEF t

(* The tail of such a sequence has lost its head for good. *)
LEMMA TailDistinct ==
  ASSUME NEW S, NEW s \in Seq(S), s # <<>>, Distinct(s)
  PROVE  /\ Tail(s) \in Seq(S) /\ Head(s) \in S /\ Occurs(Head(s), s)
         /\ Distinct(Tail(s))
         /\ \A x : Occurs(x, Tail(s)) <=> Occurs(x, s) /\ x # Head(s)
<1>1. /\ Tail(s) \in Seq(S) /\ Head(s) \in S /\ Len(Tail(s)) = Len(s) - 1 /\ Len(s) \in Nat \ {0}
      /\ \A i \in 1 .. Len(s) - 1 : Tail(s)[i] = s[i + 1]
      /\ Head(s) = s[1]
  OBVIOUS
<1>2. Occurs(Head(s), s)
  BY <1>1 DEF Occurs
<1>3. Distinct(Tail(s))
  BY <1>1 DEF Distinct
<1>4. ASSUME NEW x PROVE Occurs(x, Tail(s)) <=> Occurs(x, s) /\ x # Head(s)
  <2>1. ASSUME Occurs(x, Tail(s)) PROVE Occurs(x, s) /\ x # Head(s)
    <3>1. PICK i \in 1 .. Len(s) - 1 : s[i + 1] = x
      BY <1>1, <2>1 DEF Occurs
    <3>2. i + 1 \in 1 .. Len(s) /\ 1 \in 1 .. Len(s) /\ i + 1 # 1
      BY <1>1
    <3> QED
      BY <1>1, <3>1, <3>2 DEF Distinct, Occurs
  <2>2. ASSUME Occurs(x, s), x # Head(s) PROVE Occurs(x, Tail(s))
    <3>1. PICK i \in 1 .. Len(s) : s[i] = x
      BY <2>2 DEF Occurs
    <3>2. i # 1 /\ i - 1 \in 1 .. Len(s) - 1 /\ (i - 1) + 1 = i
      BY <1>1, <2>2, <3>1
    <3>3. Tail(s)[i - 1] = x
      BY <1>1, <3>1, <3>2
    <3> QED
      BY <1>1, <3>2, <3>3 DEF Occurs
  <2> QED
    BY <2>1, <2>2
<1> QED BY <1>1, <1>2, <1>3, <1>4

Early == {"idle", "gate", "push"}

(* A worker without an item, with one to store, with a stored one, and one *)
(* that an exception takes out of its loop.                                *)
FreeSteps == {"check", "register", "dequeue", "idle", "idleExcuse", "exited"}
DueSteps == {"wait", "lock", "commit"}
DoneSteps == {"complete", "completeExcuse", "count"}
DoomedSteps == {"confess", "confessExcuse", "fail", "failExcuse", "dead"}

(* Before the push an item is nowhere. *)
NotYet(r) == apiPc[r] \in Early => ~Queued(r) /\ Holders(r) = {} /\ ~Stored(r)

(* A queued item is nowhere else; nobody shares an item. *)
OnePlace(r) ==
  /\ Queued(r) => Holders(r) = {} /\ ~Stored(r)
  /\ \A v, w \in Workers : hand[v] = r /\ hand[w] = r => v = w

HandAgrees(w) ==
  /\ workerPc[w] \in FreeSteps => hand[w] = Nobody
  /\ workerPc[w] \in DueSteps => hand[w] \in Requests /\ ~Stored(hand[w])
  /\ workerPc[w] \in DoneSteps => hand[w] \in Requests /\ Stored(hand[w])

Custody ==
  /\ Distinct(queue)
  /\ \A r \in Requests : NotYet(r) /\ OnePlace(r)
  /\ \A w \in Workers : HandAgrees(w)

(* What a step of worker w does to its item: nothing, beyond going from one  *)
(* step to another of the same kind or out of the loop before the commit;    *)
(* the pop; the row; the end of the item's loop.                             *)
MovesNothing(w, step) ==
  /\ UNCHANGED <<queue, hand, table>>
  /\ \/ workerPc[w] \in FreeSteps /\ step \in FreeSteps \cup DoomedSteps
     \/ workerPc[w] \in DueSteps /\ step \in DueSteps \cup DoomedSteps
     \/ workerPc[w] \in DoneSteps /\ step \in DoneSteps
     \/ workerPc[w] \in DoomedSteps /\ step \in DoomedSteps

Pops(w, step) ==
  /\ workerPc[w] = "dequeue" /\ step \in {"wait", "confess"}
  /\ queue # <<>> /\ queue' = Tail(queue)
  /\ hand' = [hand EXCEPT ![w] = Head(queue)]
  /\ UNCHANGED table

Stores(w, step) ==
  /\ workerPc[w] = "commit" /\ step \in {"complete", "fail"}
  /\ table' = [table EXCEPT ![hand[w]] = @ + 1]
  /\ UNCHANGED <<queue, hand>>

LetsGo(w, step) ==
  /\ workerPc[w] = "count" /\ step = "check"
  /\ hand' = [hand EXCEPT ![w] = Nobody]
  /\ UNCHANGED <<queue, table>>

LEMMA WorkKinds ==
  ASSUME TypeOK, NEW w \in Workers, Work(w)
  PROVE  /\ UNCHANGED <<apiPc, status>>
         /\ \E step \in WorkerSteps :
              /\ workerPc' = [workerPc EXCEPT ![w] = step]
              /\ MovesNothing(w, step) \/ Pops(w, step) \/ Stores(w, step) \/ LetsGo(w, step)
<1> USE DEF listVars, reports, apiVars, database, WorkerGoto, MayApply, WorkerSteps, Emissions,
            FreeSteps, DueSteps, DoneSteps, DoomedSteps
<1>0. UNCHANGED <<apiPc, status>>
  BY DEF Work, CheckCrash, Register, Dequeue, MeasureWait, Lock, Commit, EmitWorker,
         ExcuseWorker, CountWork
<1>1. CASE CheckCrash(w) \/ Register(w) \/ MeasureWait(w) \/ Lock(w)
  BY <1>0, <1>1 DEF CheckCrash, Register, MeasureWait, Lock, MovesNothing
<1>2. CASE Dequeue(w)
  BY <1>0, <1>2 DEF Dequeue, Take, Advance, MovesNothing, Pops
<1>3. CASE Commit(w)
  BY <1>0, <1>3 DEF Commit, MovesNothing, Stores
<1>4. CASE EmitWorker(w) \/ ExcuseWorker(w)
  <2>1. UNCHANGED <<queue, hand, table>>
        /\ \/ WorkerGoto(w, After[workerPc[w]])
           \/ workerPc[w] \in Emissions /\ WorkerGoto(w, Excuse[workerPc[w]])
    BY <1>4 DEF EmitWorker, ExcuseWorker, CountEmitError
  <2>2. /\ After[workerPc[w]] \in WorkerSteps
        /\ workerPc[w] \in FreeSteps => After[workerPc[w]] \in FreeSteps
        /\ workerPc[w] \in DoneSteps => After[workerPc[w]] \in DoneSteps
        /\ workerPc[w] \in DoomedSteps => After[workerPc[w]] \in DoomedSteps
        /\ workerPc[w] \in FreeSteps \cup DoneSteps \cup DoomedSteps
    BY <1>4 DEF EmitWorker, ExcuseWorker, After, Excuse, Excuses
  <2>3. workerPc[w] \in Emissions =>
          /\ Excuse[workerPc[w]] \in WorkerSteps
          /\ workerPc[w] \in FreeSteps => Excuse[workerPc[w]] \in FreeSteps
          /\ workerPc[w] \in DoneSteps => Excuse[workerPc[w]] \in DoneSteps
          /\ workerPc[w] \in DoomedSteps => Excuse[workerPc[w]] \in DoomedSteps
    BY DEF Excuse, Excuses
  <2> HIDE DEF FreeSteps, DoneSteps, DoomedSteps, DueSteps, WorkerSteps, Emissions
  <2> QED
    BY <1>0, <2>1, <2>2, <2>3 DEF MovesNothing
<1>5. CASE CountWork(w)
  BY <1>0, <1>5 DEF CountWork, LetsGo
<1> QED
  BY <1>1, <1>2, <1>3, <1>4, <1>5 DEF Work

(* A step that moves no item keeps custody. *)
LEMMA NothingKeepsCustody ==
  ASSUME TypeOK, Custody, NEW w \in Workers, NEW step \in WorkerSteps,
         workerPc' = [workerPc EXCEPT ![w] = step], MovesNothing(w, step), UNCHANGED apiPc
  PROVE  Custody'
<1>1. UNCHANGED <<queue, hand, table>> /\ workerPc \in [Workers -> WorkerSteps]
  BY DEF MovesNothing, TypeOK
<1>2. \A r \in Requests : NotYet(r)' /\ OnePlace(r)'
  BY <1>1 DEF Custody, NotYet, OnePlace, Queued, Holders, Stored
<1>3. ASSUME NEW v \in Workers PROVE HandAgrees(v)'
  <2>1. \A r : Stored(r)' <=> Stored(r)
    BY <1>1 DEF Stored
  <2>2. CASE v = w
    <3>1. workerPc'[w] = step
      BY <1>1
    <3> QED
      BY <1>1, <2>1, <2>2, <3>1
         DEF Custody, HandAgrees, MovesNothing, FreeSteps, DueSteps, DoneSteps, DoomedSteps
  <2>3. CASE v # w
    BY <1>1, <2>1, <2>3 DEF Custody, HandAgrees
  <2> QED
    BY <2>2, <2>3
<1> QED
  BY <1>1, <1>2, <1>3 DEF Custody, Distinct

(* The pop takes the head of the list into an empty hand. *)
LEMMA PopKeepsCustody ==
  ASSUME TypeOK, Custody, NEW w \in Workers, NEW step \in WorkerSteps,
         workerPc' = [workerPc EXCEPT ![w] = step], Pops(w, step), UNCHANGED apiPc
  PROVE  /\ Custody'
         /\ Head(queue) \in Requests /\ Queued(Head(queue)) /\ hand[w] = Nobody
         /\ \A s \in Requests : Queued(s)' <=> Queued(s) /\ s # Head(queue)
<1>0. PICK r : r = Head(queue)
  OBVIOUS
<1>1. /\ queue \in Seq(Requests) /\ queue # <<>> /\ queue' = Tail(queue)
      /\ hand \in [Workers -> Requests \cup {Nobody}] /\ hand' = [hand EXCEPT ![w] = r]
      /\ workerPc \in [Workers -> WorkerSteps] /\ table' = table
  BY <1>0 DEF Pops, TypeOK
<1>2. /\ r \in Requests /\ Occurs(r, queue) /\ Distinct(queue')
      /\ \A x : Occurs(x, queue') <=> Occurs(x, queue) /\ x # r
  BY <1>0, <1>1, TailDistinct DEF Custody
<1>3. \A s \in Requests : Queued(s)' <=> Queued(s) /\ s # r
  BY <1>2 DEF Queued, Occurs
<1>4. Queued(r) /\ Holders(r) = {} /\ ~Stored(r)
  BY <1>2 DEF Custody, OnePlace, Queued, Occurs
<1>5. hand[w] = Nobody /\ Nobody \notin Requests
  BY MatrixNames DEF Custody, HandAgrees, FreeSteps, Pops
<1>6. \A s : Stored(s)' <=> Stored(s)
  BY <1>1 DEF Stored
<1>7. ASSUME NEW s \in Requests PROVE NotYet(s)' /\ OnePlace(s)'
  <2>1. CASE s = r
    <3>1. apiPc[r] \notin Early
      BY <1>2, <1>4 DEF Custody, NotYet
    <3>2. \A v \in Workers : hand'[v] = r <=> v = w
      BY <1>1, <1>4 DEF Holders
    <3> QED
      BY <1>3, <2>1, <3>1, <3>2 DEF NotYet, OnePlace
  <2>2. CASE s # r
    <3>1. \A v \in Workers : hand'[v] = s <=> hand[v] = s
      BY <1>1, <1>5, <2>2
    <3>2. Holders(s)' = Holders(s)
      BY <3>1 DEF Holders
    <3> QED
      BY <1>3, <1>6, <3>1, <3>2 DEF Custody, NotYet, OnePlace
  <2> QED
    BY <2>1, <2>2
<1>8. ASSUME NEW v \in Workers PROVE HandAgrees(v)'
  <2>1. CASE v = w
    <3>1. hand'[w] = r /\ workerPc'[w] = step /\ step \in {"wait", "confess"}
      BY <1>1 DEF Pops
    <3> QED
      BY <1>2, <1>4, <1>6, <2>1, <3>1 DEF HandAgrees, FreeSteps, DueSteps, DoneSteps
  <2>2. CASE v # w
    BY <1>1, <1>6, <2>2 DEF Custody, HandAgrees
  <2> QED
    BY <2>1, <2>2
<1> QED
  BY <1>0, <1>2, <1>3, <1>4, <1>5, <1>7, <1>8 DEF Custody

(* The commit stores an item that was not stored. *)
LEMMA StoreKeepsCustody ==
  ASSUME TypeOK, Custody, NEW w \in Workers, NEW step \in WorkerSteps,
         workerPc' = [workerPc EXCEPT ![w] = step], Stores(w, step), UNCHANGED apiPc
  PROVE  /\ Custody'
         /\ hand[w] \in Requests /\ ~Stored(hand[w]) /\ Stored(hand[w])'
         /\ \A s \in Requests : s # hand[w] => (Stored(s)' <=> Stored(s))
<1>0. PICK r : r = hand[w]
  OBVIOUS
<1>1. /\ UNCHANGED <<queue, hand>> /\ table' = [table EXCEPT ![r] = @ + 1]
      /\ workerPc \in [Workers -> WorkerSteps] /\ table \in [Requests -> Nat]
      /\ workerPc[w] = "commit"
  BY <1>0 DEF Stores, TypeOK
<1>2. r \in Requests /\ ~Stored(r)
  BY <1>0, <1>1 DEF Custody, HandAgrees, DueSteps
<1>3. /\ Stored(r)'
      /\ \A s \in Requests : s # r => (Stored(s)' <=> Stored(s))
  BY <1>1, <1>2 DEF Stored
<1>4. \A s \in Requests : /\ Queued(s)' <=> Queued(s)
                          /\ Holders(s)' = Holders(s)
  BY <1>1 DEF Queued, Holders
<1>5. w \in Holders(r)
  BY <1>0 DEF Holders
<1>6. ASSUME NEW s \in Requests PROVE NotYet(s)' /\ OnePlace(s)'
  <2>1. CASE s = r
    <3>1. ~Queued(r) /\ apiPc[r] \notin Early
      BY <1>2, <1>5 DEF Custody, NotYet, OnePlace
    <3> QED
      BY <1>1, <1>2, <1>4, <2>1, <3>1 DEF Custody, NotYet, OnePlace
  <2>2. CASE s # r
    BY <1>1, <1>3, <1>4, <2>2 DEF Custody, NotYet, OnePlace
  <2> QED
    BY <2>1, <2>2
<1>7. ASSUME NEW v \in Workers PROVE HandAgrees(v)'
  <2>1. CASE v = w
    <3>1. hand'[w] = r /\ workerPc'[w] = step /\ step \in {"complete", "fail"}
      BY <1>0, <1>1 DEF Stores
    <3> QED
      BY <1>2, <1>3, <2>1, <3>1 DEF HandAgrees, FreeSteps, DueSteps, DoneSteps
  <2>2. CASE v # w
    <3>1. workerPc'[v] = workerPc[v] /\ hand'[v] = hand[v]
      BY <1>1, <2>2
    <3>2. hand[v] \in Requests => hand[v] # r
      BY <1>0, <1>2, <2>2 DEF Custody, OnePlace
    <3> QED
      BY <1>3, <3>1, <3>2 DEF Custody, HandAgrees
  <2> QED
    BY <2>1, <2>2
<1> QED
  BY <1>0, <1>1, <1>2, <1>3, <1>6, <1>7 DEF Custody, Distinct

(* The end of the loop lets go of a stored item. *)
LEMMA LetGoKeepsCustody ==
  ASSUME TypeOK, Custody, NEW w \in Workers, NEW step \in WorkerSteps,
         workerPc' = [workerPc EXCEPT ![w] = step], LetsGo(w, step), UNCHANGED apiPc
  PROVE  Custody' /\ Stored(hand[w])
<1>1. /\ UNCHANGED <<queue, table>> /\ hand' = [hand EXCEPT ![w] = Nobody]
      /\ workerPc \in [Workers -> WorkerSteps]
      /\ hand \in [Workers -> Requests \cup {Nobody}]
      /\ workerPc[w] = "count" /\ step = "check"
  BY DEF LetsGo, TypeOK
<1>2. Stored(hand[w]) /\ hand[w] \in Requests /\ Nobody \notin Requests
  BY <1>1, MatrixNames DEF Custody, HandAgrees, DoneSteps
<1>3. \A s \in Requests : /\ Queued(s)' <=> Queued(s)
                          /\ Stored(s)' <=> Stored(s)
                          /\ \A v \in Workers : hand'[v] = s => hand[v] = s
                          /\ Holders(s)' \subseteq Holders(s)
  BY <1>1, <1>2 DEF Queued, Stored, Holders
<1>4. \A s \in Requests : NotYet(s)' /\ OnePlace(s)'
  BY <1>3 DEF Custody, NotYet, OnePlace
<1>5. ASSUME NEW v \in Workers PROVE HandAgrees(v)'
  <2>1. CASE v = w
    <3>1. hand'[w] = Nobody /\ workerPc'[w] = "check"
      BY <1>1
    <3> QED
      BY <2>1, <3>1 DEF HandAgrees, FreeSteps, DueSteps, DoneSteps
  <2>2. CASE v # w
    BY <1>1, <1>3, <2>2 DEF Custody, HandAgrees
  <2> QED
    BY <2>1, <2>2
<1> QED
  BY <1>1, <1>2, <1>4, <1>5 DEF Custody, Distinct

(* What a step of a handler does to its item: nothing, or the push. *)
Pushes(r) ==
  /\ apiPc[r] = "push" /\ apiPc' = [apiPc EXCEPT ![r] = "emit"]
  /\ queue' = Append(queue, r)

LEMMA HandlerKinds ==
  ASSUME TypeOK, NEW r \in Requests, Send(r) \/ Handler(r)
  PROVE  /\ UNCHANGED <<hand, table, workerPc>>
         /\ \A s \in Requests : s # r => apiPc'[s] = apiPc[s] /\ status'[s] = status[s]
         /\ \A s \in Requests : apiPc'[s] \in Early => apiPc[s] \in Early
         /\ queue' = queue \/ Pushes(r)
<1> USE DEF listVars, database, workerVars, apiVars, reports, ApiGoto, Fails, MayApply, Early,
            Statuses, Advance
<1>1. apiPc \in [Requests -> ApiSteps] /\ status \in [Requests -> Statuses]
  BY StatusType DEF TypeOK
<1>2. CASE Send(r) \/ Gate(r)
  BY <1>1, <1>2 DEF Send, Gate
<1>3. CASE Push(r)
  <2>1. queue' = queue \/ queue' = Append(queue, r)
    BY <1>3 DEF Push
  <2>2. /\ apiPc[r] = "push" /\ apiPc' = [apiPc EXCEPT ![r] = "emit"]
        /\ status' = status \/ status' = [status EXCEPT ![r] = 500]
        /\ UNCHANGED <<hand, table, workerPc>>
    BY <1>3 DEF Push
  <2> QED
    BY <1>1, <2>1, <2>2 DEF Pushes
<1>4. CASE Emit(r) \/ ExcuseEmit(r) \/ Count(r) \/ Reply(r)
  BY <1>1, <1>4 DEF Emit, ExcuseEmit, Count, Reply, CountEmitError
<1> QED
  BY <1>2, <1>3, <1>4 DEF Handler

(* The push brings an item in that was nowhere. *)
LEMMA PushKeepsCustody ==
  ASSUME TypeOK, Custody, NEW r \in Requests, Pushes(r), UNCHANGED <<hand, table, workerPc>>
  PROVE  /\ Custody'
         /\ ~Queued(r) /\ Holders(r) = {} /\ ~Stored(r)
         /\ \A s \in Requests : Queued(s)' <=> Queued(s) \/ s = r
<1>1. /\ queue \in Seq(Requests) /\ queue' = Append(queue, r)
      /\ apiPc \in [Requests -> ApiSteps] /\ apiPc[r] = "push"
      /\ apiPc' = [apiPc EXCEPT ![r] = "emit"]
  BY DEF Pushes, TypeOK
<1>2. ~Queued(r) /\ Holders(r) = {} /\ ~Stored(r)
  BY <1>1 DEF Custody, NotYet, Early
<1>3. Distinct(queue') /\ \A x : Occurs(x, queue') <=> Occurs(x, queue) \/ x = r
  BY <1>1, <1>2, AppendDistinct DEF Custody, Queued, Occurs
<1>4. \A s \in Requests : /\ Queued(s)' <=> Queued(s) \/ s = r
                          /\ Holders(s)' = Holders(s)
                          /\ Stored(s)' <=> Stored(s)
  BY <1>3 DEF Queued, Occurs, Holders, Stored
<1>5. \A s \in Requests : apiPc'[s] \in Early => apiPc[s] \in Early /\ s # r
  BY <1>1 DEF Early
<1>6. \A s \in Requests : NotYet(s)' /\ OnePlace(s)'
  BY <1>2, <1>4, <1>5 DEF Custody, NotYet, OnePlace
<1>7. \A w \in Workers : HandAgrees(w)'
  BY DEF Custody, HandAgrees, Stored
<1> QED
  BY <1>2, <1>3, <1>4, <1>6, <1>7 DEF Custody

(* A step of a handler that leaves the list alone keeps custody. *)
LEMMA HandlerKeepsCustody ==
  ASSUME TypeOK, Custody, NEW r \in Requests, Send(r) \/ Handler(r)
  PROVE  Custody'
<1>1. CASE Pushes(r)
  BY <1>1, PushKeepsCustody, HandlerKinds
<1>2. CASE queue' = queue
  <2>1. /\ UNCHANGED <<queue, hand, table, workerPc>>
        /\ \A s \in Requests : apiPc'[s] \in Early => apiPc[s] \in Early
    BY <1>2, HandlerKinds
  <2>2. \A s \in Requests : NotYet(s)' /\ OnePlace(s)'
    BY <2>1 DEF Custody, NotYet, OnePlace, Queued, Holders, Stored
  <2>3. \A w \in Workers : HandAgrees(w)'
    BY <2>1 DEF Custody, HandAgrees, Stored
  <2> QED
    BY <2>1, <2>2, <2>3 DEF Custody, Distinct
<1> QED
  BY <1>1, <1>2, HandlerKinds

(* Custody holds in every reachable state: a request is in the list once, or *)
(* in one hand, or stored, and not before its handler pushes it.             *)
LEMMA InitCustody ==
  ASSUME Init
  PROVE  Custody
<1>1. queue = <<>> /\ Nobody \notin Requests
  BY MatrixNames DEF Init
<1>2. \A r \in Requests : ~Queued(r) /\ Holders(r) = {} /\ ~Stored(r)
  BY <1>1 DEF Init, Queued, Holders, Stored
<1>3. \A r \in Requests : NotYet(r) /\ OnePlace(r)
  BY <1>1, <1>2 DEF Init, NotYet, OnePlace
<1>4. \A w \in Workers : HandAgrees(w)
  BY DEF Init, HandAgrees, DueSteps, DoneSteps
<1> QED
  BY <1>1, <1>3, <1>4 DEF Custody, Distinct

LEMMA NextKeepsCustody ==
  ASSUME TypeOK, Custody, [Next]_vars
  PROVE  Custody'
<1>1. CASE \E r \in Requests : Send(r) \/ Handler(r)
  BY <1>1, HandlerKeepsCustody
<1>2. CASE \E w \in Workers : Work(w)
  BY <1>2, WorkKinds, NothingKeepsCustody, PopKeepsCustody, StoreKeepsCustody,
     LetGoKeepsCustody
<1>3. CASE Inject \/ Withdraw \/ UNCHANGED vars
  <2>1. UNCHANGED <<queue, hand, table, workerPc, apiPc>>
    BY <1>3 DEF Inject, Withdraw, vars, listVars, database, apiVars, workerVars
  <2> QED
    BY <2>1 DEF Custody, Distinct, NotYet, OnePlace, HandAgrees, Queued, Holders, Stored
<1> QED
  BY <1>1, <1>2, <1>3 DEF Next

LEMMA CustodyHolds == Spec => [](TypeOK /\ HandsAreFull /\ Custody)
<1>1. Init => Custody
  BY InitCustody
<1>2. TypeOK /\ Custody /\ [Next]_vars => Custody'
  BY NextKeepsCustody
<1> QED
  BY <1>1, <1>2, Inductive, PTL DEF Spec

-----------------------------------------------------------------------------
(* Refinement *)

(* Item r alone moves. *)
Moves(r, from, to) ==
  /\ Place(r) \in from
  /\ Place(r)' = to
  /\ \A s \in Requests : s # r => Place(s)' = Place(s)

StaysPut == \A s \in Requests : Place(s)' = Place(s)

MovesForward ==
  \/ StaysPut
  \/ \E r \in Requests :
       Moves(r, {"queued"}, "held") \/ Moves(r, {"held"}, "stored")
         \/ Moves(r, {"queued", "held"}, "lost")

(* A worker is doomed by the step it is at. *)
LEMMA DoomedByStep == \A w \in Workers : w \in Doomed <=> workerPc[w] \in DoomedSteps
BY DEF Doomed, DoomedSteps

(* The place of an item that one worker holds is read off that worker. *)
LEMMA PlaceOfHeld ==
  ASSUME Custody, NEW w \in Workers, NEW r \in Requests, hand[w] = r
  PROVE  Place(r) = IF Stored(r) THEN "stored"
                    ELSE IF workerPc[w] \in DoomedSteps THEN "lost" ELSE "held"
<1>1. Holders(r) = {w} /\ ~Queued(r)
  BY DEF Custody, OnePlace, Holders
<1> QED
  BY <1>1, DoomedByStep DEF Place

(* An item whose entry, row and holders are untouched stays where it is. *)
LEMMA SamePlace ==
  ASSUME NEW r \in Requests,
         Queued(r)' <=> Queued(r), Stored(r)' <=> Stored(r),
         \A v \in Workers : hand'[v] = r <=> hand[v] = r,
         \A v \in Workers : hand[v] = r =>
           (workerPc'[v] \in DoomedSteps <=> workerPc[v] \in DoomedSteps)
  PROVE  Place(r)' = Place(r)
<1>1. Holders(r)' = Holders(r)
  BY DEF Holders
<1>2. Holders(r)' \ Doomed' = Holders(r) \ Doomed
  BY <1>1 DEF Holders, Doomed, DoomedSteps
<1> QED
  BY <1>1, <1>2 DEF Place

(* Every step of a worker moves at most the item in its hand, forward. *)
LEMMA WorkMovesForward ==
  ASSUME TypeOK, Custody, NEW w \in Workers, Work(w)
  PROVE  MovesForward /\ UNCHANGED <<apiPc, status>>
<1>0. UNCHANGED <<apiPc, status>>
  BY WorkKinds
<1> SUFFICES MovesForward
  BY <1>0
<1>1. PICK step \in WorkerSteps :
        /\ workerPc' = [workerPc EXCEPT ![w] = step]
        /\ MovesNothing(w, step) \/ Pops(w, step) \/ Stores(w, step) \/ LetsGo(w, step)
  BY WorkKinds
<1>2. /\ workerPc \in [Workers -> WorkerSteps]
      /\ hand \in [Workers -> Requests \cup {Nobody}] /\ Nobody \notin Requests
      /\ workerPc'[w] = step /\ \A v \in Workers : v # w => workerPc'[v] = workerPc[v]
  BY <1>1, MatrixNames DEF TypeOK
<1>3. CASE MovesNothing(w, step)
  <2>1. /\ UNCHANGED <<queue, hand, table>>
        /\ \A s \in Requests : (Queued(s)' <=> Queued(s)) /\ (Stored(s)' <=> Stored(s))
    BY <1>3 DEF MovesNothing, Queued, Stored
  <2>2. Custody'
    BY <1>0, <1>1, <1>3, NothingKeepsCustody
  <2>3. \A s \in Requests : s # hand[w] => Place(s)' = Place(s)
    BY <1>2, <2>1, SamePlace
  <2>4. CASE hand[w] \notin Requests
    BY <2>3, <2>4 DEF MovesForward, StaysPut
  <2>5. CASE hand[w] \in Requests /\ (step \in DoomedSteps <=> workerPc[w] \in DoomedSteps)
    <3>1. \A s \in Requests : Place(s)' = Place(s)
      BY <1>2, <2>1, <2>5, SamePlace
    <3> QED
      BY <3>1 DEF MovesForward, StaysPut
  <2>6. CASE /\ hand[w] \in Requests
             /\ ~(step \in DoomedSteps <=> workerPc[w] \in DoomedSteps)
    <3>1. workerPc[w] \in DueSteps /\ workerPc[w] \notin DoomedSteps /\ step \in DoomedSteps
      <4>1. workerPc[w] \notin FreeSteps
        BY <1>2, <2>6 DEF Custody, HandAgrees
      <4> QED
        BY <1>3, <2>6, <4>1 DEF MovesNothing, FreeSteps, DueSteps, DoneSteps, DoomedSteps
    <3>2. ~Stored(hand[w])
      BY <3>1 DEF Custody, HandAgrees
    <3>3. Place(hand[w]) = "held"
      BY <2>6, <3>1, <3>2, PlaceOfHeld
    <3>4. PICK r \in Requests : r = hand[w]
      BY <2>6
    <3>5. hand'[w] = r /\ ~Stored(r)' /\ workerPc'[w] \in DoomedSteps
      BY <1>2, <2>1, <3>1, <3>2, <3>4
    <3>6. Place(r)' = "lost"
      <4>1. Holders(r)' = {w} /\ ~Queued(r)'
        BY <2>2, <3>5 DEF Custody, OnePlace, Holders
      <4>2. w \in Doomed'
        BY <3>5 DEF Doomed, DoomedSteps
      <4> QED
        BY <3>5, <4>1, <4>2 DEF Place
    <3> QED
      BY <2>3, <3>3, <3>4, <3>6 DEF MovesForward, Moves
  <2> QED
    BY <2>4, <2>5, <2>6
<1>4. CASE Pops(w, step)
  <2>0. PICK r : r = Head(queue)
    OBVIOUS
  <2>1. /\ Custody' /\ r \in Requests /\ Queued(r) /\ hand[w] = Nobody
        /\ \A s \in Requests : Queued(s)' <=> Queued(s) /\ s # r
    BY <1>0, <1>1, <1>4, <2>0, PopKeepsCustody
  <2>2. /\ hand' = [hand EXCEPT ![w] = r] /\ step \in {"wait", "confess"}
        /\ \A s : Stored(s)' <=> Stored(s)
    BY <1>4, <2>0 DEF Pops, Stored
  <2>3. Place(r) = "queued" /\ ~Stored(r)
    BY <2>1 DEF Place, Custody, OnePlace
  <2>4. Place(r)' = IF step = "wait" THEN "held" ELSE "lost"
    <3>1. Holders(r)' = {w} /\ ~Queued(r)' /\ ~Stored(r)'
      <4>1. hand'[w] = r
        BY <1>2, <2>2
      <4> QED
        BY <2>1, <2>2, <2>3, <4>1 DEF Custody, OnePlace, Holders
    <3>2. w \in Doomed' <=> step = "confess"
      BY <1>2, <2>2 DEF Doomed
    <3> QED
      BY <2>2, <3>1, <3>2 DEF Place
  <2>5. ASSUME NEW s \in Requests, s # r PROVE Place(s)' = Place(s)
    <3>1. \A v \in Workers : hand'[v] = s <=> hand[v] = s
      BY <1>2, <2>1, <2>2, <2>5
    <3>2. \A v \in Workers : hand[v] = s => workerPc'[v] = workerPc[v]
      BY <1>2, <2>1
    <3> QED
      BY <2>1, <2>2, <2>5, <3>1, <3>2, SamePlace
  <2> QED
    BY <2>1, <2>2, <2>3, <2>4, <2>5 DEF MovesForward, Moves
<1>5. CASE Stores(w, step)
  <2>1. /\ Custody' /\ hand[w] \in Requests /\ ~Stored(hand[w]) /\ Stored(hand[w])'
        /\ \A s \in Requests : s # hand[w] => (Stored(s)' <=> Stored(s))
    BY <1>0, <1>1, <1>5, StoreKeepsCustody
  <2>2. UNCHANGED <<queue, hand>> /\ workerPc[w] \notin DoomedSteps
    BY <1>5 DEF Stores, DoomedSteps
  <2>3. PICK r \in Requests : r = hand[w] /\ ~Stored(r) /\ Stored(r)'
    BY <2>1, <2>2 DEF Stored
  <2>4. Place(r) = "held" /\ Place(r)' = "stored"
    BY <2>2, <2>3, PlaceOfHeld DEF Place
  <2>5. ASSUME NEW s \in Requests, s # r PROVE Place(s)' = Place(s)
    <3>1. Queued(s)' <=> Queued(s)
      BY <2>2 DEF Queued
    <3>2. \A v \in Workers : hand[v] = s => workerPc'[v] = workerPc[v]
      BY <1>2, <2>3, <2>5
    <3> QED
      BY <2>1, <2>2, <2>3, <2>5, <3>1, <3>2, SamePlace
  <2> QED
    BY <2>4, <2>5 DEF MovesForward, Moves
<1>6. CASE LetsGo(w, step)
  <2>1. /\ Stored(hand[w]) /\ UNCHANGED <<queue, table>>
        /\ hand' = [hand EXCEPT ![w] = Nobody]
    BY <1>0, <1>1, <1>6, LetGoKeepsCustody DEF LetsGo
  <2>2. \A s \in Requests : (Queued(s)' <=> Queued(s)) /\ (Stored(s)' <=> Stored(s))
    BY <2>1 DEF Queued, Stored
  <2>3. ASSUME NEW s \in Requests PROVE Place(s)' = Place(s)
    <3>1. CASE s = hand[w]
      BY <2>1, <2>2, <3>1 DEF Place
    <3>2. CASE s # hand[w]
      <4>1. \A v \in Workers : hand'[v] = s <=> hand[v] = s
        BY <1>2, <2>1, <3>2
      <4>2. \A v \in Workers : hand[v] = s => workerPc'[v] = workerPc[v]
        BY <1>2, <3>2
      <4> QED
        BY <2>2, <4>1, <4>2, SamePlace
    <3> QED
      BY <3>1, <3>2
  <2> QED
    BY <2>3 DEF MovesForward, StaysPut
<1> QED
  BY <1>0, <1>1, <1>3, <1>4, <1>5, <1>6

(* A handler moves only its own item, when it pushes it. *)
LEMMA HandlerMoves ==
  ASSUME TypeOK, Custody, NEW r \in Requests, Send(r) \/ Handler(r)
  PROVE  \/ StaysPut /\ queue' = queue
         \/ Moves(r, {"outside"}, "queued") /\ Pushes(r)
<1>0. UNCHANGED <<hand, table, workerPc>>
  BY HandlerKinds
<1>1. \A s \in Requests : Stored(s)' <=> Stored(s)
  BY <1>0 DEF Stored
<1>2. CASE queue' = queue
  <2>1. \A s \in Requests : Queued(s)' <=> Queued(s)
    BY <1>2 DEF Queued
  <2> QED
    BY <1>0, <1>1, <1>2, <2>1, SamePlace DEF StaysPut
<1>3. CASE Pushes(r)
  <2>1. /\ ~Queued(r) /\ Holders(r) = {} /\ ~Stored(r)
        /\ \A s \in Requests : Queued(s)' <=> Queued(s) \/ s = r
    BY <1>0, <1>3, PushKeepsCustody
  <2>2. \A s \in Requests : s # r => Place(s)' = Place(s)
    BY <1>0, <1>1, <2>1, SamePlace
  <2>3. Place(r) = "outside" /\ Place(r)' = "queued"
    BY <1>1, <2>1 DEF Place
  <2> QED
    BY <1>3, <2>2, <2>3 DEF Moves
<1> QED
  BY <1>2, <1>3, HandlerKinds

(* The HTTP status a handler thread carries agrees with where its item is. *)
StatusAgrees(r) ==
  /\ apiPc[r] \in Early => status[r] = 202
  /\ apiPc[r] \notin Early => /\ status[r] = 202 => Place(r) # "outside"
                              /\ status[r] = 503 => Place(r) = "outside"

Agreement == \A r \in Requests : StatusAgrees(r)

(* A handler keeps its status in agreement: it turns to an error before it *)
(* pushes, or when the call that pushes breaks.                            *)
LEMMA HandlerKeepsStatus ==
  ASSUME TypeOK, Custody, NEW r \in Requests, StatusAgrees(r), Send(r) \/ Handler(r)
  PROVE  StatusAgrees(r)'
<1>1. /\ apiPc \in [Requests -> ApiSteps] /\ status \in [Requests -> Statuses]
      /\ queue \in Seq(Requests)
  BY StatusType DEF TypeOK
<1>2. ~Pushes(r) => Place(r)' = Place(r)
  BY HandlerMoves DEF StaysPut
<1>3. apiPc[r] \in Early => Place(r) = "outside"
  BY DEF Custody, NotYet, Place
<1> USE DEF ApiGoto, Fails, StatusAgrees, Early, apiVars
<1>4. CASE Push(r)
  <2>1. apiPc[r] = "push" /\ apiPc'[r] = "emit" /\ status[r] = 202
    BY <1>1, <1>4 DEF Push
  <2>2. \/ status'[r] = 500
        \/ status'[r] = 202 /\ queue' = Append(queue, r)
    <3>1. status' = status \/ status' = [status EXCEPT ![r] = 500]
      BY <1>4 DEF Push
    <3>2. status' = status => queue' = Append(queue, r) \/ status'[r] = 500
      BY <1>1, <1>4 DEF Push, Advance
    <3> QED
      BY <1>1, <2>1, <3>1, <3>2
  <2>3. queue' = Append(queue, r) => Place(r)' # "outside"
    <3>1. SUFFICES ASSUME queue' = Append(queue, r) PROVE Queued(r)'
      BY DEF Place
    <3>2. Len(queue') \in 1 .. Len(queue') /\ queue'[Len(queue')] = r
      BY <1>1, <3>1
    <3> QED
      BY <3>2 DEF Queued
  <2> QED
    BY <2>1, <2>2, <2>3
<1>5. CASE Gate(r)
  <2>1. /\ apiPc[r] = "gate" /\ status[r] = 202 /\ Place(r)' = "outside"
        /\ \/ apiPc'[r] = "push" /\ status'[r] = 202
           \/ apiPc'[r] = "emit" /\ status'[r] \in {500, 503}
    BY <1>1, <1>2, <1>3, <1>5 DEF Gate, Pushes
  <2> QED
    BY <2>1
<1>6. CASE Send(r)
  BY <1>1, <1>2, <1>6 DEF Send, Pushes
<1>7. CASE Emit(r) \/ ExcuseEmit(r) \/ Count(r) \/ Reply(r)
  <2>1. /\ apiPc[r] \notin Early /\ apiPc'[r] \notin Early /\ UNCHANGED status
        /\ Place(r)' = Place(r)
    BY <1>1, <1>2, <1>7 DEF Emit, ExcuseEmit, Count, Reply, Pushes
  <2> QED
    BY <2>1
<1> QED
  BY <1>4, <1>5, <1>6, <1>7 DEF Handler

(* A step that leaves the threads of the API alone and moves items forward *)
(* keeps all answers true.                                                 *)
LEMMA OthersStayPut ==
  ASSUME Inject \/ Withdraw \/ UNCHANGED vars
  PROVE  StaysPut /\ UNCHANGED <<apiPc, status>>
<1>1. UNCHANGED <<queue, hand, table, workerPc, apiPc, status>>
  BY DEF Inject, Withdraw, vars, listVars, database, apiVars, workerVars
<1>2. \A s \in Requests : (Queued(s)' <=> Queued(s)) /\ (Stored(s)' <=> Stored(s))
  BY <1>1 DEF Queued, Stored
<1> QED
  BY <1>1, <1>2, SamePlace DEF StaysPut

(* Every step keeps the agreement of all handlers.                         *)
LEMMA InitAgreement == Init => Agreement
BY DEF Init, Agreement, StatusAgrees, Early

LEMMA NextKeepsAgreement ==
  ASSUME TypeOK, Custody, Agreement, [Next]_vars
  PROVE  Agreement'
<1> SUFFICES ASSUME NEW s \in Requests PROVE StatusAgrees(s)'
  BY DEF Agreement
<1>1. ASSUME apiPc'[s] = apiPc[s], status'[s] = status[s],
             Place(s)' = "outside" <=> Place(s) = "outside"
      PROVE  StatusAgrees(s)'
  BY <1>1 DEF Agreement, StatusAgrees
<1>2. ASSUME NEW r \in Requests, Send(r) \/ Handler(r)
      PROVE  StatusAgrees(s)'
  <2>1. CASE s = r
    BY <1>2, <2>1, HandlerKeepsStatus DEF Agreement
  <2>2. CASE s # r
    <3>1. Place(s)' = Place(s)
      BY <1>2, <2>2, HandlerMoves DEF StaysPut, Moves
    <3>2. apiPc'[s] = apiPc[s] /\ status'[s] = status[s]
      BY <1>2, <2>2, HandlerKinds
    <3> QED
      BY <1>1, <3>1, <3>2
  <2> QED
    BY <2>1, <2>2
<1>3. ASSUME NEW w \in Workers, Work(w)
      PROVE  StatusAgrees(s)'
  <2>1. MovesForward /\ UNCHANGED <<apiPc, status>>
    BY <1>3, WorkMovesForward
  <2>2. Place(s)' = "outside" <=> Place(s) = "outside"
    BY <2>1 DEF MovesForward, StaysPut, Moves
  <2> QED
    BY <1>1, <2>1, <2>2
<1>4. CASE Inject \/ Withdraw \/ UNCHANGED vars
  BY <1>1, <1>4, OthersStayPut DEF StaysPut
<1> QED
  BY <1>2, <1>3, <1>4 DEF Next

LEMMA AgreementHolds == Spec => [](TypeOK /\ Custody /\ Agreement)
<1>1. Init => Agreement
  BY InitAgreement
<1>2. TypeOK /\ Custody /\ Agreement /\ [Next]_vars => Agreement'
  BY NextKeepsAgreement
<1> QED
  BY <1>1, <1>2, CustodyHolds, PTL DEF Spec

(* No item is written twice. *)
WrittenOnce == \A r \in Requests : table[r] <= 1

(* A commit finds no row of its item. *)
LEMMA NextWritesOnce ==
  ASSUME TypeOK, Custody, WrittenOnce, [Next]_vars
  PROVE  WrittenOnce'
<1>1. CASE table' = table
  BY <1>1 DEF WrittenOnce
<1>2. ASSUME NEW w \in Workers, Work(w) PROVE WrittenOnce'
  <2>1. CASE \E step : Stores(w, step)
    <3>1. /\ workerPc[w] \in DueSteps
          /\ table' = [table EXCEPT ![hand[w]] = table[hand[w]] + 1]
      BY <2>1 DEF Stores, DueSteps
    <3>2. hand[w] \in Requests /\ ~Stored(hand[w])
      BY <3>1 DEF Custody, HandAgrees
    <3>3. table \in [Requests -> Nat] /\ table[hand[w]] = 0
      BY <3>2 DEF TypeOK, Stored
    <3> QED
      BY <3>1, <3>2, <3>3 DEF WrittenOnce
  <2>2. CASE table' = table
    BY <1>1, <2>2
  <2> QED
    BY <1>2, <2>1, <2>2, WorkKinds DEF MovesNothing, Pops, LetsGo
<1>3. CASE (\E r \in Requests : Send(r) \/ Handler(r)) \/ Inject \/ Withdraw
           \/ UNCHANGED vars
  BY <1>1, <1>3, HandlerKinds DEF Inject, Withdraw, vars, database
<1> QED
  BY <1>2, <1>3 DEF Next

LEMMA WrittenOnceHolds == Spec => []WrittenOnce
<1>1. Init => WrittenOnce
  BY DEF Init, WrittenOnce
<1>2. TypeOK /\ Custody /\ WrittenOnce /\ [Next]_vars => WrittenOnce'
  BY NextWritesOnce
<1> QED
  BY <1>1, <1>2, CustodyHolds, PTL DEF Spec

(* Before and after a step the promise sees every item where it is. *)
SeenInPlace ==
  \A r \in Requests : PlaceSeen(r) = Place(r) /\ PlaceSeen(r)' = Place(r)'

LEMMA ItemsAreSeen ==
  ASSUME TypeOK, TypeOK', WrittenOnce, WrittenOnce'
  PROVE  SeenInPlace
<1>1. \A r \in Requests : ~(table[r] > 1) /\ ~(table'[r] > 1)
  BY DEF TypeOK, WrittenOnce
<1> QED
  BY <1>1 DEF SeenInPlace, PlaceSeen

(* An item that moves while nobody is answered moves in the promise. *)
LEMMA MovesArePromised ==
  ASSUME SeenInPlace, NEW r \in Requests, NEW from, NEW to, Moves(r, from, to),
         \A s \in Requests : AnswerOf(s)' = AnswerOf(s)
  PROVE  Promise!Move(r, from, to)
BY DEF Moves, Promise!Move, SeenInPlace

(* What a handler does to its item and what it answers the promise allows. *)
LEMMA HandlerIsPromised ==
  ASSUME TypeOK, Custody, Agreement, SeenInPlace, NEW r \in Requests,
         Send(r) \/ Handler(r)
  PROVE  [Promise!Next]_Promise!vars
<1>1. apiPc \in [Requests -> ApiSteps] /\ status \in [Requests -> Statuses]
  BY StatusType DEF TypeOK
<1>2. AnswerOf(r) = "none"
  BY DEF Send, Handler, Gate, Push, Emit, ExcuseEmit, Count, Reply, AnswerOf
<1>3. \A s \in Requests : s # r => AnswerOf(s)' = AnswerOf(s)
  BY HandlerKinds DEF AnswerOf
<1>4. CASE apiPc'[r] # "answered"
  <2>1. \A s \in Requests : AnswerOf(s)' = AnswerOf(s)
    <3>1. AnswerOf(r)' = "none"
      BY <1>4 DEF AnswerOf
    <3> QED
      BY <1>2, <1>3, <3>1
  <2>2. CASE Moves(r, {"outside"}, "queued")
    BY <1>2, <2>1, <2>2, MovesArePromised DEF Promise!Next, Promise!Enqueue
  <2>3. CASE StaysPut
    BY <2>1, <2>3 DEF StaysPut, SeenInPlace, Promise!vars
  <2> QED
    BY <2>2, <2>3, HandlerMoves
<1>5. CASE apiPc'[r] = "answered"
  <2>1. UNCHANGED status /\ apiPc[r] = "reply"
    BY <1>1, <1>5 DEF Send, Handler, Gate, Push, Emit, ExcuseEmit, Count, Reply, ApiGoto,
                      apiVars
  <2>2. StaysPut
    BY <2>1, HandlerMoves DEF Pushes
  <2>3. /\ status[r] \in {202, 500, 503}
        /\ status[r] = 202 => Place(r) # "outside"
        /\ status[r] = 503 => Place(r) = "outside"
    BY <1>1, <2>1 DEF Agreement, StatusAgrees, Early, Statuses
  <2>4. AnswerOf(r)' = IF status[r] = 202 THEN "accepted"
                       ELSE IF status[r] = 503 THEN "rejected" ELSE "failed"
    BY <1>5, <2>1 DEF AnswerOf
  <2>5. \/ AnswerOf(r)' = "accepted" /\ Place(r) # "outside"
        \/ AnswerOf(r)' = "rejected" /\ Place(r) = "outside"
        \/ AnswerOf(r)' = "failed"
    BY <2>3, <2>4
  <2> QED
    BY <1>2, <1>3, <2>2, <2>5 DEF StaysPut, SeenInPlace, Promise!Next, Promise!Accept,
                                  Promise!Reject, Promise!Fail
<1> QED
  BY <1>4, <1>5

(* The application of the fault matrix keeps the promise that the one of the *)
(* action lab keeps, with its scripts in place of single commands and        *)
(* whatever calls fail, workers crash or controls are set: an item is stored *)
(* at most once, moves only forward, is lost only with the worker that had   *)
(* it, and no client is told an untruth about it (do_POST and run_worker).   *)
THEOREM MatrixKeepsThePromise == Spec => ImplementsPromise
<1>1. Init => Promise!Init
  <2> SUFFICES ASSUME Init, NEW r \in Requests
               PROVE  PlaceSeen(r) = "outside" /\ AnswerOf(r) = "none"
    BY DEF Promise!Init
  <2> QED
    BY MatrixNames DEF Init, PlaceSeen, Place, Stored, Queued, Holders, AnswerOf
<1>2. TypeOK /\ TypeOK' /\ Custody /\ Agreement /\ WrittenOnce /\ [Next]_vars
        => [Promise!Next]_Promise!vars
  <2> SUFFICES ASSUME TypeOK, TypeOK', Custody, Agreement, WrittenOnce, [Next]_vars
               PROVE  [Promise!Next]_Promise!vars
    OBVIOUS
  <2>0. SeenInPlace
    BY NextWritesOnce, ItemsAreSeen
  <2>1. ASSUME StaysPut, UNCHANGED <<apiPc, status>> PROVE UNCHANGED Promise!vars
    BY <2>0, <2>1 DEF StaysPut, SeenInPlace, AnswerOf, Promise!vars
  <2>2. ASSUME NEW w \in Workers, Work(w) PROVE [Promise!Next]_Promise!vars
    <3>1. MovesForward /\ UNCHANGED <<apiPc, status>>
      BY <2>2, WorkMovesForward
    <3>2. \A s \in Requests : AnswerOf(s)' = AnswerOf(s)
      BY <3>1 DEF AnswerOf
    <3>3. ASSUME NEW r \in Requests,
                 Moves(r, {"queued"}, "held") \/ Moves(r, {"held"}, "stored")
                   \/ Moves(r, {"queued", "held"}, "lost")
          PROVE  Promise!Next
      BY <2>0, <3>2, <3>3, MovesArePromised
         DEF Promise!Next, Promise!Take, Promise!Store, Promise!Lose
    <3> QED
      BY <2>1, <3>1, <3>3 DEF MovesForward
  <2>3. CASE Inject \/ Withdraw \/ UNCHANGED vars
    BY <2>1, <2>3, OthersStayPut
  <2> QED
    BY <2>0, <2>2, <2>3, HandlerIsPromised DEF Next
<1> QED
  BY <1>1, <1>2, AgreementHolds, WrittenOnceHolds, PTL
     DEF Spec, ImplementsPromise, Promise!Spec

-----------------------------------------------------------------------------
(* The counters and the logs *)

Indicator(b) == IF b THEN 1 ELSE 0

(* Two finite sets that agree on everything but x have sizes that differ by *)
(* what x contributes.                                                      *)
LEMMA OneDiffers ==
  ASSUME NEW S, NEW T, NEW x, IsFiniteSet(S), IsFiniteSet(T),
         \A y : y # x => (y \in T <=> y \in S)
  PROVE  /\ Cardinality(S) \in Nat /\ Cardinality(T) \in Nat
         /\ Cardinality(T) = Cardinality(S) + Indicator(x \in T) - Indicator(x \in S)
<1>1. Cardinality(S) \in Nat /\ Cardinality(T) \in Nat
  BY FS_CardinalityType
<1>2. CASE x \in T /\ x \notin S
  <2>1. T = S \cup {x}
    BY <1>2
  <2> QED
    BY <1>1, <1>2, <2>1, FS_AddElement DEF Indicator
<1>3. CASE x \notin T /\ x \in S
  <2>1. T = S \ {x}
    BY <1>3
  <2> QED
    BY <1>1, <1>3, <2>1, FS_RemoveElement DEF Indicator
<1>4. CASE x \in T <=> x \in S
  <2>1. T = S
    BY <1>4
  <2> QED
    BY <1>1, <1>4, <2>1 DEF Indicator
<1> QED
  BY <1>1, <1>2, <1>3, <1>4

(* A set of requests or of workers is finite. *)
LEMMA ActorsAreFinite ==
  /\ \A S \in SUBSET Requests : IsFiniteSet(S) /\ Cardinality(S) \in Nat
  /\ \A S \in SUBSET Workers : IsFiniteSet(S) /\ Cardinality(S) \in Nat
BY MatrixActors, FS_Subset, FS_CardinalityType

Rows == {r \in Requests : Stored(r)}

(* The workers whose item is stored and not counted, and those of them that  *)
(* have reported it or counted the failure of the report.                    *)
Completing == {w \in Workers : workerPc[w] \in DoneSteps}
Counting == {w \in Workers : workerPc[w] = "count"}

(* Only stored items are reported, and none before its report. *)
LogsAgree ==
  /\ \A r \in logs.completed : Stored(r)
  /\ \A w \in Workers : workerPc[w] = "complete" => hand[w] \notin logs.completed

(* The counter trails the rows by the workers that still have to count, and  *)
(* the reports and their counted failures likewise.                          *)
RowLadder ==
  counters["worker_processed"] + Cardinality(Completing) <= Cardinality(Rows)

(* What the logs owe the counter of the workers: items counted, or about to  *)
(* be, less the reports and the failures of reports that were counted.       *)
Debt ==
  counters["worker_processed"] + Cardinality(Counting)
    - Cardinality(logs.completed) - counters["application_log_emit_errors"]

LogLadder == "emit" \notin swallowed => Debt <= 0

(* What a step does to the counters: a tally of one name, or none. *)
LEMMA TallyCounts ==
  ASSUME counters \in [CounterNames -> Nat], NEW names, Tally(names), NEW c \in CounterNames
  PROVE  counters'[c] = counters[c] + Indicator(c \in names) /\ counters[c] \in Nat
BY DEF Tally, Indicator

LEMMA ExcuseCounts ==
  ASSUME TypeOK, CountEmitError
  PROVE  /\ counters'["worker_processed"] = counters["worker_processed"]
         /\ counters["application_log_emit_errors"] <= counters'["application_log_emit_errors"]
         /\ \/ "emit" \in swallowed'
            \/ /\ swallowed' = swallowed
               /\ counters'["application_log_emit_errors"]
                    = counters["application_log_emit_errors"] + 1
         /\ counters["worker_processed"] \in Nat
         /\ counters["application_log_emit_errors"] \in Nat
         /\ counters'["application_log_emit_errors"] \in Nat
         /\ swallowed \subseteq swallowed' /\ logs' = logs
<1>1. /\ counters \in [CounterNames -> Nat]
      /\ "worker_processed" \in CounterNames
      /\ "application_log_emit_errors" \in CounterNames
  BY DEF TypeOK, CounterNames
<1>2. ASSUME Tally({"application_log_emit_errors"})
      PROVE  /\ counters'["worker_processed"] = counters["worker_processed"]
             /\ counters'["application_log_emit_errors"]
                  = counters["application_log_emit_errors"] + 1
  BY <1>1, <1>2, TallyCounts DEF Indicator
<1> QED
  BY <1>1, <1>2 DEF CountEmitError, MayApply

(* A handler counts requests, and the failures of its reports. *)
LEMMA HandlerCounts ==
  ASSUME TypeOK, NEW r \in Requests, Send(r) \/ Handler(r)
  PROVE  /\ counters'["worker_processed"] = counters["worker_processed"]
         /\ counters["application_log_emit_errors"] <= counters'["application_log_emit_errors"]
         /\ counters["worker_processed"] \in Nat
         /\ counters["application_log_emit_errors"] \in Nat
         /\ counters'["application_log_emit_errors"] \in Nat
         /\ swallowed \subseteq swallowed'
         /\ logs'.completed = logs.completed
<1> USE DEF reports
<1>1. /\ counters \in [CounterNames -> Nat] /\ logs \in LogRecords
      /\ "worker_processed" \in CounterNames
      /\ "application_log_emit_errors" \in CounterNames
  BY LogsType DEF TypeOK, CounterNames
<1>2. CASE ExcuseEmit(r)
  BY <1>2, ExcuseCounts DEF ExcuseEmit
<1>3. CASE Count(r)
  <2>1. logs' = logs /\ swallowed \subseteq swallowed'
    BY <1>3 DEF Count
  <2>2. \/ counters' = counters
        \/ Tally({"api_requests"} \cup IF status[r] # 202 THEN {"api_errors"} ELSE {})
    BY <1>3 DEF Count, MayApply
  <2>3. /\ counters'["worker_processed"] = counters["worker_processed"]
        /\ counters'["application_log_emit_errors"] = counters["application_log_emit_errors"]
    BY <1>1, <2>2, TallyCounts DEF Indicator
  <2> QED
    BY <1>1, <2>1, <2>3
<1>4. CASE Emit(r)
  <2>1. UNCHANGED <<counters, swallowed>>
    BY <1>4 DEF Emit
  <2>2. logs'.completed = logs.completed
    <3>1. \/ logs' = logs
          \/ Logged("accepted", IF status[r] = 202 THEN {r} ELSE {}, seen[r])
      BY <1>4 DEF Emit, MayApply
    <3> QED
      BY <1>1, <3>1, LoggedKeeps
  <2> QED
    BY <1>1, <2>1, <2>2
<1>5. CASE Send(r) \/ Gate(r) \/ Push(r) \/ Reply(r)
  BY <1>1, <1>5 DEF Send, Gate, Push, Reply
<1> QED
  BY <1>2, <1>3, <1>4, <1>5 DEF Handler

(* What a step of worker w does to the workers on their way: only w moves. *)
LEMMA OnTheWay ==
  ASSUME TypeOK, NEW w \in Workers, Work(w)
  PROVE  /\ Cardinality(Completing) \in Nat /\ Cardinality(Completing') \in Nat
         /\ Cardinality(Completing') = Cardinality(Completing)
              + Indicator(w \in Completing') - Indicator(w \in Completing)
         /\ Cardinality(Counting) \in Nat /\ Cardinality(Counting') \in Nat
         /\ Cardinality(Counting') = Cardinality(Counting)
              + Indicator(w \in Counting') - Indicator(w \in Counting)
<1>1. \A v \in Workers : v # w => workerPc'[v] = workerPc[v]
  BY WorkKinds DEF TypeOK
<1>2. \A y : y # w => /\ y \in Completing' <=> y \in Completing
                      /\ y \in Counting' <=> y \in Counting
  BY <1>1 DEF Completing, Counting
<1>3. /\ IsFiniteSet(Completing) /\ IsFiniteSet(Completing')
      /\ IsFiniteSet(Counting) /\ IsFiniteSet(Counting')
  BY ActorsAreFinite DEF Completing, Counting
<1> QED
  BY <1>2, <1>3, OneDiffers

(* The steps of a worker between two items and up to the commit. *)
Before(w) == CheckCrash(w) \/ Register(w) \/ Dequeue(w) \/ MeasureWait(w) \/ Lock(w)

(* They neither store, report nor count. *)
LEMMA BeforeTheCommit ==
  ASSUME TypeOK, NEW w \in Workers, Before(w)
  PROVE  /\ UNCHANGED <<table, counters, logs, swallowed>>
         /\ workerPc[w] \notin DoneSteps /\ workerPc'[w] \notin DoneSteps
<1> USE DEF database, reports, DoneSteps
<1>1. /\ UNCHANGED <<table, counters, logs, swallowed>>
      /\ workerPc[w] \in {"check", "register", "dequeue", "wait", "lock"}
  BY DEF Before, CheckCrash, Register, Dequeue, MeasureWait, Lock
<1>2. \E step \in {"exited", "register", "confess", "dequeue", "wait", "check", "idle",
                   "lock", "dead", "commit", "fail"} : WorkerGoto(w, step)
  BY DEF Before, CheckCrash, Register, Dequeue, MeasureWait, Lock
<1> QED
  BY <1>1, <1>2 DEF WorkerGoto, TypeOK

(* An emission reports at most the item it completes. *)
LEMMA EmissionReports ==
  ASSUME TypeOK, Custody, NEW w \in Workers, EmitWorker(w)
  PROVE  /\ UNCHANGED <<table, counters, swallowed, hand>>
         /\ workerPc[w] = "complete" =>
              /\ hand[w] \in Requests /\ Stored(hand[w])
              /\ \/ workerPc'[w] = "count" /\ logs'.completed = logs.completed \cup {hand[w]}
                 \/ /\ workerPc'[w] = "completeExcuse"
                    /\ logs'.completed \in {logs.completed, logs.completed \cup {hand[w]}}
         /\ workerPc[w] # "complete" =>
              logs' = logs /\ workerPc[w] \notin DoneSteps /\ workerPc'[w] \notin DoneSteps
<1>1. UNCHANGED <<table, counters, swallowed, hand>> /\ workerPc[w] \in Emissions
  BY DEF EmitWorker, database
<1>2. \/ WorkerLog(w) /\ WorkerGoto(w, After[workerPc[w]])
      \/ (WorkerLog(w) \/ UNCHANGED logs) /\ WorkerGoto(w, Excuse[workerPc[w]])
  BY DEF EmitWorker, MayApply
<1>3. workerPc \in [Workers -> WorkerSteps] /\ logs \in LogRecords
  BY LogsType DEF TypeOK
<1>4. CASE workerPc[w] = "complete"
  <2>1. hand[w] \in Requests /\ Stored(hand[w])
    BY <1>4 DEF Custody, HandAgrees, DoneSteps
  <2>2. WorkerLog(w) => logs'.completed = logs.completed \cup {hand[w]}
    BY <1>3, <1>4, LoggedKeeps DEF WorkerLog
  <2>3. After[workerPc[w]] = "count" /\ Excuse[workerPc[w]] = "completeExcuse"
    BY <1>4 DEF After, Excuse
  <2> QED
    BY <1>1, <1>2, <1>3, <1>4, <2>1, <2>2, <2>3 DEF WorkerGoto
<1>5. CASE workerPc[w] # "complete"
  <2>1. logs' = logs
    BY <1>2, <1>5 DEF WorkerLog
  <2>2. /\ workerPc[w] \notin DoneSteps /\ After[workerPc[w]] \notin DoneSteps
        /\ Excuse[workerPc[w]] \notin DoneSteps
    BY <1>1, <1>5 DEF After, Excuse, DoneSteps, Emissions
  <2> QED
    BY <1>1, <1>2, <1>3, <1>5, <2>1, <2>2 DEF WorkerGoto
<1> QED
  BY <1>4, <1>5

(* The tally of a failed report, on the way of an item or not. *)
LEMMA ExcuseOnTheWay ==
  ASSUME TypeOK, NEW w \in Workers, ExcuseWorker(w)
  PROVE  /\ CountEmitError /\ UNCHANGED <<table, hand>>
         /\ w \notin Counting /\ workerPc[w] # "complete" /\ workerPc'[w] # "complete"
         /\ w \in Completing <=> workerPc[w] = "completeExcuse"
         /\ w \in Completing' <=> workerPc[w] = "completeExcuse"
         /\ w \in Counting' <=> workerPc[w] = "completeExcuse"
<1>1. CountEmitError /\ UNCHANGED <<table, hand>> /\ workerPc[w] \in Excuses
  BY DEF ExcuseWorker, database
<1>2. workerPc'[w] = After[workerPc[w]]
  BY DEF ExcuseWorker, WorkerGoto, TypeOK
<1>3. workerPc[w] \in {"idleExcuse", "completeExcuse", "confessExcuse", "failExcuse"}
  BY <1>1 DEF Excuses, Excuse, Emissions
<1>4. /\ workerPc[w] = "completeExcuse" => After[workerPc[w]] = "count"
      /\ workerPc[w] # "completeExcuse" => After[workerPc[w]] \in {"check", "dead"}
  BY <1>3 DEF After
<1> QED
  BY <1>1, <1>2, <1>3, <1>4 DEF Counting, Completing, DoneSteps

(* The commit: a row for an item that had none, or no row and no completion. *)
LEMMA CommitStores ==
  ASSUME TypeOK, Custody, NEW w \in Workers, Commit(w)
  PROVE  /\ UNCHANGED <<counters, logs, swallowed, hand>>
         /\ hand[w] \in Requests /\ ~Stored(hand[w]) /\ w \notin Completing
         /\ w \notin Counting /\ w \notin Counting'
         /\ \/ /\ table' = [table EXCEPT ![hand[w]] = @ + 1]
            \/ UNCHANGED table /\ w \notin Completing'
<1>1. /\ workerPc[w] = "commit" /\ UNCHANGED <<counters, logs, swallowed, hand>>
      /\ workerPc' = [workerPc EXCEPT ![w] = "complete"]
           \/ workerPc' = [workerPc EXCEPT ![w] = "fail"]
      /\ \/ table' = [table EXCEPT ![hand[w]] = @ + 1]
         \/ UNCHANGED table /\ workerPc' = [workerPc EXCEPT ![w] = "fail"]
  BY DEF Commit, reports, WorkerGoto, MayApply
<1>2. hand[w] \in Requests /\ ~Stored(hand[w])
  BY <1>1 DEF Custody, HandAgrees, DueSteps
<1> QED
  BY <1>1, <1>2 DEF Counting, Completing, DoneSteps, TypeOK

(* The end of an item's loop: it is counted, or the pipeline's failure is not. *)
LEMMA CountingEnds ==
  ASSUME TypeOK, NEW w \in Workers, CountWork(w)
  PROVE  /\ UNCHANGED <<table, logs>> /\ swallowed \subseteq swallowed'
         /\ w \in Completing /\ w \in Counting /\ w \notin Completing' /\ w \notin Counting'
         /\ workerPc'[w] # "complete"
         /\ counters'["application_log_emit_errors"] = counters["application_log_emit_errors"]
         /\ counters'["worker_processed"]
              \in {counters["worker_processed"], counters["worker_processed"] + 1}
<1>1. /\ UNCHANGED <<table, logs>> /\ swallowed \subseteq swallowed'
      /\ workerPc[w] = "count" /\ WorkerGoto(w, "check")
      /\ Tally({"worker_processed"}) \/ counters' = counters
  BY DEF CountWork, database, MayApply
<1>2. /\ counters \in [CounterNames -> Nat]
      /\ "worker_processed" \in CounterNames
      /\ "application_log_emit_errors" \in CounterNames
  BY DEF TypeOK, CounterNames
<1>3. /\ counters'["application_log_emit_errors"] = counters["application_log_emit_errors"]
      /\ counters'["worker_processed"]
           \in {counters["worker_processed"], counters["worker_processed"] + 1}
  BY <1>1, <1>2, TallyCounts DEF Indicator
<1> QED
  BY <1>1, <1>3 DEF WorkerGoto, TypeOK, Counting, Completing, DoneSteps

(* The other workers keep their step and their item. *)
LEMMA OthersKeepTheirs ==
  ASSUME TypeOK, NEW w \in Workers, Work(w)
  PROVE  \A v \in Workers : v # w => workerPc'[v] = workerPc[v] /\ hand'[v] = hand[v]
<1>1. PICK step \in WorkerSteps :
        /\ workerPc' = [workerPc EXCEPT ![w] = step]
        /\ MovesNothing(w, step) \/ Pops(w, step) \/ Stores(w, step) \/ LetsGo(w, step)
  BY WorkKinds
<1>2. /\ workerPc \in [Workers -> WorkerSteps]
      /\ hand \in [Workers -> Requests \cup {Nobody}]
  BY DEF TypeOK
<1>3. hand' = hand \/ \E held : hand' = [hand EXCEPT ![w] = held]
  BY <1>1 DEF MovesNothing, Pops, Stores, LetsGo
<1> QED
  BY <1>1, <1>2, <1>3

LEMMA ReportsAgree ==
  ASSUME TypeOK, Custody, LogsAgree, NEW w \in Workers, Work(w)
  PROVE  LogsAgree'
<1>1. \A v \in Workers : v # w => workerPc'[v] = workerPc[v] /\ hand'[v] = hand[v]
  BY OthersKeepTheirs
<1>2. CASE Before(w) \/ ExcuseWorker(w) \/ CountWork(w)
  <2>1. logs' = logs /\ table' = table /\ workerPc'[w] # "complete"
    BY <1>2, BeforeTheCommit, ExcuseOnTheWay, ExcuseCounts, CountingEnds DEF DoneSteps
  <2> QED
    BY <1>1, <2>1 DEF LogsAgree, Stored
<1>3. CASE Commit(w)
  <2>1. /\ logs' = logs /\ hand' = hand /\ hand[w] \in Requests /\ ~Stored(hand[w])
        /\ table' = [table EXCEPT ![hand[w]] = @ + 1] \/ table' = table
    BY <1>3, CommitStores
  <2>2. \A r \in Requests : Stored(r) => Stored(r)'
    BY <2>1 DEF Stored, TypeOK
  <2>3. hand[w] \notin logs.completed
    BY <2>1 DEF LogsAgree
  <2>4. logs.completed \subseteq Requests
    BY DEF TypeOK
  <2> QED
    BY <1>1, <2>1, <2>2, <2>3, <2>4 DEF LogsAgree
<1>4. CASE EmitWorker(w)
  <2>1. table' = table /\ hand' = hand
    BY <1>4, EmissionReports
  <2>2. CASE workerPc[w] = "complete"
    <3>1. /\ hand[w] \in Requests /\ Stored(hand[w]) /\ workerPc'[w] # "complete"
          /\ logs'.completed \subseteq logs.completed \cup {hand[w]}
      BY <1>4, <2>2, EmissionReports
    <3>2. \A v \in Workers : v # w => hand[v] # hand[w]
      BY <3>1 DEF Custody, OnePlace
    <3> QED
      BY <1>1, <2>1, <3>1, <3>2 DEF LogsAgree, Stored
  <2>3. CASE workerPc[w] # "complete"
    <3>1. logs' = logs /\ workerPc'[w] # "complete"
      BY <1>4, <2>3, EmissionReports DEF DoneSteps
    <3> QED
      BY <1>1, <2>1, <3>1 DEF LogsAgree, Stored
  <2> QED
    BY <2>2, <2>3
<1> QED
  BY <1>2, <1>3, <1>4 DEF Work, Before

LEMMA RowsStayAhead ==
  ASSUME TypeOK, Custody, RowLadder, NEW w \in Workers, Work(w)
  PROVE  RowLadder'
<1> DEFINE counted == counters["worker_processed"]
<1>1. counted \in Nat /\ Cardinality(Rows) \in Nat
  BY ActorsAreFinite DEF TypeOK, CounterNames, Rows
<1>2. /\ Cardinality(Completing) \in Nat /\ Cardinality(Completing') \in Nat
      /\ Cardinality(Completing') = Cardinality(Completing)
           + Indicator(w \in Completing') - Indicator(w \in Completing)
  BY OnTheWay
<1>3. table' = table => Rows' = Rows
  BY DEF Rows, Stored
<1> HIDE DEF Rows, Completing
<1>4. CASE Before(w)
  <2>1. table' = table /\ counted' = counted /\ w \notin Completing'
    BY <1>4, BeforeTheCommit DEF Completing
  <2> QED
    BY <1>1, <1>2, <1>3, <2>1 DEF RowLadder, Indicator
<1>5. CASE Commit(w)
  <2>1. /\ counters' = counters /\ w \notin Completing
        /\ hand[w] \in Requests /\ ~Stored(hand[w])
        /\ \/ table' = [table EXCEPT ![hand[w]] = @ + 1]
           \/ table' = table /\ w \notin Completing'
    BY <1>5, CommitStores
  <2>2. CASE table' = [table EXCEPT ![hand[w]] = @ + 1]
    <3>1. Rows' = Rows \cup {hand[w]} /\ hand[w] \notin Rows
      BY <2>1, <2>2 DEF Rows, Stored, TypeOK
    <3>2. IsFiniteSet(Rows)
      BY ActorsAreFinite DEF Rows
    <3>3. Cardinality(Rows') = Cardinality(Rows) + 1
      BY <3>1, <3>2, FS_AddElement
    <3> QED
      BY <1>1, <1>2, <2>1, <3>3 DEF RowLadder, Indicator
  <2>3. CASE table' = table /\ w \notin Completing'
    BY <1>1, <1>2, <1>3, <2>1, <2>3 DEF RowLadder, Indicator
  <2> QED
    BY <2>1, <2>2, <2>3
<1>6. CASE EmitWorker(w)
  <2>1. /\ table' = table /\ counters' = counters
        /\ w \in Completing' <=> w \in Completing
    BY <1>6, EmissionReports DEF Completing, DoneSteps
  <2> QED
    BY <1>1, <1>2, <1>3, <2>1 DEF RowLadder, Indicator
<1>7. CASE ExcuseWorker(w)
  <2>1. table' = table /\ counted' = counted /\ (w \in Completing' <=> w \in Completing)
    BY <1>7, ExcuseOnTheWay, ExcuseCounts
  <2> QED
    BY <1>1, <1>2, <1>3, <2>1 DEF RowLadder, Indicator
<1>8. CASE CountWork(w)
  <2>1. /\ table' = table /\ w \in Completing /\ w \notin Completing'
        /\ counted' \in {counted, counted + 1}
    BY <1>8, CountingEnds
  <2> HIDE DEF counted
  <2>2. counted' + Cardinality(Completing') <= Cardinality(Rows)
    BY <1>1, <1>2, <2>1 DEF RowLadder, Indicator, counted
  <2> QED
    BY <1>3, <2>1, <2>2 DEF RowLadder, counted
<1> QED
  BY <1>4, <1>5, <1>6, <1>7, <1>8 DEF Work, Before

(* A worker runs into no debt, or its count of a failed report was lost. *)
LEMMA DebtDoesNotGrow ==
  ASSUME TypeOK, Custody, LogsAgree, NEW w \in Workers, Work(w)
  PROVE  /\ Debt \in Int /\ Debt' \in Int
         /\ "emit" \in swallowed' \/ ("emit" \notin swallowed /\ Debt' <= Debt)
<1> DEFINE counted == counters["worker_processed"]
           excused == counters["application_log_emit_errors"]
           reported == Cardinality(logs.completed)
<1>1. /\ counted \in Nat /\ excused \in Nat /\ reported \in Nat
      /\ IsFiniteSet(logs.completed)
  BY ActorsAreFinite DEF TypeOK, CounterNames
<1>2. /\ Cardinality(Counting) \in Nat /\ Cardinality(Counting') \in Nat
      /\ Cardinality(Counting') = Cardinality(Counting)
           + Indicator(w \in Counting') - Indicator(w \in Counting)
  BY OnTheWay
<1>3. logs' = logs => reported' = reported
  OBVIOUS
<1>4. counted' \in Nat /\ excused' \in Nat /\ reported' \in Nat
  <2>1. HandsAreFull
    BY MatrixNames DEF HandsAreFull, Holding, Custody, HandAgrees, DueSteps, DoneSteps
  <2>2. TypeOK'
    BY <2>1, WorkType
  <2>3. logs'.completed \in SUBSET Requests /\ counters' \in [CounterNames -> Nat]
    BY <2>2 DEF TypeOK
  <2> QED
    BY <2>3, ActorsAreFinite DEF CounterNames
<1>5. /\ Debt = counted + Cardinality(Counting) - reported - excused
      /\ Debt' = counted' + Cardinality(Counting') - reported' - excused'
  BY DEF Debt
<1> HIDE DEF counted, excused, reported, Counting, Debt
<1>6. CASE Before(w) \/ Commit(w)
  <2>1. /\ UNCHANGED <<counters, logs, swallowed>> /\ w \notin Counting /\ w \notin Counting'
    BY <1>6, BeforeTheCommit, CommitStores DEF Counting, DoneSteps
  <2>2. counted' = counted /\ excused' = excused
    BY <2>1 DEF counted, excused
  <2> QED
    BY <1>1, <1>2, <1>3, <1>4, <1>5, <2>1, <2>2 DEF Indicator
<1>7. CASE EmitWorker(w)
  <2>1. swallowed' = swallowed /\ counted' = counted /\ excused' = excused /\ hand' = hand
    BY <1>7, EmissionReports DEF counted, excused
  <2>2. w \notin Counting
    BY <1>7, EmissionReports DEF Counting, DoneSteps
  <2>3. CASE workerPc[w] = "complete"
    <3>1. /\ workerPc'[w] = "count" => logs'.completed = logs.completed \cup {hand[w]}
          /\ logs'.completed \in {logs.completed, logs.completed \cup {hand[w]}}
      BY <1>7, <2>3, EmissionReports
    <3>2. hand[w] \notin logs.completed
      BY <2>3 DEF LogsAgree
    <3>3. Cardinality(logs.completed \cup {hand[w]}) = Cardinality(logs.completed) + 1
      BY <1>1, <3>2, FS_AddElement
    <3>4. /\ reported' \in {reported, reported + 1}
          /\ workerPc'[w] = "count" => reported' = reported + 1
      BY <3>1, <3>3 DEF reported
    <3>5. w \in Counting' => reported' = reported + 1
      BY <3>4 DEF Counting
    <3> QED
      BY <1>1, <1>2, <1>4, <1>5, <2>1, <2>2, <3>4, <3>5 DEF Indicator
  <2>4. CASE workerPc[w] # "complete"
    <3>1. logs' = logs /\ w \notin Counting'
      BY <1>7, <2>4, EmissionReports DEF Counting, DoneSteps
    <3> QED
      BY <1>1, <1>2, <1>3, <1>4, <1>5, <2>1, <2>2, <3>1 DEF Indicator
  <2> QED
    BY <2>3, <2>4
<1>8. CASE ExcuseWorker(w)
  <2>1. /\ w \notin Counting /\ CountEmitError
    BY <1>8, ExcuseOnTheWay
  <2>2. /\ counted' = counted /\ logs' = logs
        /\ \/ "emit" \in swallowed'
           \/ swallowed' = swallowed /\ excused' = excused + 1
    BY <2>1, ExcuseCounts DEF counted, excused
  <2> QED
    BY <1>1, <1>2, <1>3, <1>4, <1>5, <2>1, <2>2 DEF Indicator
<1>9. CASE CountWork(w)
  <2>1. /\ logs' = logs /\ swallowed \subseteq swallowed' /\ w \in Counting /\ w \notin Counting'
        /\ excused' = excused /\ counted' \in {counted, counted + 1}
    BY <1>9, CountingEnds DEF counted, excused
  <2> QED
    BY <1>1, <1>2, <1>3, <1>4, <1>5, <2>1 DEF Indicator
<1> QED
  BY <1>6, <1>7, <1>8, <1>9 DEF Work, Before

LEMMA ReportsStayAhead ==
  ASSUME TypeOK, Custody, LogsAgree, LogLadder, NEW w \in Workers, Work(w)
  PROVE  LogLadder'
BY DebtDoesNotGrow DEF LogLadder

(* A handler, and a fault injected or withdrawn, touch no row and no worker. *)
LEMMA OthersKeepLadders ==
  ASSUME TypeOK, LogsAgree, RowLadder, LogLadder,
         \/ \E r \in Requests : Send(r) \/ Handler(r)
         \/ Inject \/ Withdraw \/ UNCHANGED vars
  PROVE  LogsAgree' /\ RowLadder' /\ LogLadder'
<1> USE DEF listVars, database, reports, apiVars, workerVars, vars
<1>1. UNCHANGED <<table, workerPc, hand>>
  BY DEF Send, Handler, Gate, Push, Emit, ExcuseEmit, Count, Reply, Inject, Withdraw
<1>2. /\ counters'["worker_processed"] = counters["worker_processed"]
      /\ counters["application_log_emit_errors"] <= counters'["application_log_emit_errors"]
      /\ counters["worker_processed"] \in Nat
      /\ counters["application_log_emit_errors"] \in Nat
      /\ counters'["application_log_emit_errors"] \in Nat
      /\ swallowed \subseteq swallowed' /\ logs'.completed = logs.completed
  <2>1. CASE \E r \in Requests : Send(r) \/ Handler(r)
    BY <2>1, HandlerCounts
  <2>2. CASE Inject \/ Withdraw \/ UNCHANGED vars
    <3>1. UNCHANGED <<counters, logs, swallowed>>
      BY <2>2 DEF Inject, Withdraw
    <3>2. /\ counters["worker_processed"] \in Nat
          /\ counters["application_log_emit_errors"] \in Nat
      BY DEF TypeOK, CounterNames
    <3> QED
      BY <3>1, <3>2
  <2> QED
    BY <2>1, <2>2
<1>3. Rows' = Rows /\ Completing' = Completing /\ Counting' = Counting
  BY <1>1 DEF Rows, Stored, Completing, Counting
<1>4. LogsAgree' /\ RowLadder'
  BY <1>1, <1>2, <1>3 DEF LogsAgree, RowLadder, Stored
<1>5. Cardinality(Counting) \in Nat /\ Cardinality(logs.completed) \in Nat
  BY ActorsAreFinite DEF Counting, TypeOK
<1> HIDE DEF Counting
<1>6. LogLadder'
  BY <1>2, <1>3, <1>5 DEF LogLadder, Debt
<1> QED
  BY <1>4, <1>6

(* The ladders hold in the beginning, and every step keeps them.             *)
LEMMA InitLadders ==
  ASSUME Init
  PROVE  LogsAgree /\ RowLadder /\ LogLadder
<1>1. /\ counters["worker_processed"] = 0 /\ counters["application_log_emit_errors"] = 0
      /\ logs.completed = {}
  BY DEF Init, NoCounts, CounterNames, NoLogs
<1>2. Completing = {} /\ Counting = {} /\ Rows = {}
  BY DEF Init, Completing, Counting, Rows, Stored, DoneSteps
<1>3. Cardinality({}) = 0
  BY FS_EmptySet
<1>4. LogsAgree
  BY <1>1 DEF Init, LogsAgree
<1> QED
  BY <1>1, <1>2, <1>3, <1>4 DEF RowLadder, LogLadder, Debt

LEMMA NextKeepsLadders ==
  ASSUME TypeOK, Custody, LogsAgree, RowLadder, LogLadder, [Next]_vars
  PROVE  LogsAgree' /\ RowLadder' /\ LogLadder'
<1>1. CASE \E w \in Workers : Work(w)
  BY <1>1, ReportsAgree, RowsStayAhead, ReportsStayAhead
<1>2. CASE (\E r \in Requests : Send(r) \/ Handler(r)) \/ Inject \/ Withdraw
           \/ UNCHANGED vars
  BY <1>2, OthersKeepLadders
<1> QED
  BY <1>1, <1>2 DEF Next

LEMMA LaddersHold == Spec => [](TypeOK /\ LogsAgree /\ RowLadder /\ LogLadder)
<1>1. Init => LogsAgree /\ RowLadder /\ LogLadder
  BY InitLadders
<1>2. TypeOK /\ Custody /\ LogsAgree /\ RowLadder /\ LogLadder /\ [Next]_vars => 
          LogsAgree' /\ RowLadder' /\ LogLadder'
  BY NextKeepsLadders
<1> QED
  BY <1>1, <1>2, CustodyHolds, PTL DEF Spec

-----------------------------------------------------------------------------
(* The measurements of the graph lab, which wraps the calls of the same     *)
(* application.                                                             *)
CONSTANTS
  WindowOf,      \* the window in which the gaugeRunner sends a request
  WindowCount

VARIABLES inflight, peak, gaugeBusy, gaugeCounters, gaugeQueue, gaugeTable, handlerPc, failed,
          takerPc, held, dying, gaugeRunner, window, row, lastRow, most, lost, gaugeSwallowed,
          gaugeFaults

Gauges == INSTANCE GraphGauges WITH
  Nothing <- Nobody, busy <- gaugeBusy, counters <- gaugeCounters, queue <- gaugeQueue,
  table <- gaugeTable, apiPc <- handlerPc, workerPc <- takerPc, hand <- held,
  swallowed <- gaugeSwallowed, faults <- gaugeFaults, runner <- gaugeRunner,
  previous <- lastRow

(* The windows are numbered, and so are those of the requests.              *)
GaugeBounds == WindowCount \in Nat \ {0} /\ WindowOf \in [Requests -> Int]

(* The modules are instantiated with all that they extend.                  *)
LEMMA GaugeCardinality ==
  ASSUME NEW S
  PROVE  Gauges!Cardinality(S) = Cardinality(S)
BY DEF Gauges!Cardinality, Cardinality

LEMMA GreaterOfTwo ==
  ASSUME NEW a \in Int, NEW b \in Int
  PROVE  Gauges!Max({a, b}) = IF a >= b THEN a ELSE b
BY DEF Gauges!Max

(* INFLIGHT_SCRIPT never takes the count below zero, nor the peak below the *)
(* count.                                                                   *)
LEMMA ScriptCounts ==
  ASSUME inflight \in Nat, peak \in Nat, NEW delta \in Int, Gauges!InflightScript(delta)
  PROVE  /\ inflight' = IF inflight + delta >= 0 THEN inflight + delta ELSE 0
         /\ peak' = IF peak >= inflight' THEN peak ELSE inflight'
         /\ inflight' \in Nat /\ peak' \in Nat
<1>1. Gauges!Max({0, inflight + delta}) = IF inflight + delta >= 0 THEN inflight + delta ELSE 0
  BY GreaterOfTwo
<1>2. inflight' = IF inflight + delta >= 0 THEN inflight + delta ELSE 0
  BY <1>1 DEF Gauges!InflightScript
<1>3. inflight' \in Nat
  BY <1>2
<1>4. peak' = Gauges!Max({peak, inflight'})
  BY DEF Gauges!InflightScript
<1>5. peak' = IF peak >= inflight' THEN peak ELSE inflight'
  BY <1>3, <1>4, GreaterOfTwo
<1> QED
  BY <1>2, <1>3, <1>5

-----------------------------------------------------------------------------
(* Types: those of the module, and of the rows and histories.               *)

GaugeRows ==
  [counters : [Gauges!CounterNames -> Nat], rows : Nat, current : Int, peak : Int,
   busy : Int, depth : Int, oldest : Int]

GaugesTyped ==
  /\ Gauges!TypeOK
  /\ row \in GaugeRows /\ lastRow \in GaugeRows
  /\ most \in Nat /\ lost \in [up : Nat, down : Nat] /\ gaugeSwallowed \in BOOLEAN

LEMMA GaugeFaultType ==
  ASSUME GaugesTyped, Gauges!Works \/ Gauges!Breaks
  PROVE  gaugeFaults' \in 0 .. MaxFaults
BY MatrixBounds DEF GaugesTyped, Gauges!TypeOK, Gauges!Works, Gauges!Breaks

LEMMA GaugeApiType ==
  ASSUME GaugesTyped, NEW r, NEW step \in Gauges!ApiSteps, Gauges!ApiGoto(r, step)
  PROVE  handlerPc' \in [Requests -> Gauges!ApiSteps]
BY DEF GaugesTyped, Gauges!TypeOK, Gauges!ApiGoto

LEMMA GaugeWorkerType ==
  ASSUME GaugesTyped, NEW w, NEW step \in Gauges!WorkerSteps, Gauges!WorkerGoto(w, step)
  PROVE  takerPc' \in [Workers -> Gauges!WorkerSteps]
BY DEF GaugesTyped, Gauges!TypeOK, Gauges!WorkerGoto

(* A measurement adds one to its counter, or is lost, which is remembered.  *)
LEMMA MeasureCounts ==
  ASSUME GaugesTyped, NEW name \in Gauges!CounterNames, Gauges!Measure(name)
  PROVE  /\ Gauges!Works \/ Gauges!Breaks
         /\ gaugeCounters' \in [Gauges!CounterNames -> Nat] /\ gaugeSwallowed' \in BOOLEAN
         /\ \A c \in Gauges!CounterNames : c # name => gaugeCounters'[c] = gaugeCounters[c]
         /\ gaugeCounters'[name] \in {gaugeCounters[name], gaugeCounters[name] + 1}
         /\ gaugeSwallowed \/ gaugeCounters'[name] < gaugeCounters[name] + 1 => gaugeSwallowed'
<1>1. CASE gaugeCounters' = gaugeCounters /\ Gauges!Breaks /\ gaugeSwallowed' = TRUE
  BY <1>1 DEF GaugesTyped, Gauges!TypeOK
<1>2. CASE Gauges!Tally(name) /\ (\/ Gauges!Works /\ UNCHANGED gaugeSwallowed
                                  \/ Gauges!Breaks /\ gaugeSwallowed' = TRUE)
  <2>1. /\ gaugeCounters' \in [Gauges!CounterNames -> Nat]
        /\ \A c \in Gauges!CounterNames : c # name => gaugeCounters'[c] = gaugeCounters[c]
        /\ gaugeCounters'[name] = gaugeCounters[name] + 1 /\ gaugeCounters[name] \in Nat
    BY <1>2 DEF GaugesTyped, Gauges!TypeOK, Gauges!Tally
  <2>2. ~(gaugeCounters'[name] < gaugeCounters[name] + 1)
    BY <2>1
  <2>3. gaugeSwallowed' = gaugeSwallowed \/ gaugeSwallowed' = TRUE
    BY <1>2
  <2>4. gaugeSwallowed \in BOOLEAN
    BY DEF GaugesTyped
  <2>5. gaugeSwallowed' \in BOOLEAN
    BY <2>3, <2>4
  <2>6. gaugeSwallowed => gaugeSwallowed'
    BY <2>3
  <2> QED
    BY <1>2, <2>1, <2>2, <2>5, <2>6
<1> QED
  BY <1>1, <1>2 DEF Gauges!Measure, Gauges!MayApply

(* What every step of a handler and of a worker keeps. *)
LEMMA GaugeHandlerBasics ==
  ASSUME GaugesTyped, NEW r \in Requests, Gauges!Handler(r)
  PROVE  /\ gaugeFaults' \in 0 .. MaxFaults
         /\ handlerPc' \in [Requests -> Gauges!ApiSteps]
         /\ UNCHANGED <<Gauges!workerVars, Gauges!runVars, gaugeTable>>
         /\ failed' \in SUBSET Requests /\ gaugeSwallowed' \in BOOLEAN
         /\ gaugeCounters' \in [Gauges!CounterNames -> Nat]
         /\ \A c \in {"residence_count", "write_count", "worker_processed"} :
              gaugeCounters'[c] = gaugeCounters[c]
         /\ gaugeSwallowed => gaugeSwallowed'
<1> USE DEF Gauges!store
<1>1. CASE Gauges!RecordEnqueue(r) \/ Gauges!TallyRequest(r)
  <2>1. PICK name \in {"api_requests", "enqueue_count"}, step \in {"tally", "reply"} :
          Gauges!Measure(name) /\ Gauges!ApiGoto(r, step)
    BY <1>1 DEF Gauges!RecordEnqueue, Gauges!TallyRequest
  <2>2. name \in Gauges!CounterNames
    BY <2>1 DEF Gauges!CounterNames
  <2>3. handlerPc' \in [Requests -> Gauges!ApiSteps]
    BY <2>1, GaugeApiType DEF Gauges!ApiSteps
  <2> QED
    BY <1>1, <2>1, <2>2, <2>3, MeasureCounts, GaugeFaultType
       DEF Gauges!RecordEnqueue, Gauges!TallyRequest, GaugesTyped, Gauges!TypeOK,
           Gauges!CounterNames
<1>2. CASE \/ Gauges!Enter(r) \/ Gauges!Push(r) \/ Gauges!StampEnqueue(r) \/ Gauges!Reply(r)
           \/ Gauges!Leave(r)
  <2>1. Gauges!Works \/ Gauges!Breaks
    BY <1>2 DEF Gauges!Enter, Gauges!Push, Gauges!StampEnqueue, Gauges!Reply, Gauges!Leave
  <2>2. \E step \in {"push", "stamp", "record", "leave", "gone"} : Gauges!ApiGoto(r, step)
    BY <1>2 DEF Gauges!Enter, Gauges!Push, Gauges!StampEnqueue, Gauges!Reply, Gauges!Leave
  <2>3. handlerPc' \in [Requests -> Gauges!ApiSteps]
    BY <2>2, GaugeApiType DEF Gauges!ApiSteps
  <2>4. failed' \in {failed, failed \cup {r}}
    BY <1>2 DEF Gauges!Enter, Gauges!Push, Gauges!StampEnqueue, Gauges!Reply, Gauges!Leave
  <2>5. UNCHANGED <<Gauges!workerVars, Gauges!runVars, gaugeTable, gaugeCounters,
                    gaugeSwallowed>>
    BY <1>2 DEF Gauges!Enter, Gauges!Push, Gauges!StampEnqueue, Gauges!Reply, Gauges!Leave
  <2> QED
    BY <2>1, <2>3, <2>4, <2>5, GaugeFaultType DEF GaugesTyped, Gauges!TypeOK
<1> QED
  BY <1>1, <1>2 DEF Gauges!Handler

LEMMA GaugeHandlerType ==
  ASSUME GaugesTyped, NEW r \in Requests, Gauges!Handler(r)
  PROVE  GaugesTyped'
<1>1. inflight' \in Nat /\ peak' \in Nat /\ most' \in Nat /\ lost' \in [up : Nat, down : Nat]
  <2> USE DEF Gauges!gauges
  <2>1. CASE Gauges!Enter(r)
    <3>1. Cardinality(Gauges!Live) \in Nat
      BY ActorsAreFinite DEF Gauges!Live
    <3>2. most' = Gauges!Max({most, Cardinality(Gauges!Live) + 1})
      BY <2>1, GaugeCardinality DEF Gauges!Enter
    <3>3. most' \in Nat
      BY <3>1, <3>2, GreaterOfTwo DEF GaugesTyped
    <3>4. inflight \in Nat /\ peak \in Nat
      BY DEF GaugesTyped, Gauges!TypeOK
    <3>5. inflight' \in Nat /\ peak' \in Nat
      BY <2>1, <3>4, ScriptCounts DEF Gauges!Enter
    <3> QED
      BY <2>1, <3>3, <3>5 DEF Gauges!Enter, GaugesTyped
  <2>2. CASE Gauges!Leave(r)
    BY <2>2, ScriptCounts DEF Gauges!Leave, GaugesTyped, Gauges!TypeOK
  <2>3. CASE UNCHANGED Gauges!gauges
    BY <2>3 DEF GaugesTyped, Gauges!TypeOK
  <2> QED
    BY <2>1, <2>2, <2>3 DEF Gauges!Handler, Gauges!Push, Gauges!StampEnqueue,
       Gauges!RecordEnqueue, Gauges!TallyRequest, Gauges!Reply
<1>2. gaugeQueue' \in Seq(Requests)
  <2>1. Append(gaugeQueue, r) \in Seq(Requests) /\ gaugeQueue \in Seq(Requests)
    BY DEF GaugesTyped, Gauges!TypeOK
  <2> QED
    BY <2>1 DEF Gauges!Handler, Gauges!Enter, Gauges!Push, Gauges!StampEnqueue,
       Gauges!RecordEnqueue, Gauges!TallyRequest, Gauges!Reply, Gauges!Leave,
       Gauges!MayApply, Gauges!store
<1> QED
  BY <1>1, <1>2, GaugeHandlerBasics
     DEF GaugesTyped, Gauges!TypeOK, Gauges!workerVars, Gauges!runVars

(* What every step of a worker keeps; an item is in its hand from the pop.  *)
HandsFull == \A w \in Workers : takerPc[w] \notin {"pop", "dead"} => held[w] \in Requests

LEMMA GaugeWorkBasics ==
  ASSUME GaugesTyped, NEW w \in Workers, Gauges!Work(w)
  PROVE  /\ gaugeFaults' \in 0 .. MaxFaults
         /\ takerPc' \in [Workers -> Gauges!WorkerSteps]
         /\ \A v \in Workers : v # w => /\ takerPc'[v] = takerPc[v]
                                        /\ held'[v] = held[v] /\ dying'[v] = dying[v]
         /\ UNCHANGED <<Gauges!gauges, Gauges!apiVars, Gauges!runVars>>
         /\ gaugeSwallowed' \in BOOLEAN /\ gaugeCounters' \in [Gauges!CounterNames -> Nat]
         /\ gaugeSwallowed => gaugeSwallowed'
<1> USE DEF Gauges!store
<1>1. CASE Gauges!RecordResidence(w) \/ Gauges!RecordWrite(w) \/ Gauges!CountWork(w)
  <2>1. PICK name \in {"residence_count", "write_count", "worker_processed"},
             step \in {"busy", "dead", "count", "pop"} :
          Gauges!Measure(name) /\ Gauges!WorkerGoto(w, step)
    BY <1>1 DEF Gauges!RecordResidence, Gauges!RecordWrite, Gauges!CountWork
  <2>2. name \in Gauges!CounterNames
    BY <2>1 DEF Gauges!CounterNames
  <2>3. takerPc' \in [Workers -> Gauges!WorkerSteps]
    BY <2>1, GaugeWorkerType DEF Gauges!WorkerSteps
  <2>4. \A v \in Workers : v # w => takerPc'[v] = takerPc[v]
    BY <2>1 DEF Gauges!WorkerGoto, GaugesTyped, Gauges!TypeOK
  <2>5. /\ dying' = dying /\ \A v \in Workers : v # w => held'[v] = held[v]
        /\ UNCHANGED <<Gauges!gauges, Gauges!apiVars, Gauges!runVars>>
    BY <1>1 DEF Gauges!RecordResidence, Gauges!RecordWrite, Gauges!CountWork, GaugesTyped,
         Gauges!TypeOK
  <2> QED
    BY <2>1, <2>2, <2>3, <2>4, <2>5, MeasureCounts, GaugeFaultType
<1>2. CASE \/ Gauges!Pop(w) \/ Gauges!StampDequeue(w) \/ Gauges!SetBusy(w) \/ Gauges!Begin(w)
           \/ Gauges!Commit(w) \/ Gauges!ClearBusy(w)
  <2> USE <1>2 DEF Gauges!Pop, Gauges!StampDequeue, Gauges!SetBusy, Gauges!Begin,
        Gauges!Commit, Gauges!ClearBusy
  <2>1. Gauges!Works \/ Gauges!Breaks
    OBVIOUS
  <2>2. PICK step \in {"stamp", "dead", "residence", "begin", "commit", "write", "free"} :
          Gauges!WorkerGoto(w, step)
    OBVIOUS
  <2>3. /\ takerPc' \in [Workers -> Gauges!WorkerSteps]
        /\ \A v \in Workers : v # w => takerPc'[v] = takerPc[v]
    BY <2>2, GaugeWorkerType DEF Gauges!WorkerSteps, Gauges!WorkerGoto, GaugesTyped,
       Gauges!TypeOK
  <2>4. \A v \in Workers : v # w => held'[v] = held[v] /\ dying'[v] = dying[v]
    BY DEF Gauges!Take, Gauges!Raises, Gauges!MayApply, GaugesTyped, Gauges!TypeOK
  <2>5. UNCHANGED <<Gauges!gauges, Gauges!apiVars, Gauges!runVars, gaugeCounters>>
    OBVIOUS
  <2>6. gaugeSwallowed' \in {gaugeSwallowed, TRUE}
    OBVIOUS
  <2> QED
    BY <2>1, <2>3, <2>4, <2>5, <2>6, GaugeFaultType DEF GaugesTyped, Gauges!TypeOK
<1> QED
  BY <1>1, <1>2 DEF Gauges!Work

LEMMA GaugeWorkType ==
  ASSUME GaugesTyped, HandsFull, NEW w \in Workers, Gauges!Work(w)
  PROVE  GaugesTyped' /\ HandsFull'
<1> USE DEF Gauges!store, Gauges!MayApply
<1>1. gaugeQueue \in Seq(Requests) /\ held \in [Workers -> Requests \cup {Nobody}]
  BY DEF GaugesTyped, Gauges!TypeOK
<1>2. gaugeQueue # <<>> => Head(gaugeQueue) \in Requests /\ Tail(gaugeQueue) \in Seq(Requests)
  BY <1>1
<1>3. gaugeQueue' \in Seq(Requests) /\ held' \in [Workers -> Requests \cup {Nobody}]
  BY <1>1, <1>2 DEF Gauges!Work, Gauges!Pop, Gauges!StampDequeue, Gauges!RecordResidence,
     Gauges!SetBusy, Gauges!Begin, Gauges!Commit, Gauges!ClearBusy, Gauges!RecordWrite,
     Gauges!CountWork, Gauges!Take
<1>4. dying' \in [Workers -> {"no", "begin", "commit"}]
  BY DEF Gauges!Work, Gauges!Pop, Gauges!StampDequeue, Gauges!RecordResidence,
     Gauges!SetBusy, Gauges!Begin, Gauges!Commit, Gauges!ClearBusy, Gauges!RecordWrite,
     Gauges!CountWork, Gauges!Raises, GaugesTyped, Gauges!TypeOK
<1>5. gaugeBusy' \in SUBSET Workers
  BY DEF Gauges!Work, Gauges!Pop, Gauges!StampDequeue, Gauges!RecordResidence,
     Gauges!SetBusy, Gauges!Begin, Gauges!Commit, Gauges!ClearBusy, Gauges!RecordWrite,
     Gauges!CountWork, GaugesTyped, Gauges!TypeOK
<1>6. gaugeTable' \in {gaugeTable, gaugeTable \cup {held[w]}}
      /\ (gaugeTable' # gaugeTable => takerPc[w] = "commit")
  BY DEF Gauges!Work, Gauges!Pop, Gauges!StampDequeue, Gauges!RecordResidence,
     Gauges!SetBusy, Gauges!Begin, Gauges!Commit, Gauges!ClearBusy, Gauges!RecordWrite,
     Gauges!CountWork
<1>7. gaugeTable' \in SUBSET Requests
  BY <1>6 DEF HandsFull, GaugesTyped, Gauges!TypeOK
<1>8. HandsFull'
  <2>1. takerPc'[w] \notin {"pop", "dead"} => held'[w] \in Requests
    BY <1>1, <1>2 DEF HandsFull, Gauges!Work, Gauges!Pop, Gauges!StampDequeue,
       Gauges!RecordResidence, Gauges!SetBusy, Gauges!Begin, Gauges!Commit, Gauges!ClearBusy,
       Gauges!RecordWrite, Gauges!CountWork, Gauges!Take, Gauges!WorkerGoto, GaugesTyped,
       Gauges!TypeOK
  <2> QED
    BY <2>1, GaugeWorkBasics DEF HandsFull
<1> QED
  BY <1>3, <1>4, <1>5, <1>7, <1>8, GaugeWorkBasics
     DEF GaugesTyped, Gauges!TypeOK, Gauges!gauges, Gauges!apiVars, Gauges!runVars

(* The runner reads, and changes nothing but the peak and its history.      *)
Sampled == {"counters", "rows", "current", "peak", "busy", "depth", "oldest"}

LEMMA GaugeReadKinds ==
  ASSUME GaugesTyped, Gauges!Reads
  PROVE  \/ /\ gaugeRunner \in Sampled /\ gaugeRunner' = "failed" /\ row' = row
            /\ UNCHANGED <<window, lastRow, Gauges!gauges, Gauges!others>>
         \/ /\ gaugeRunner \in Sampled
            /\ gaugeRunner = "counters" =>
                 gaugeRunner' = "rows" /\ row' = [row EXCEPT !.counters = gaugeCounters]
            /\ gaugeRunner = "rows" =>
                 gaugeRunner' = "current" /\ row' = [row EXCEPT !.rows = Cardinality(gaugeTable)]
            /\ gaugeRunner = "current" =>
                 gaugeRunner' = "peak" /\ row' = [row EXCEPT !.current = inflight]
            /\ gaugeRunner = "peak" => gaugeRunner' = "reset" /\ row' = [row EXCEPT !.peak = peak]
            /\ gaugeRunner = "busy" =>
                 gaugeRunner' = "depth" /\ row' = [row EXCEPT !.busy = Cardinality(gaugeBusy)]
            /\ gaugeRunner = "depth" =>
                 gaugeRunner' = "oldest" /\ row' = [row EXCEPT !.depth = Len(gaugeQueue)]
            /\ gaugeRunner = "oldest" =>
                 /\ gaugeRunner' = "emit"
                 /\ row' = [row EXCEPT !.oldest = IF gaugeQueue = <<>> THEN 0 ELSE 1]
            /\ UNCHANGED <<window, lastRow, Gauges!gauges, Gauges!others>>
<1> USE DEF Gauges!Read, Gauges!After, Sampled
<1>1. CASE Gauges!Read("counters", gaugeCounters)
  BY <1>1
<1>2. CASE Gauges!Read("rows", Cardinality(gaugeTable))
  BY <1>2
<1>3. CASE Gauges!Read("current", inflight)
  BY <1>3
<1>4. CASE Gauges!Read("peak", peak)
  BY <1>4
<1>5. CASE Gauges!Read("busy", Cardinality(gaugeBusy))
  BY <1>5
<1>6. CASE Gauges!Read("depth", Len(gaugeQueue))
  BY <1>6
<1>7. CASE Gauges!Read("oldest", IF gaugeQueue = <<>> THEN 0 ELSE 1)
  BY <1>7
<1> QED
  BY <1>1, <1>2, <1>3, <1>4, <1>5, <1>6, <1>7, GaugeCardinality DEF Gauges!Reads

LEMMA GaugeRowTypes ==
  ASSUME GaugesTyped
  PROVE  /\ Cardinality(gaugeTable) \in Nat /\ Cardinality(gaugeBusy) \in Nat
         /\ Len(gaugeQueue) \in Nat /\ Cardinality(Gauges!Live) \in Nat
         /\ inflight \in Int /\ peak \in Int /\ gaugeCounters \in [Gauges!CounterNames -> Nat]
<1>1. IsFiniteSet(gaugeTable) /\ IsFiniteSet(gaugeBusy) /\ IsFiniteSet(Gauges!Live)
  BY ActorsAreFinite DEF GaugesTyped, Gauges!TypeOK, Gauges!Live
<1> QED
  BY <1>1, FS_CardinalityType DEF GaugesTyped, Gauges!TypeOK

(* What the steps of the runner keep. *)
LEMMA GaugeRunBasics ==
  ASSUME GaugesTyped, Gauges!Run
  PROVE  /\ Gauges!Works \/ Gauges!Breaks
         /\ UNCHANGED <<Gauges!others, inflight, lost>>
<1>1. CASE Gauges!Reads
  BY <1>1 DEF Gauges!Reads, Gauges!Read, Gauges!gauges
<1>2. CASE Gauges!Send \/ Gauges!Await \/ Gauges!ResetPeak \/ Gauges!Emit
  BY <1>2 DEF Gauges!Send, Gauges!Await, Gauges!ResetPeak, Gauges!Emit, Gauges!gauges
<1> QED
  BY <1>1, <1>2 DEF Gauges!Run

(* The count that the reset writes back is one that was read. *)
CurrentRead == gaugeRunner \in {"peak", "reset"} => row.current \in Nat

LEMMA GaugeRunType ==
  ASSUME GaugeBounds, GaugesTyped, CurrentRead, Gauges!Run
  PROVE  GaugesTyped' /\ CurrentRead'
<1> DEFINE Steps == Gauges!Sampling \cup {"send", "await", "done", "failed"}
<1>1. /\ row' \in GaugeRows /\ lastRow' \in GaugeRows /\ window' \in 1 .. WindowCount
      /\ gaugeRunner' \in Steps /\ peak' \in Nat /\ most' \in Nat
  <2>0. /\ row \in GaugeRows /\ lastRow \in GaugeRows /\ window \in 1 .. WindowCount
        /\ gaugeRunner \in Steps /\ peak \in Nat /\ most \in Nat
    BY DEF GaugesTyped, Gauges!TypeOK
  <2>1. CASE Gauges!Reads
    <3>1. row' \in GaugeRows
      <4>1. CASE row' = row
        BY <2>0, <4>1
      <4>2. CASE \E c \in [Gauges!CounterNames -> Nat] : row' = [row EXCEPT !.counters = c]
        BY <2>0, <4>2 DEF GaugeRows
      <4>3. CASE \E n \in Nat : row' = [row EXCEPT !.rows = n]
        BY <2>0, <4>3 DEF GaugeRows
      <4>4. CASE \E n \in Int : \/ row' = [row EXCEPT !.current = n]
                              \/ row' = [row EXCEPT !.peak = n]
                              \/ row' = [row EXCEPT !.busy = n]
        BY <2>0, <4>4 DEF GaugeRows
      <4>5. CASE \E n \in Int : \/ row' = [row EXCEPT !.depth = n]
                              \/ row' = [row EXCEPT !.oldest = n]
        BY <2>0, <4>5 DEF GaugeRows
      <4>6. gaugeRunner \in {"counters", "rows", "current", "peak"} =>
              \/ row' = row
              \/ row' = [row EXCEPT !.counters = gaugeCounters]
              \/ row' = [row EXCEPT !.rows = Cardinality(gaugeTable)]
              \/ row' = [row EXCEPT !.current = inflight]
              \/ row' = [row EXCEPT !.peak = peak]
        BY <2>1, GaugeReadKinds
      <4>7. gaugeRunner \in {"busy", "depth", "oldest"} =>
              \/ row' = row
              \/ row' = [row EXCEPT !.busy = Cardinality(gaugeBusy)]
              \/ row' = [row EXCEPT !.depth = Len(gaugeQueue)]
              \/ \E n \in {0, 1} : row' = [row EXCEPT !.oldest = n]
        BY <2>1, GaugeReadKinds
      <4>8. inflight \in Int /\ peak \in Int /\ Cardinality(gaugeBusy) \in Int
            /\ Len(gaugeQueue) \in Int /\ 0 \in Int /\ 1 \in Int
        BY GaugeRowTypes
      <4>9. CASE gaugeRunner \in {"counters", "rows", "current", "peak"}
        BY <4>1, <4>2, <4>3, <4>4, <4>6, <4>8, <4>9, GaugeRowTypes
      <4>10. CASE gaugeRunner \in {"busy", "depth", "oldest"}
        BY <4>1, <4>4, <4>5, <4>7, <4>8, <4>10
      <4> QED
        BY <2>1, <4>9, <4>10, GaugeReadKinds DEF Sampled
    <3>2. gaugeRunner' \in Steps
      BY <2>1, GaugeReadKinds DEF Sampled, Gauges!Sampling
    <3> QED
      BY <2>0, <2>1, <3>1, <3>2, GaugeReadKinds DEF Gauges!gauges
  <2>2. CASE Gauges!Send
    <3>1. Gauges!Unread \in GaugeRows
      BY DEF Gauges!Unread, GaugeRows
    <3> QED
      BY <2>0, <2>2, <3>1 DEF Gauges!Send, Gauges!gauges
  <2>3. CASE Gauges!Await
    BY <2>0, <2>3 DEF Gauges!Await, Gauges!gauges, Gauges!Sampling
  <2>4. CASE Gauges!ResetPeak
    <3>1. Gauges!Cardinality(Gauges!Live) \in Nat
      BY GaugeRowTypes, GaugeCardinality
    <3> QED
      BY <2>0, <2>4, <3>1 DEF Gauges!ResetPeak, Gauges!Sampling, Gauges!MayApply, CurrentRead
  <2>5. CASE Gauges!Emit
    BY <2>0, <2>5 DEF Gauges!Emit, Gauges!gauges, GaugeBounds
  <2> QED
    BY <2>1, <2>2, <2>3, <2>4, <2>5 DEF Gauges!Run
<1>2. CurrentRead'
  <2>1. CASE Gauges!Reads
    BY <2>1, GaugeReadKinds DEF CurrentRead, Sampled, GaugesTyped, Gauges!TypeOK, GaugeRows
  <2>2. CASE Gauges!Send \/ Gauges!Await \/ Gauges!ResetPeak \/ Gauges!Emit
    BY <2>2 DEF Gauges!Send, Gauges!Await, Gauges!ResetPeak, Gauges!Emit, CurrentRead
  <2> QED
    BY <2>1, <2>2 DEF Gauges!Run
<1> QED
  BY <1>1, <1>2, GaugeRunBasics, GaugeFaultType
     DEF GaugesTyped, Gauges!TypeOK, Gauges!others, Gauges!store, Gauges!apiVars,
         Gauges!workerVars

-----------------------------------------------------------------------------
(* The runner waits for the handlers it has sent.                           *)

(* A handler is between its first call and its answer in the window of its  *)
(* request, while the runner waits.                                         *)
Midway == {"push", "stamp", "record", "tally", "reply"}

AwaitKept(r) ==
  /\ handlerPc[r] \in Midway => gaugeRunner = "await" /\ WindowOf[r] = window
  /\ handlerPc[r] # "unsent" => WindowOf[r] <= window
RunnerWaits == \A r \in Requests : AwaitKept(r)

LEMMA GaugeHandlerMoves ==
  ASSUME GaugesTyped, NEW r \in Requests, Gauges!Handler(r)
  PROVE  /\ \A q \in Requests : q # r => handlerPc'[q] = handlerPc[q]
         /\ \/ Gauges!Enter(r) /\ handlerPc[r] = "unsent" /\ handlerPc'[r] = "push"
            \/ Gauges!Leave(r) /\ handlerPc[r] = "leave" /\ handlerPc'[r] = "gone"
            \/ /\ UNCHANGED Gauges!gauges
               /\ handlerPc[r] \in Midway /\ handlerPc'[r] \in (Midway \ {"push"}) \cup {"leave"}
<1>0. handlerPc \in [Requests -> Gauges!ApiSteps]
  BY DEF GaugesTyped, Gauges!TypeOK
<1>1. CASE Gauges!Enter(r) \/ Gauges!Leave(r)
  BY <1>0, <1>1 DEF Gauges!Enter, Gauges!Leave, Gauges!ApiGoto
<1>2. CASE \/ Gauges!Push(r) \/ Gauges!StampEnqueue(r) \/ Gauges!RecordEnqueue(r)
           \/ Gauges!TallyRequest(r) \/ Gauges!Reply(r)
  BY <1>0, <1>2 DEF Gauges!Push, Gauges!StampEnqueue, Gauges!RecordEnqueue,
     Gauges!TallyRequest, Gauges!Reply, Gauges!ApiGoto, Midway
<1> QED
  BY <1>1, <1>2 DEF Gauges!Handler

LEMMA HandlersAreAwaited ==
  ASSUME GaugeBounds, GaugesTyped, RunnerWaits, NEW r \in Requests, Gauges!Handler(r)
  PROVE  RunnerWaits'
<1>1. gaugeRunner' = gaugeRunner /\ window' = window /\ window \in Int /\ WindowOf[r] \in Int
  BY GaugeHandlerBasics DEF Gauges!runVars, GaugesTyped, Gauges!TypeOK, GaugeBounds
<1>2. AwaitKept(r)'
  BY <1>1, GaugeHandlerMoves DEF Gauges!Enter, RunnerWaits, AwaitKept, Midway
<1> QED
  BY <1>1, <1>2, GaugeHandlerMoves DEF RunnerWaits, AwaitKept

LEMMA RunnerAwaits ==
  ASSUME GaugeBounds, GaugesTyped, RunnerWaits, Gauges!Run
  PROVE  RunnerWaits'
<1> SUFFICES ASSUME NEW r \in Requests PROVE AwaitKept(r)'
  BY DEF RunnerWaits
<1>1. handlerPc' = handlerPc /\ AwaitKept(r)
  BY GaugeRunBasics DEF Gauges!others, Gauges!apiVars, RunnerWaits
<1>2. CASE Gauges!Await
  <2>1. handlerPc[r] \notin Midway
    BY <1>1, <1>2 DEF Gauges!Await, Gauges!Answered, AwaitKept, Midway
  <2> QED
    BY <1>1, <1>2, <2>1 DEF Gauges!Await, AwaitKept
<1>3. CASE Gauges!Send \/ Gauges!Reads \/ Gauges!ResetPeak
  <2>1. window' = window /\ gaugeRunner # "await"
    BY <1>3, GaugeReadKinds DEF Gauges!Send, Gauges!ResetPeak, Sampled
  <2> QED
    BY <1>1, <2>1 DEF AwaitKept
<1>4. CASE Gauges!Emit
  <2>1. gaugeRunner # "await" /\ window' \in {window, window + 1}
    BY <1>4 DEF Gauges!Emit
  <2>2. window \in Int /\ WindowOf[r] \in Int
    BY DEF GaugesTyped, Gauges!TypeOK, GaugeBounds
  <2> QED
    BY <1>1, <2>1, <2>2 DEF AwaitKept
<1> QED
  BY <1>2, <1>3, <1>4 DEF Gauges!Run

(* So no request is in progress while the runner samples. *)
LEMMA SampleAfterAnswers ==
  ASSUME GaugesTyped, RunnerWaits, gaugeRunner \in Gauges!Sampling
  PROVE  \A r \in Requests : handlerPc[r] \notin Midway
BY DEF RunnerWaits, AwaitKept, Gauges!Sampling

-----------------------------------------------------------------------------
(* The in-flight count and its peak.                                        *)

LEMMA LiveMoves ==
  ASSUME GaugesTyped, NEW r \in Requests, Gauges!Handler(r)
  PROVE  /\ Cardinality(Gauges!Live) \in Nat /\ Cardinality(Gauges!Live') \in Nat
         /\ Gauges!Enter(r) => Cardinality(Gauges!Live') = Cardinality(Gauges!Live) + 1
         /\ Gauges!Leave(r) => Cardinality(Gauges!Live') = Cardinality(Gauges!Live) - 1
         /\ ~Gauges!Enter(r) /\ ~Gauges!Leave(r) =>
              Cardinality(Gauges!Live') = Cardinality(Gauges!Live) /\ UNCHANGED Gauges!gauges
<1> USE DEF Gauges!Live
<1>1. IsFiniteSet(Gauges!Live) /\ IsFiniteSet(Gauges!Live')
  BY ActorsAreFinite
<1>2. \A q : q # r => (q \in Gauges!Live' <=> q \in Gauges!Live)
  BY GaugeHandlerMoves
<1>3. /\ Cardinality(Gauges!Live) \in Nat /\ Cardinality(Gauges!Live') \in Nat
      /\ Cardinality(Gauges!Live') = Cardinality(Gauges!Live) + Indicator(r \in Gauges!Live')
           - Indicator(r \in Gauges!Live)
  BY <1>1, <1>2, OneDiffers
<1>4. Gauges!Enter(r) => r \notin Gauges!Live /\ r \in Gauges!Live'
  BY GaugeHandlerMoves DEF Gauges!Enter, Midway, Gauges!Leave
<1>5. Gauges!Leave(r) => r \in Gauges!Live /\ r \notin Gauges!Live'
  BY GaugeHandlerMoves DEF Gauges!Leave, Midway, Gauges!Enter
<1>6. ~Gauges!Enter(r) /\ ~Gauges!Leave(r) =>
        (r \in Gauges!Live <=> r \in Gauges!Live') /\ UNCHANGED Gauges!gauges
  BY GaugeHandlerMoves DEF Midway
<1> QED
  BY <1>3, <1>4, <1>5, <1>6 DEF Indicator

(* Drift, with the cardinality of the modules of this proof.                *)
Drift ==
  /\ inflight >= Cardinality(Gauges!Live) - lost.up
  /\ inflight <= Cardinality(Gauges!Live) + lost.down

LEMMA HandlerDrift ==
  ASSUME GaugesTyped, Drift, NEW r \in Requests, Gauges!Handler(r)
  PROVE  Drift'
<1>1. inflight \in Nat /\ peak \in Nat /\ lost \in [up : Nat, down : Nat]
  BY DEF GaugesTyped, Gauges!TypeOK
<1>2. CASE Gauges!Enter(r)
  <2>1. \/ inflight' = inflight + 1 /\ lost' = lost
        \/ inflight' = inflight /\ lost' = [lost EXCEPT !.up = @ + 1]
    BY <1>1, <1>2, ScriptCounts DEF Gauges!Enter
  <2> QED
    BY <1>1, <1>2, <2>1, LiveMoves DEF Drift
<1>3. CASE Gauges!Leave(r)
  <2>1. \/ inflight' = (IF inflight >= 1 THEN inflight - 1 ELSE 0) /\ lost' = lost
        \/ inflight' = inflight /\ lost' = [lost EXCEPT !.down = @ + 1]
    BY <1>1, <1>3, ScriptCounts DEF Gauges!Leave
  <2> QED
    BY <1>1, <1>3, <2>1, LiveMoves DEF Drift
<1>4. CASE ~Gauges!Enter(r) /\ ~Gauges!Leave(r)
  BY <1>4, LiveMoves DEF Drift, Gauges!gauges
<1> QED
  BY <1>2, <1>3, <1>4

(* The count, the peak and what has been read of them. *)
SinceReset == IF gaugeRunner \in {"busy", "depth", "oldest", "emit"} THEN row.current
              ELSE lastRow.current
PeakKept ==
  Gauges!Unharmed /\ gaugeRunner # "failed" =>
    /\ inflight <= peak /\ most <= peak
    /\ peak <= most \/ peak <= SinceReset
    /\ gaugeRunner \in {"peak", "reset"} => inflight <= row.current /\ row.current <= peak
    /\ gaugeRunner = "reset" => row.peak = peak

LEMMA HandlerKeepsPeak ==
  ASSUME GaugesTyped, Drift, PeakKept, NEW r \in Requests, Gauges!Handler(r)
  PROVE  PeakKept'
<1>1. /\ inflight \in Nat /\ peak \in Nat /\ most \in Nat /\ lost \in [up : Nat, down : Nat]
      /\ row.current \in Int /\ lastRow.current \in Int
  BY DEF GaugesTyped, Gauges!TypeOK, GaugeRows
<1>2. UNCHANGED <<gaugeRunner, window, row, lastRow>> /\ SinceReset' = SinceReset
  BY GaugeHandlerBasics DEF Gauges!runVars, SinceReset
<1>3. SinceReset \in Int
  BY <1>1 DEF SinceReset
<1> SUFFICES ASSUME Gauges!Unharmed', gaugeRunner # "failed"
             PROVE  PeakKept'
  BY <1>2 DEF PeakKept
<1>4. CASE Gauges!Enter(r)
  <2>1. Gauges!Unharmed
    BY <1>1, <1>4 DEF Gauges!Unharmed, Gauges!Enter
  <2>0. ASSUME lost' = [lost EXCEPT !.up = @ + 1] PROVE FALSE
    <3>1. lost'.up = lost.up + 1 /\ lost.up \in Nat
      BY <1>1, <2>0
    <3>2. lost'.up = 0
      BY DEF Gauges!Unharmed
    <3> QED
      BY <3>1, <3>2
  <2>2. Gauges!InflightScript(1) /\ most' = Gauges!Max({most, Cardinality(Gauges!Live) + 1})
    BY <1>4, <2>0, GaugeCardinality DEF Gauges!Enter
  <2>3. inflight' = inflight + 1 /\ peak' = IF peak >= inflight + 1 THEN peak ELSE inflight + 1
    BY <1>1, <2>2, ScriptCounts
  <2>4. inflight = Cardinality(Gauges!Live)
    BY <1>1, <2>1, GaugeRowTypes DEF Drift, Gauges!Unharmed
  <2>5. most' = IF most >= inflight + 1 THEN most ELSE inflight + 1
    BY <1>1, <2>2, <2>4, GreaterOfTwo
  <2>6. gaugeRunner = "await"
    BY <1>4 DEF Gauges!Enter
  <2> QED
    BY <1>1, <1>2, <1>3, <2>1, <2>3, <2>5, <2>6 DEF PeakKept
<1>5. CASE Gauges!Leave(r)
  <2>1. Gauges!Unharmed
    BY <1>1, <1>5 DEF Gauges!Unharmed, Gauges!Leave
  <2>2. Gauges!InflightScript(-1) /\ most' = most
    BY <1>1, <1>5 DEF Gauges!Unharmed, Gauges!Leave
  <2>3. inflight' <= inflight /\ peak' = IF peak >= inflight' THEN peak ELSE inflight'
    BY <1>1, <2>2, ScriptCounts
  <2>4. inflight' \in Int
    BY <1>1, <2>2, ScriptCounts
  <2>5. peak' = peak
    BY <1>1, <2>1, <2>3, <2>4 DEF PeakKept
  <2> QED
    BY <1>1, <1>2, <1>3, <2>1, <2>2, <2>3, <2>4, <2>5 DEF PeakKept
<1>6. CASE ~Gauges!Enter(r) /\ ~Gauges!Leave(r)
  BY <1>2, <1>6, LiveMoves DEF PeakKept, Gauges!gauges, Gauges!Unharmed
<1> QED
  BY <1>4, <1>5, <1>6

LEMMA RunKeepsPeak ==
  ASSUME GaugesTyped, Drift, PeakKept, Gauges!Run
  PROVE  PeakKept' /\ Drift'
<1>1. /\ inflight \in Nat /\ peak \in Nat /\ most \in Nat /\ lost \in [up : Nat, down : Nat]
      /\ row \in GaugeRows /\ lastRow \in GaugeRows /\ row.current \in Int
      /\ lastRow.current \in Int
  BY DEF GaugesTyped, Gauges!TypeOK, GaugeRows
<1>2. UNCHANGED <<inflight, lost, handlerPc>>
  BY GaugeRunBasics DEF Gauges!others, Gauges!apiVars
<1>3. Drift'
  BY <1>2 DEF Drift, Gauges!Live
<1>4. (Gauges!Unharmed' <=> Gauges!Unharmed)
      /\ (Gauges!Unharmed => inflight = Cardinality(Gauges!Live))
  BY <1>1, <1>2, GaugeRowTypes DEF Drift, Gauges!Unharmed
<1> SUFFICES ASSUME Gauges!Unharmed, gaugeRunner' # "failed"
             PROVE  PeakKept'
  BY <1>3, <1>4 DEF PeakKept
<1>5. CASE Gauges!Reads
  BY <1>1, <1>2, <1>5, GaugeReadKinds
     DEF PeakKept, SinceReset, Sampled, Gauges!gauges, GaugeRows
<1>6. CASE Gauges!Send \/ Gauges!Await
  BY <1>6 DEF PeakKept, SinceReset, Gauges!Send, Gauges!Await, Gauges!gauges
<1>7. CASE Gauges!ResetPeak
  <2>1. gaugeRunner = "reset" /\ gaugeRunner' = "busy" /\ peak' = row.current /\ row' = row
        /\ most' = Cardinality(Gauges!Live)
    BY <1>7, GaugeCardinality DEF Gauges!ResetPeak
  <2> QED
    BY <1>1, <1>2, <1>4, <2>1 DEF PeakKept, SinceReset
<1>8. CASE Gauges!Emit
  BY <1>8 DEF PeakKept, SinceReset, Gauges!Emit, Gauges!gauges
<1> QED
  BY <1>5, <1>6, <1>7, <1>8 DEF Gauges!Run

-----------------------------------------------------------------------------
(* The workers: what each step does to the worker that takes it.            *)

(* The busy mark of a worker whose transaction could not begin stays.       *)
DyingKnown ==
  \A w \in Workers :
    /\ dying[w] = "begin" => takerPc[w] \in {"write", "dead"}
    /\ dying[w] = "commit" => takerPc[w] \in {"free", "write", "dead"}
Marked == {w \in Workers : takerPc[w] \in {"begin", "commit", "free"}}
            \cup {w \in Workers : dying[w] = "begin"}

LEMMA GaugeWorkMoves ==
  ASSUME GaugesTyped, HandsFull, NEW w \in Workers, Gauges!Work(w)
  PROVE  \/ /\ takerPc[w] = "pop" /\ takerPc'[w] \in {"stamp", "dead"}
            /\ UNCHANGED <<dying, gaugeBusy, gaugeSwallowed, gaugeCounters, gaugeTable>>
            /\ \/ gaugeQueue # <<>> /\ Gauges!Take(w)
               \/ takerPc'[w] = "dead" /\ UNCHANGED <<held, gaugeQueue>>
         \/ /\ takerPc[w] = "stamp" /\ takerPc'[w] \in {"residence", "dead"}
            /\ UNCHANGED <<dying, gaugeBusy, gaugeSwallowed, Gauges!store, held>>
         \/ /\ takerPc[w] = "residence" /\ takerPc'[w] = "busy"
            /\ Gauges!Measure("residence_count")
            /\ UNCHANGED <<dying, gaugeBusy, gaugeTable, gaugeQueue, held>>
         \/ /\ takerPc[w] = "busy" /\ takerPc'[w] = "begin"
            /\ \/ gaugeSwallowed' = TRUE
               \/ UNCHANGED gaugeSwallowed /\ gaugeBusy' = gaugeBusy \cup {w}
            /\ UNCHANGED <<dying, Gauges!store, held>>
         \/ /\ takerPc[w] = "begin"
            /\ \/ takerPc'[w] = "commit" /\ UNCHANGED dying
               \/ takerPc'[w] = "write" /\ Gauges!Raises(w, "begin")
            /\ UNCHANGED <<gaugeBusy, gaugeSwallowed, Gauges!store, held>>
         \/ /\ takerPc[w] = "commit" /\ takerPc'[w] = "free"
            /\ \/ gaugeTable' = gaugeTable \cup {held[w]} /\ UNCHANGED dying
               \/ /\ gaugeTable' \in {gaugeTable, gaugeTable \cup {held[w]}}
                  /\ Gauges!Raises(w, "commit")
            /\ UNCHANGED <<gaugeBusy, gaugeSwallowed, gaugeQueue, gaugeCounters, held>>
         \/ /\ takerPc[w] = "free" /\ takerPc'[w] = "write"
            /\ \/ gaugeSwallowed' = TRUE
               \/ UNCHANGED gaugeSwallowed /\ gaugeBusy' = gaugeBusy \ {w}
            /\ UNCHANGED <<dying, Gauges!store, held>>
         \/ /\ takerPc[w] = "write"
            /\ takerPc'[w] = IF dying[w] # "no" THEN "dead" ELSE "count"
            /\ Gauges!Measure("write_count")
            /\ UNCHANGED <<dying, gaugeBusy, gaugeTable, gaugeQueue, held>>
         \/ /\ takerPc[w] = "count" /\ takerPc'[w] = "pop"
            /\ Gauges!Measure("worker_processed")
            /\ held' = [held EXCEPT ![w] = Nobody]
            /\ UNCHANGED <<dying, gaugeBusy, gaugeTable, gaugeQueue>>
<1>0. takerPc \in [Workers -> Gauges!WorkerSteps]
  BY DEF GaugesTyped, Gauges!TypeOK
<1> USE DEF Gauges!WorkerGoto, Gauges!MayApply, Gauges!store
<1>1. CASE Gauges!Pop(w)
  BY <1>0, <1>1 DEF Gauges!Pop
<1>2. CASE Gauges!StampDequeue(w) \/ Gauges!RecordResidence(w) \/ Gauges!Begin(w)
  BY <1>0, <1>2 DEF Gauges!StampDequeue, Gauges!RecordResidence, Gauges!Begin
<1>3. CASE Gauges!SetBusy(w)
  BY <1>0, <1>3 DEF Gauges!SetBusy
<1>4. CASE Gauges!ClearBusy(w)
  BY <1>0, <1>4 DEF Gauges!ClearBusy
<1>5. CASE Gauges!Commit(w)
  BY <1>0, <1>5 DEF Gauges!Commit
<1>6. CASE Gauges!RecordWrite(w) \/ Gauges!CountWork(w)
  BY <1>0, <1>6 DEF Gauges!RecordWrite, Gauges!CountWork
<1> QED
  BY <1>1, <1>2, <1>3, <1>4, <1>5, <1>6 DEF Gauges!Work

LEMMA WorkersDying ==
  ASSUME GaugesTyped, HandsFull, DyingKnown, NEW w \in Workers, Gauges!Work(w)
  PROVE  DyingKnown'
<1>1. dying \in [Workers -> {"no", "begin", "commit"}]
  BY DEF GaugesTyped, Gauges!TypeOK
<1>2. /\ dying'[w] = "begin" => takerPc'[w] \in {"write", "dead"}
      /\ dying'[w] = "commit" => takerPc'[w] \in {"free", "write", "dead"}
  BY <1>1, GaugeWorkMoves DEF DyingKnown, Gauges!Raises
<1> QED
  BY <1>2, GaugeWorkBasics DEF DyingKnown

(* The fields of WORKER_BUSY: the marks, as long as none was lost.          *)
BusyKnown == ~gaugeSwallowed => gaugeBusy = Marked

LEMMA MarksFollow ==
  ASSUME GaugesTyped, HandsFull, DyingKnown, BusyKnown, NEW w \in Workers, Gauges!Work(w)
  PROVE  BusyKnown'
<1>1. /\ dying \in [Workers -> {"no", "begin", "commit"}] /\ gaugeBusy \subseteq Workers
      /\ gaugeSwallowed \in BOOLEAN
  BY DEF GaugesTyped, Gauges!TypeOK
<1> SUFFICES ASSUME ~gaugeSwallowed' PROVE gaugeBusy' = Marked'
  BY DEF BusyKnown
<1>2. gaugeBusy = Marked /\ gaugeSwallowed' # TRUE
  BY GaugeWorkBasics DEF BusyKnown
<1>3. \A v \in Workers : v # w => (v \in Marked' <=> v \in Marked)
  BY GaugeWorkBasics DEF Marked
<1>4. \A v \in Workers : v # w => (v \in gaugeBusy' <=> v \in gaugeBusy)
  <2>1. gaugeBusy' \in {gaugeBusy, gaugeBusy \cup {w}, gaugeBusy \ {w}}
    BY <1>2, GaugeWorkMoves
  <2> QED
    BY <2>1
<1>5. w \in gaugeBusy' <=> w \in Marked'
  BY <1>1, <1>2, GaugeWorkMoves DEF Marked, DyingKnown, Gauges!Raises
<1>6. gaugeBusy' \subseteq Workers /\ Marked' \subseteq Workers
  BY GaugeWorkType DEF GaugesTyped, Gauges!TypeOK, Marked
<1> QED
  BY <1>2, <1>3, <1>4, <1>5, <1>6

-----------------------------------------------------------------------------
(* The items: on the list, in a hand or stored, at one place.               *)

InTransit(w) == takerPc[w] \in {"stamp", "residence", "busy", "begin", "commit"}
GQueued(r) == Occurs(r, gaugeQueue)
GHeld(r) == \E w \in Workers : held[w] = r
Items ==
  /\ Distinct(gaugeQueue)
  /\ \A r \in Requests :
       /\ GQueued(r) => r \notin gaugeTable /\ ~GHeld(r)
       /\ GQueued(r) \/ GHeld(r) \/ r \in gaugeTable => handlerPc[r] \notin {"unsent", "push"}
  /\ \A w, v \in Workers : held[w] = held[v] /\ held[w] # Nobody => w = v
  /\ \A w \in Workers : /\ takerPc[w] = "pop" => held[w] = Nobody
                        /\ InTransit(w) => held[w] \notin gaugeTable

LEMMA HandlerKeepsItems ==
  ASSUME GaugesTyped, Items, NEW r \in Requests, Gauges!Handler(r)
  PROVE  Items'
<1>1. UNCHANGED <<takerPc, held, gaugeTable>>
  BY GaugeHandlerBasics DEF Gauges!workerVars
<1>2. /\ \A q \in Requests : q # r => handlerPc'[q] = handlerPc[q]
      /\ handlerPc[r] # "unsent" => handlerPc'[r] \notin {"unsent", "push"}
  BY GaugeHandlerMoves DEF Midway
<1>3. CASE gaugeQueue' = gaugeQueue
  <2>1. \A q \in Requests : handlerPc[q] \notin {"unsent", "push"} =>
                              handlerPc'[q] \notin {"unsent", "push"}
    BY <1>2
  <2> QED
    BY <1>1, <1>3, <2>1 DEF Items, GQueued, GHeld, InTransit
<1>4. CASE gaugeQueue' = Append(gaugeQueue, r) /\ handlerPc[r] = "push"
  <2>1. ~GQueued(r) /\ ~GHeld(r) /\ r \notin gaugeTable
    BY <1>4 DEF Items
  <2>2. gaugeQueue \in Seq(Requests) /\ Distinct(gaugeQueue) /\ ~Occurs(r, gaugeQueue)
    BY <2>1 DEF GaugesTyped, Gauges!TypeOK, Items, GQueued
  <2>3. Distinct(gaugeQueue') /\ \A x : Occurs(x, gaugeQueue') <=> Occurs(x, gaugeQueue) \/ x = r
    BY <1>4, <2>2, AppendDistinct
  <2>4. ASSUME NEW q \in Requests
        PROVE  /\ GQueued(q)' => q \notin gaugeTable' /\ ~GHeld(q)'
               /\ GQueued(q)' \/ GHeld(q)' \/ q \in gaugeTable' =>
                    handlerPc'[q] \notin {"unsent", "push"}
    BY <1>1, <1>2, <1>4, <2>1, <2>3 DEF Items, GQueued, GHeld
  <2> QED
    BY <1>1, <2>3, <2>4 DEF Items, InTransit
<1>5. CASE Gauges!Push(r)
  BY <1>3, <1>4, <1>5 DEF Gauges!Push, Gauges!MayApply
<1>6. CASE ~Gauges!Push(r)
  <2>1. gaugeQueue' = gaugeQueue
    BY <1>6 DEF Gauges!Handler, Gauges!Enter, Gauges!StampEnqueue, Gauges!RecordEnqueue,
       Gauges!TallyRequest, Gauges!Reply, Gauges!Leave, Gauges!store
  <2> QED
    BY <1>3, <2>1
<1> QED
  BY <1>5, <1>6

LEMMA WorkKeepsItems ==
  ASSUME GaugesTyped, HandsFull, Items, NEW w \in Workers, Gauges!Work(w)
  PROVE  Items'
<1>1. /\ handlerPc' = handlerPc
      /\ \A v \in Workers : v # w => takerPc'[v] = takerPc[v] /\ held'[v] = held[v]
  BY GaugeWorkBasics DEF Gauges!apiVars
<1>2. gaugeQueue \in Seq(Requests) /\ held \in [Workers -> Requests \cup {Nobody}]
  BY DEF GaugesTyped, Gauges!TypeOK
<1>3. CASE gaugeQueue # <<>> /\ Gauges!Take(w) /\ takerPc[w] = "pop" /\ gaugeTable' = gaugeTable
  <2> DEFINE taken == Head(gaugeQueue)
  <2>1. /\ gaugeQueue' = Tail(gaugeQueue) /\ held'[w] = taken /\ taken \in Requests
        /\ Occurs(taken, gaugeQueue) /\ Distinct(gaugeQueue')
        /\ \A x : Occurs(x, gaugeQueue') <=> Occurs(x, gaugeQueue) /\ x # taken
    BY <1>2, <1>3, TailDistinct DEF Items, Gauges!Take
  <2>2. taken \notin gaugeTable /\ ~GHeld(taken) /\ held[w] = Nobody
    BY <1>3, <2>1 DEF Items, GQueued
  <2>3. ASSUME NEW q \in Requests
        PROVE  /\ GQueued(q)' => q \notin gaugeTable' /\ ~GHeld(q)'
               /\ GQueued(q)' \/ GHeld(q)' \/ q \in gaugeTable' =>
                    handlerPc'[q] \notin {"unsent", "push"}
    <3>1. GQueued(q)' => GQueued(q) /\ q # taken
      BY <2>1 DEF GQueued
    <3>2. GHeld(q)' => q = taken \/ GHeld(q)
      BY <1>1, <2>1 DEF GHeld
    <3>3. handlerPc[taken] \notin {"unsent", "push"}
      BY <2>1 DEF Items, GQueued
    <3> QED
      BY <1>1, <1>3, <3>1, <3>2, <3>3 DEF Items
  <2>4. ASSUME NEW v \in Workers, NEW u \in Workers, held'[v] = held'[u], held'[v] # Nobody
        PROVE  v = u
    <3>1. \A x \in Workers : held[x] # taken
      BY <2>2 DEF GHeld
    <3> QED
      BY <1>1, <2>1, <2>4, <3>1 DEF Items
  <2>5. ASSUME NEW v \in Workers
        PROVE  /\ takerPc'[v] = "pop" => held'[v] = Nobody
               /\ InTransit(v)' => held'[v] \notin gaugeTable'
    <3>1. takerPc'[w] # "pop"
      BY <1>3, GaugeWorkMoves
    <3> QED
      BY <1>1, <1>3, <2>1, <2>2, <3>1 DEF Items, InTransit
  <2> QED
    BY <2>1, <2>3, <2>4, <2>5 DEF Items
<1>4. CASE /\ gaugeQueue' = gaugeQueue /\ gaugeTable' = gaugeTable /\ held'[w] \in {held[w], Nobody}
           /\ takerPc'[w] = "pop" => held'[w] = Nobody
           /\ InTransit(w)' => InTransit(w) /\ held'[w] = held[w]
  <2>1. \A q \in Requests : (GQueued(q)' <=> GQueued(q)) /\ (GHeld(q)' => GHeld(q))
    <3>1. \A q \in Requests : q # Nobody
      BY MatrixNames
    <3> QED
      BY <1>1, <1>4, <3>1 DEF GQueued, GHeld
  <2>2. ASSUME NEW v \in Workers, NEW u \in Workers, held'[v] = held'[u], held'[v] # Nobody
        PROVE  v = u
    <3>1. held'[v] = held[v] /\ held'[u] = held[u]
      BY <1>1, <1>4, <2>2
    <3> QED
      BY <2>2, <3>1 DEF Items
  <2>3. ASSUME NEW v \in Workers
        PROVE  /\ takerPc'[v] = "pop" => held'[v] = Nobody
               /\ InTransit(v)' => held'[v] \notin gaugeTable'
    BY <1>1, <1>4 DEF Items, InTransit
  <2> QED
    BY <1>1, <1>4, <2>1, <2>2, <2>3 DEF Items
<1>5. CASE /\ gaugeQueue' = gaugeQueue /\ held' = held /\ takerPc[w] = "commit"
           /\ takerPc'[w] = "free" /\ gaugeTable' \in {gaugeTable, gaugeTable \cup {held[w]}}
  <2>1. held[w] \in Requests /\ held[w] # Nobody
    BY <1>5, MatrixNames DEF HandsFull
  <2>2. ASSUME NEW q \in Requests
        PROVE  /\ GQueued(q)' => q \notin gaugeTable' /\ ~GHeld(q)'
               /\ GQueued(q)' \/ GHeld(q)' \/ q \in gaugeTable' =>
                    handlerPc'[q] \notin {"unsent", "push"}
    <3>1. (GQueued(q)' <=> GQueued(q)) /\ (GHeld(q)' <=> GHeld(q)) /\ GHeld(held[w])
      BY <1>5, <2>1 DEF GQueued, GHeld
    <3>2. q \in gaugeTable' => q \in gaugeTable \/ q = held[w]
      BY <1>5
    <3> QED
      BY <1>1, <3>1, <3>2 DEF Items
  <2>3. ASSUME NEW v \in Workers
        PROVE  /\ takerPc'[v] = "pop" => held'[v] = Nobody
               /\ InTransit(v)' => held'[v] \notin gaugeTable'
    <3>1. v # w => held[v] # held[w]
      BY <2>1 DEF Items
    <3> QED
      BY <1>1, <1>5, <3>1 DEF Items, InTransit
  <2> QED
    BY <1>5, <2>2, <2>3 DEF Items
<1>6. /\ takerPc[w] = "pop" /\ takerPc'[w] = "dead" /\ UNCHANGED <<held, gaugeQueue, gaugeTable>>
      => Items'
  BY <1>4 DEF InTransit
<1>7. CASE takerPc[w] \in {"stamp", "residence", "busy", "begin", "free", "write"}
  <2>1. /\ UNCHANGED <<gaugeQueue, gaugeTable, held>> /\ takerPc'[w] # "pop"
        /\ InTransit(w)' => InTransit(w)
    BY <1>7, GaugeWorkMoves DEF Gauges!store, InTransit
  <2> QED
    BY <1>4, <2>1
<1>8. CASE takerPc[w] = "count"
  BY <1>2, <1>4, <1>8, GaugeWorkMoves DEF InTransit
<1>9. CASE takerPc[w] = "commit"
  BY <1>5, <1>9, GaugeWorkMoves
<1>10. CASE takerPc[w] = "pop"
  BY <1>3, <1>6, <1>10, GaugeWorkMoves
<1> QED
  BY <1>7, <1>8, <1>9, <1>10, GaugeWorkMoves

-----------------------------------------------------------------------------
(* The counters, the rows and the list: each trails what it follows by the  *)
(* workers in between.                                                      *)

HandedOver == {r \in Requests : handlerPc[r] \notin {"unsent", "push"}}
Transit == {w \in Workers : InTransit(w)}
Earned == {w \in Workers : takerPc[w] \in {"free", "write", "count"} /\ dying[w] = "no"}
Between == {w \in Workers : takerPc[w] \in {"busy", "begin", "commit", "free", "write"}}
Paying == {w \in Workers : takerPc[w] = "count"}

ItemLadder ==
  Cardinality(gaugeTable) + Len(gaugeQueue) + Cardinality(Transit) <= Cardinality(HandedOver)
WorkLadder ==
  gaugeCounters["worker_processed"] + Cardinality(Earned) <= Cardinality(gaugeTable)
CounterLadder ==
  /\ gaugeCounters["worker_processed"] + Cardinality(Paying) <= gaugeCounters["write_count"]
  /\ gaugeCounters["write_count"] + Cardinality(Between) <= gaugeCounters["residence_count"]
Ladders == ItemLadder /\ WorkLadder /\ (~gaugeSwallowed => CounterLadder)

LEMMA LadderTypes ==
  ASSUME GaugesTyped
  PROVE  /\ Cardinality(gaugeTable) \in Nat /\ Len(gaugeQueue) \in Nat
         /\ Cardinality(Transit) \in Nat /\ Cardinality(HandedOver) \in Nat
         /\ Cardinality(Earned) \in Nat /\ Cardinality(Between) \in Nat
         /\ Cardinality(Paying) \in Nat
         /\ gaugeCounters["worker_processed"] \in Nat /\ gaugeCounters["write_count"] \in Nat
         /\ gaugeCounters["residence_count"] \in Nat
<1>1. /\ HandedOver \in SUBSET Requests /\ Transit \in SUBSET Workers
      /\ Earned \in SUBSET Workers /\ Between \in SUBSET Workers /\ Paying \in SUBSET Workers
  BY DEF HandedOver, Transit, Earned, Between, Paying
<1> QED
  BY <1>1, ActorsAreFinite, GaugeRowTypes DEF GaugesTyped, Gauges!TypeOK, Gauges!CounterNames

LEMMA HandlerKeepsLadders ==
  ASSUME GaugesTyped, Ladders, NEW r \in Requests, Gauges!Handler(r)
  PROVE  Ladders'
<1>0. GaugesTyped'
  BY GaugeHandlerType
<1>1. /\ gaugeTable' = gaugeTable /\ Transit' = Transit /\ Earned' = Earned
      /\ Between' = Between /\ Paying' = Paying
  BY GaugeHandlerBasics
     DEF Gauges!workerVars, Transit, Earned, Between, Paying, InTransit
<1>2. WorkLadder'
  BY <1>1, GaugeHandlerBasics DEF Ladders, WorkLadder
<1>3. ~gaugeSwallowed' => CounterLadder'
  <2>1. ~gaugeSwallowed' => CounterLadder
    BY GaugeHandlerBasics DEF Ladders
  <2>2. CounterLadder => CounterLadder'
    BY <1>1, GaugeHandlerBasics DEF CounterLadder
  <2> QED
    BY <2>1, <2>2
<1>4. ItemLadder'
  <2>1. /\ IsFiniteSet(HandedOver) /\ IsFiniteSet(HandedOver')
        /\ \A q : q # r => (q \in HandedOver' <=> q \in HandedOver)
    BY GaugeHandlerMoves, ActorsAreFinite DEF HandedOver
  <2>2. Cardinality(HandedOver') = Cardinality(HandedOver) + Indicator(r \in HandedOver')
          - Indicator(r \in HandedOver)
    BY <2>1, OneDiffers
  <2>3. CASE Gauges!Push(r)
    <3>1. handlerPc[r] = "push" /\ handlerPc'[r] \in (Midway \ {"push"}) \cup {"leave"}
      BY <2>3, GaugeHandlerMoves DEF Gauges!Push
    <3>2. r \notin HandedOver /\ r \in HandedOver'
      BY <3>1 DEF HandedOver, Midway
    <3>3. gaugeQueue' \in {gaugeQueue, Append(gaugeQueue, r)}
      BY <2>3 DEF Gauges!Push, Gauges!MayApply
    <3>4. Len(gaugeQueue') <= Len(gaugeQueue) + 1
      BY <3>3, LadderTypes DEF GaugesTyped, Gauges!TypeOK
    <3>5. Cardinality(HandedOver') = Cardinality(HandedOver) + 1
      BY <2>2, <3>2, LadderTypes DEF Indicator
    <3>6. Len(gaugeQueue') \in Nat
      BY <1>0 DEF GaugesTyped, Gauges!TypeOK
    <3> QED
      BY <1>1, <3>4, <3>5, <3>6, LadderTypes DEF Ladders, ItemLadder
  <2>4. CASE ~Gauges!Push(r)
    <3>1. gaugeQueue' = gaugeQueue
      BY <2>4 DEF Gauges!Handler, Gauges!Enter, Gauges!StampEnqueue, Gauges!RecordEnqueue,
         Gauges!TallyRequest, Gauges!Reply, Gauges!Leave, Gauges!store
    <3>2. r \in HandedOver <=> r \in HandedOver'
      <4>1. handlerPc[r] # "push"
        BY <2>4 DEF Gauges!Handler, Gauges!Enter, Gauges!StampEnqueue, Gauges!RecordEnqueue,
           Gauges!TallyRequest, Gauges!Reply, Gauges!Leave
      <4> QED
        BY <4>1, GaugeHandlerMoves DEF HandedOver, Midway
    <3> QED
      BY <1>1, <2>2, <3>1, <3>2, LadderTypes DEF Ladders, ItemLadder, Indicator
  <2> QED
    BY <2>3, <2>4
<1> QED
  BY <1>2, <1>3, <1>4 DEF Ladders

(* What one worker contributes to each count. *)
LEMMA OneWorkerCounts ==
  ASSUME GaugesTyped, NEW w \in Workers, Gauges!Work(w)
  PROVE  /\ Cardinality(Transit') = Cardinality(Transit) + Indicator(w \in Transit')
              - Indicator(w \in Transit)
         /\ Cardinality(Earned') = Cardinality(Earned) + Indicator(w \in Earned')
              - Indicator(w \in Earned)
         /\ Cardinality(Between') = Cardinality(Between) + Indicator(w \in Between')
              - Indicator(w \in Between)
         /\ Cardinality(Paying') = Cardinality(Paying) + Indicator(w \in Paying')
              - Indicator(w \in Paying)
<1>1. \A v : v # w => /\ v \in Transit' <=> v \in Transit
                      /\ v \in Earned' <=> v \in Earned
                      /\ v \in Between' <=> v \in Between
                      /\ v \in Paying' <=> v \in Paying
  BY GaugeWorkBasics DEF Transit, Earned, Between, Paying, InTransit
<1>2. /\ IsFiniteSet(Transit) /\ IsFiniteSet(Transit')
      /\ IsFiniteSet(Earned) /\ IsFiniteSet(Earned')
      /\ IsFiniteSet(Between) /\ IsFiniteSet(Between')
      /\ IsFiniteSet(Paying) /\ IsFiniteSet(Paying')
  <2>1. /\ Transit \subseteq Workers /\ Transit' \subseteq Workers
        /\ Earned \subseteq Workers /\ Earned' \subseteq Workers
        /\ Between \subseteq Workers /\ Between' \subseteq Workers
        /\ Paying \subseteq Workers /\ Paying' \subseteq Workers
    BY DEF Transit, Earned, Between, Paying
  <2> QED
    BY <2>1, ActorsAreFinite
<1> QED
  BY <1>1, <1>2, OneDiffers

LEMMA WorkKeepsLadders ==
  ASSUME GaugesTyped, HandsFull, DyingKnown, Items, Ladders, NEW w \in Workers, Gauges!Work(w)
  PROVE  Ladders'
<1>0. takerPc \in [Workers -> Gauges!WorkerSteps]
      /\ dying \in [Workers -> {"no", "begin", "commit"}] /\ gaugeQueue \in Seq(Requests)
  BY DEF GaugesTyped, Gauges!TypeOK
<1>t. HandedOver' = HandedOver /\ Cardinality(HandedOver) \in Nat
  BY GaugeWorkBasics, LadderTypes DEF Gauges!apiVars, HandedOver
<1> DEFINE processed == gaugeCounters["worker_processed"]
           written == gaugeCounters["write_count"]
           resided == gaugeCounters["residence_count"]
           Goal == /\ ItemLadder' /\ WorkLadder'
                   /\ ~gaugeSwallowed' /\ CounterLadder => CounterLadder'
<1>l. ItemLadder /\ WorkLadder
  BY DEF Ladders
<1>1. ASSUME takerPc[w] = "pop" PROVE Goal
  <2>1. gaugeTable' = gaugeTable /\ gaugeCounters' = gaugeCounters
    BY <1>1, GaugeWorkMoves
  <2>2. \/ gaugeQueue' = Tail(gaugeQueue) /\ gaugeQueue # <<>>
        \/ gaugeQueue' = gaugeQueue /\ takerPc'[w] = "dead"
    BY <1>1, GaugeWorkMoves DEF Gauges!Take
  <2>3. \/ Len(gaugeQueue') = Len(gaugeQueue) - 1
        \/ gaugeQueue' = gaugeQueue /\ w \notin Transit'
    BY <1>0, <2>2 DEF Transit, InTransit
  <2>4. /\ w \notin Transit /\ w \notin Earned' /\ w \notin Between' /\ w \notin Paying'
        /\ w \notin Earned /\ w \notin Between /\ w \notin Paying
    BY <1>1, GaugeWorkMoves DEF Transit, InTransit, Earned, Between, Paying
  <2>5. /\ Cardinality(Earned') = Cardinality(Earned) /\ Cardinality(Paying') = Cardinality(Paying)
        /\ Cardinality(Between') = Cardinality(Between)
    BY <2>4, LadderTypes, OneWorkerCounts DEF Indicator
  <2>6. \/ Cardinality(Transit') = Cardinality(Transit)
        \/ Cardinality(Transit') = Cardinality(Transit) + 1 /\ w \in Transit'
    BY <2>4, LadderTypes, OneWorkerCounts DEF Indicator
  <2>7. Len(gaugeQueue') + Cardinality(Transit') <= Len(gaugeQueue) + Cardinality(Transit)
    BY <2>3, <2>6, LadderTypes
  <2>8. ItemLadder' /\ WorkLadder'
    <3>1. Len(gaugeQueue') \in Int /\ Cardinality(Transit') \in Int
      BY <2>3, <2>6, LadderTypes
    <3> QED
      BY <1>t, <1>l, <2>1, <2>5, <2>7, <3>1, LadderTypes DEF ItemLadder, WorkLadder
  <2>9. CounterLadder => CounterLadder'
    BY <2>1, <2>5 DEF CounterLadder
  <2> QED
    BY <2>8, <2>9
<1>2. ASSUME takerPc[w] = "stamp" PROVE Goal
  <2>1. UNCHANGED <<gaugeCounters, gaugeQueue, gaugeTable, held>>
    BY <1>2, GaugeWorkMoves DEF Gauges!store
  <2>4. /\ w \in Transit /\ w \notin Earned' /\ w \notin Between' /\ w \notin Paying'
        /\ w \notin Earned /\ w \notin Between /\ w \notin Paying
    BY <1>2, <2>1, GaugeWorkMoves DEF Transit, InTransit, Earned, Between, Paying
  <2>5. /\ Cardinality(Transit') <= Cardinality(Transit) /\ Cardinality(Transit') \in Int
        /\ Cardinality(Earned') = Cardinality(Earned)
        /\ Cardinality(Between') = Cardinality(Between)
        /\ Cardinality(Paying') = Cardinality(Paying)
    BY <2>4, LadderTypes, OneWorkerCounts DEF Indicator
  <2>7. ItemLadder'
    BY <1>t, <1>l, <2>1, <2>5, LadderTypes DEF ItemLadder
  <2>8. WorkLadder'
    BY <1>l, <2>1, <2>5, LadderTypes DEF WorkLadder
  <2>9. ~gaugeSwallowed' /\ CounterLadder => CounterLadder'
    BY <2>1, <2>5, LadderTypes DEF CounterLadder
  <2> QED
    BY <2>7, <2>8, <2>9
<1>3. ASSUME takerPc[w] = "residence" PROVE Goal
  <2>0. /\ Gauges!Measure("residence_count") /\ UNCHANGED <<gaugeQueue, gaugeTable, dying>>
        /\ {"worker_processed", "write_count", "residence_count"} \subseteq Gauges!CounterNames
    BY <1>3, GaugeWorkMoves DEF Gauges!CounterNames
  <2>1. UNCHANGED <<gaugeQueue, gaugeTable, dying>>
    BY <2>0
  <2>2. /\ gaugeCounters'["worker_processed"] = processed
        /\ gaugeCounters'["write_count"] = written
        /\ \/ gaugeCounters'["residence_count"] = resided
           \/ gaugeCounters'["residence_count"] = resided + 1
        /\ ~gaugeSwallowed' => ~(gaugeCounters'["residence_count"] < resided + 1)
    BY <2>0, MeasureCounts
  <2>4. /\ w \in Transit /\ w \in Transit' /\ w \notin Earned' /\ w \in Between' /\ w \notin Paying'
        /\ w \notin Earned /\ w \notin Between /\ w \notin Paying
    BY <1>3, <2>1, GaugeWorkMoves DEF Transit, InTransit, Earned, Between, Paying
  <2>5. /\ Cardinality(Transit') = Cardinality(Transit)
        /\ Cardinality(Earned') = Cardinality(Earned)
        /\ Cardinality(Between') = Cardinality(Between) + 1
        /\ Cardinality(Paying') = Cardinality(Paying)
    BY <2>4, LadderTypes, OneWorkerCounts DEF Indicator
  <2>7. ItemLadder'
    BY <1>t, <1>l, <2>1, <2>2, <2>5, LadderTypes DEF ItemLadder
  <2>8. WorkLadder'
    BY <1>l, <2>1, <2>2, <2>5, LadderTypes DEF WorkLadder
  <2>9. ~gaugeSwallowed' /\ CounterLadder => CounterLadder'
    BY <2>1, <2>2, <2>5, LadderTypes DEF CounterLadder
  <2> QED
    BY <2>7, <2>8, <2>9
<1>4. ASSUME takerPc[w] = "busy" PROVE Goal
  <2>1. UNCHANGED <<gaugeCounters, gaugeQueue, gaugeTable, held>>
    BY <1>4, GaugeWorkMoves DEF Gauges!store
  <2>4. /\ w \in Transit /\ w \in Transit' /\ w \notin Earned' /\ w \in Between' /\ w \notin Paying'
        /\ w \notin Earned /\ w \in Between /\ w \notin Paying
    BY <1>4, <2>1, GaugeWorkMoves DEF Transit, InTransit, Earned, Between, Paying
  <2>5. /\ Cardinality(Transit') = Cardinality(Transit)
        /\ Cardinality(Earned') = Cardinality(Earned)
        /\ Cardinality(Between') = Cardinality(Between)
        /\ Cardinality(Paying') = Cardinality(Paying)
    BY <2>4, LadderTypes, OneWorkerCounts DEF Indicator
  <2>7. ItemLadder'
    BY <1>t, <1>l, <2>1, <2>5, LadderTypes DEF ItemLadder
  <2>8. WorkLadder'
    BY <1>l, <2>1, <2>5, LadderTypes DEF WorkLadder
  <2>9. ~gaugeSwallowed' /\ CounterLadder => CounterLadder'
    BY <2>1, <2>5, LadderTypes DEF CounterLadder
  <2> QED
    BY <2>7, <2>8, <2>9
<1>5. ASSUME takerPc[w] = "begin" PROVE Goal
  <2>1. UNCHANGED <<gaugeCounters, gaugeQueue, gaugeTable, held>>
    BY <1>5, GaugeWorkMoves DEF Gauges!store
  <2>2. takerPc'[w] = "commit" \/ (takerPc'[w] = "write" /\ dying'[w] = "begin")
    BY <1>0, <1>5, GaugeWorkMoves DEF Gauges!Raises
  <2>4. /\ w \in Transit /\ w \notin Earned' /\ w \in Between' /\ w \notin Paying'
        /\ w \notin Earned /\ w \in Between /\ w \notin Paying
    BY <1>5, <2>2 DEF Transit, InTransit, Earned, Between, Paying
  <2>5. /\ Cardinality(Transit') <= Cardinality(Transit) /\ Cardinality(Transit') \in Int
        /\ Cardinality(Earned') = Cardinality(Earned)
        /\ Cardinality(Between') = Cardinality(Between)
        /\ Cardinality(Paying') = Cardinality(Paying)
    BY <2>4, LadderTypes, OneWorkerCounts DEF Indicator
  <2>7. ItemLadder'
    BY <1>t, <1>l, <2>1, <2>5, LadderTypes DEF ItemLadder
  <2>8. WorkLadder'
    BY <1>l, <2>1, <2>5, LadderTypes DEF WorkLadder
  <2>9. ~gaugeSwallowed' /\ CounterLadder => CounterLadder'
    BY <2>1, <2>5, LadderTypes DEF CounterLadder
  <2> QED
    BY <2>7, <2>8, <2>9
<1>6. ASSUME takerPc[w] = "commit" PROVE Goal
  <2>1. UNCHANGED <<gaugeCounters, gaugeQueue>>
    BY <1>6, GaugeWorkMoves
  <2>2. held[w] \in Requests /\ held[w] \notin gaugeTable
    BY <1>6 DEF HandsFull, Items, InTransit
  <2>3. Cardinality(gaugeTable \cup {held[w]}) = Cardinality(gaugeTable) + 1
    <3>1. IsFiniteSet(gaugeTable)
      BY ActorsAreFinite DEF GaugesTyped, Gauges!TypeOK
    <3> QED
      BY <2>2, <3>1, FS_AddElement
  <2>4. \/ Cardinality(gaugeTable') = Cardinality(gaugeTable) + 1
        \/ /\ \/ Cardinality(gaugeTable') = Cardinality(gaugeTable)
              \/ Cardinality(gaugeTable') = Cardinality(gaugeTable) + 1
           /\ dying'[w] = "commit"
    BY <1>0, <1>6, <2>3, GaugeWorkMoves DEF Gauges!Raises
  <2>5. /\ w \in Transit /\ w \notin Transit' /\ w \in Between' /\ w \notin Paying'
        /\ w \notin Earned /\ w \in Between /\ w \notin Paying
        /\ dying'[w] = "commit" => w \notin Earned'
    BY <1>6, GaugeWorkMoves DEF Transit, InTransit, Earned, Between, Paying
  <2>6. /\ Cardinality(Transit') = Cardinality(Transit) - 1
        /\ \/ Cardinality(Earned') = Cardinality(Earned)
           \/ Cardinality(Earned') = Cardinality(Earned) + 1
        /\ dying'[w] = "commit" => Cardinality(Earned') = Cardinality(Earned)
        /\ Cardinality(Between') = Cardinality(Between)
        /\ Cardinality(Paying') = Cardinality(Paying)
    BY <2>5, LadderTypes, OneWorkerCounts DEF Indicator
  <2>7. ItemLadder'
    BY <1>t, <1>l, <2>1, <2>4, <2>6, LadderTypes DEF ItemLadder
  <2>8. WorkLadder'
    BY <1>l, <2>1, <2>4, <2>6, LadderTypes DEF WorkLadder
  <2>9. ~gaugeSwallowed' /\ CounterLadder => CounterLadder'
    BY <2>1, <2>4, <2>6, LadderTypes DEF CounterLadder
  <2> QED
    BY <2>7, <2>8, <2>9
<1>7. ASSUME takerPc[w] = "free" PROVE Goal
  <2>1. UNCHANGED <<gaugeCounters, gaugeQueue, gaugeTable, dying>>
    BY <1>7, GaugeWorkMoves DEF Gauges!store
  <2>4. /\ w \notin Transit /\ w \notin Transit' /\ w \in Between' /\ w \notin Paying'
        /\ w \in Between /\ w \notin Paying /\ (w \in Earned <=> w \in Earned')
    BY <1>7, <2>1, GaugeWorkMoves DEF Transit, InTransit, Earned, Between, Paying
  <2>5. /\ Cardinality(Transit') = Cardinality(Transit)
        /\ Cardinality(Earned') = Cardinality(Earned)
        /\ Cardinality(Between') = Cardinality(Between)
        /\ Cardinality(Paying') = Cardinality(Paying)
    BY <2>4, LadderTypes, OneWorkerCounts DEF Indicator
  <2>7. ItemLadder'
    BY <1>t, <1>l, <2>1, <2>5, LadderTypes DEF ItemLadder
  <2>8. WorkLadder'
    BY <1>l, <2>1, <2>5, LadderTypes DEF WorkLadder
  <2>9. ~gaugeSwallowed' /\ CounterLadder => CounterLadder'
    BY <2>1, <2>5, LadderTypes DEF CounterLadder
  <2> QED
    BY <2>7, <2>8, <2>9
<1>8. ASSUME takerPc[w] = "write" PROVE Goal
  <2>0. /\ Gauges!Measure("write_count") /\ UNCHANGED <<gaugeQueue, gaugeTable, dying>>
        /\ {"worker_processed", "residence_count", "write_count"} \subseteq Gauges!CounterNames
    BY <1>8, GaugeWorkMoves DEF Gauges!CounterNames
  <2>1. UNCHANGED <<gaugeQueue, gaugeTable, dying>>
    BY <2>0
  <2>2. /\ gaugeCounters'["worker_processed"] = processed
        /\ gaugeCounters'["residence_count"] = resided
        /\ \/ gaugeCounters'["write_count"] = written
           \/ gaugeCounters'["write_count"] = written + 1
        /\ ~gaugeSwallowed' => ~(gaugeCounters'["write_count"] < written + 1)
    BY <2>0, MeasureCounts
  <2>4. /\ w \notin Transit /\ w \notin Transit' /\ w \notin Between' /\ w \notin Paying
        /\ w \in Between /\ (w \in Earned' => w \in Earned)
    BY <1>8, <2>1, GaugeWorkMoves DEF Transit, InTransit, Earned, Between, Paying
  <2>5. /\ Cardinality(Transit') = Cardinality(Transit)
        /\ Cardinality(Earned') <= Cardinality(Earned) /\ Cardinality(Earned') \in Int
        /\ Cardinality(Between') = Cardinality(Between) - 1
        /\ \/ Cardinality(Paying') = Cardinality(Paying)
           \/ Cardinality(Paying') = Cardinality(Paying) + 1
    <3>1. Indicator(w \in Transit) = 0 /\ Indicator(w \in Transit') = 0
          /\ Indicator(w \in Between) = 1 /\ Indicator(w \in Between') = 0
          /\ Indicator(w \in Paying) = 0 /\ Indicator(w \in Paying') \in {0, 1}
      BY <2>4 DEF Indicator
    <3>2. /\ Indicator(w \in Earned) \in Int /\ Indicator(w \in Earned') \in Int
          /\ Indicator(w \in Earned') <= Indicator(w \in Earned)
      BY <2>4 DEF Indicator
    <3>3. Cardinality(Earned') <= Cardinality(Earned) /\ Cardinality(Earned') \in Int
      BY <3>2, LadderTypes, OneWorkerCounts
    <3> QED
      BY <3>1, <3>3, LadderTypes, OneWorkerCounts
  <2>7. ItemLadder'
    BY <1>t, <1>l, <2>1, <2>2, <2>5, LadderTypes DEF ItemLadder
  <2>8. WorkLadder'
    BY <1>l, <2>1, <2>2, <2>5, LadderTypes DEF WorkLadder
  <2>9. ASSUME ~gaugeSwallowed', CounterLadder PROVE CounterLadder'
    <3>1. ~(gaugeCounters'["write_count"] < written + 1)
      BY <2>2, <2>9
    <3>2. gaugeCounters'["write_count"] = written + 1
      BY <2>2, <3>1, LadderTypes
    <3>3. /\ processed + Cardinality(Paying) <= written
          /\ written + Cardinality(Between) <= resided
      BY <2>9 DEF CounterLadder
    <3>4. processed + Cardinality(Paying') <= written + 1
      <4>1. processed \in Nat /\ written \in Nat /\ Cardinality(Paying) \in Nat
        BY LadderTypes
      <4>2. CASE Cardinality(Paying') = Cardinality(Paying)
        BY <3>3, <4>1, <4>2
      <4>3. CASE Cardinality(Paying') = Cardinality(Paying) + 1
        BY <3>3, <4>1, <4>3
      <4> QED
        BY <2>5, <4>2, <4>3
    <3>5. written + 1 + Cardinality(Between') <= resided
      BY <2>5, <3>3, LadderTypes
    <3> QED
      BY <2>2, <3>2, <3>4, <3>5 DEF CounterLadder
  <2> QED
    BY <2>7, <2>8, <2>9
<1>9. ASSUME takerPc[w] = "count" PROVE Goal
  <2>0. /\ Gauges!Measure("worker_processed") /\ UNCHANGED <<gaugeQueue, gaugeTable, dying>>
        /\ {"write_count", "residence_count", "worker_processed"} \subseteq Gauges!CounterNames
    BY <1>9, GaugeWorkMoves DEF Gauges!CounterNames
  <2>1. UNCHANGED <<gaugeQueue, gaugeTable, dying>>
    BY <2>0
  <2>2. /\ gaugeCounters'["write_count"] = written
        /\ gaugeCounters'["residence_count"] = resided
        /\ \/ gaugeCounters'["worker_processed"] = processed
           \/ gaugeCounters'["worker_processed"] = processed + 1
        /\ ~gaugeSwallowed' => ~(gaugeCounters'["worker_processed"] < processed + 1)
    BY <2>0, MeasureCounts
  <2>3. dying[w] = "no"
    BY <1>0, <1>9 DEF DyingKnown
  <2>4. /\ w \notin Transit /\ w \notin Transit' /\ w \notin Between' /\ w \in Paying
        /\ w \notin Between /\ w \in Earned /\ w \notin Earned' /\ w \notin Paying'
    BY <1>9, <2>1, <2>3, GaugeWorkMoves DEF Transit, InTransit, Earned, Between, Paying
  <2>5. /\ Cardinality(Transit') = Cardinality(Transit)
        /\ Cardinality(Earned') = Cardinality(Earned) - 1
        /\ Cardinality(Between') = Cardinality(Between)
        /\ Cardinality(Paying') = Cardinality(Paying) - 1
    BY <2>4, LadderTypes, OneWorkerCounts DEF Indicator
  <2>7. ItemLadder'
    BY <1>t, <1>l, <2>1, <2>2, <2>5, LadderTypes DEF ItemLadder
  <2>8. WorkLadder'
    BY <1>l, <2>1, <2>2, <2>5, LadderTypes DEF WorkLadder
  <2>9. ~gaugeSwallowed' /\ CounterLadder => CounterLadder'
    BY <2>1, <2>2, <2>5, LadderTypes DEF CounterLadder
  <2> QED
    BY <2>7, <2>8, <2>9
<1>10. Goal
  BY <1>1, <1>2, <1>3, <1>4, <1>5, <1>6, <1>7, <1>8, <1>9, GaugeWorkMoves
<1>11. ~gaugeSwallowed' => CounterLadder
  BY GaugeWorkBasics DEF Ladders
<1> QED
  BY <1>10, <1>11 DEF Ladders

-----------------------------------------------------------------------------
(* A row: what has been read of it, and what may have changed since.        *)

SentSoFar == {r \in Requests : WindowOf[r] <= window}
RowFits ==
  /\ gaugeRunner = "rows" => row.counters["worker_processed"] <= Cardinality(gaugeTable)
  /\ gaugeRunner \in {"current", "peak", "reset", "busy", "depth", "oldest", "emit"} =>
       row.counters["worker_processed"] <= row.rows
  /\ gaugeRunner \in {"current", "peak", "reset", "busy", "depth"} =>
       row.rows <= Cardinality(gaugeTable)
  /\ gaugeRunner \in {"oldest", "emit"} => row.rows + row.depth <= Cardinality(SentSoFar)
  /\ gaugeRunner = "oldest" /\ row.depth = 0 => gaugeQueue = <<>>
  /\ gaugeRunner = "emit" /\ row.depth = 0 => row.oldest = 0

LEMMA RowTypes ==
  ASSUME GaugesTyped
  PROVE  /\ row.counters["worker_processed"] \in Nat /\ row.rows \in Nat /\ row.depth \in Int
         /\ row.current \in Int /\ row.oldest \in Int /\ row \in GaugeRows
         /\ gaugeCounters["worker_processed"] \in Nat
BY DEF GaugesTyped, Gauges!TypeOK, GaugeRows, Gauges!CounterNames

LEMMA HandlersLeaveRows ==
  ASSUME GaugesTyped, RunnerWaits, RowFits, NEW r \in Requests, Gauges!Handler(r)
  PROVE  RowFits'
<1>1. UNCHANGED <<gaugeRunner, window, row, gaugeTable>>
  BY GaugeHandlerBasics DEF Gauges!runVars
<1>2. gaugeRunner = "oldest" => gaugeQueue' = gaugeQueue
  <2>1. gaugeRunner = "oldest" => handlerPc[r] # "push"
    BY DEF RunnerWaits, AwaitKept, Midway
  <2>2. handlerPc[r] # "push" => gaugeQueue' = gaugeQueue
    BY DEF Gauges!Handler, Gauges!Enter, Gauges!StampEnqueue, Gauges!RecordEnqueue,
       Gauges!TallyRequest, Gauges!Reply, Gauges!Leave, Gauges!Push, Gauges!store
  <2> QED
    BY <2>1, <2>2
<1> QED
  BY <1>1, <1>2 DEF RowFits, SentSoFar

LEMMA WorkersKeepRows ==
  ASSUME GaugesTyped, HandsFull, RowFits, NEW w \in Workers, Gauges!Work(w)
  PROVE  RowFits'
<1>1. UNCHANGED <<gaugeRunner, window, row>>
  BY GaugeWorkBasics DEF Gauges!runVars
<1>2. gaugeQueue = <<>> => gaugeQueue' = gaugeQueue
  BY GaugeWorkMoves DEF Gauges!store
<1>3. Cardinality(gaugeTable) <= Cardinality(gaugeTable') /\ Cardinality(gaugeTable') \in Nat
  <2>1. gaugeTable \subseteq gaugeTable'
    BY GaugeWorkMoves DEF Gauges!store
  <2>2. gaugeTable' \subseteq Requests
    BY GaugeWorkType DEF GaugesTyped, Gauges!TypeOK
  <2>3. IsFiniteSet(gaugeTable') /\ Cardinality(gaugeTable') \in Nat
    BY <2>2, ActorsAreFinite
  <2> QED
    BY <2>1, <2>3, FS_Subset
<1>4. SentSoFar' = SentSoFar
  BY <1>1 DEF SentSoFar
<1>5. /\ gaugeRunner = "rows" => row.counters["worker_processed"] <= Cardinality(gaugeTable')
      /\ gaugeRunner \in {"current", "peak", "reset", "busy", "depth"} =>
           row.rows <= Cardinality(gaugeTable')
  BY <1>3, RowTypes, LadderTypes DEF RowFits
<1> QED
  BY <1>1, <1>2, <1>4, <1>5 DEF RowFits

(* Everything handed over was sent in this window or before. *)
LEMMA SentCovers ==
  ASSUME GaugesTyped, RunnerWaits
  PROVE  /\ Cardinality(HandedOver) <= Cardinality(SentSoFar)
         /\ Cardinality(SentSoFar) \in Nat
<1>1. HandedOver \subseteq SentSoFar
  BY DEF HandedOver, SentSoFar, RunnerWaits, AwaitKept
<1>2. IsFiniteSet(SentSoFar) /\ Cardinality(SentSoFar) \in Nat
  BY ActorsAreFinite DEF SentSoFar
<1> QED
  BY <1>1, <1>2, FS_Subset

LEMMA RunnerKeepsRows ==
  ASSUME GaugesTyped, RunnerWaits, Ladders, RowFits, Gauges!Run
  PROVE  RowFits'
<1>1. UNCHANGED <<gaugeTable, gaugeQueue>>
  BY GaugeRunBasics DEF Gauges!others, Gauges!store
<1>2. CASE Gauges!Send \/ Gauges!Await \/ Gauges!Emit
  BY <1>2 DEF Gauges!Send, Gauges!Await, Gauges!Emit, RowFits
<1>3. CASE Gauges!ResetPeak
  BY <1>1, <1>3 DEF Gauges!ResetPeak, RowFits
<1>4. CASE Gauges!Reads
  <2>1. CASE gaugeRunner' = "failed"
    BY <2>1 DEF RowFits
  <2>2. window' = window /\ SentSoFar' = SentSoFar
    BY <1>4, GaugeReadKinds DEF SentSoFar
  <2>3. CASE gaugeRunner' # "failed" /\ gaugeRunner = "counters"
    <3>1. /\ gaugeRunner' = "rows"
          /\ row'.counters["worker_processed"] = gaugeCounters["worker_processed"]
      BY <1>4, <2>3, GaugeReadKinds, RowTypes DEF GaugeRows
    <3>2. gaugeCounters["worker_processed"] <= Cardinality(gaugeTable)
      BY LadderTypes DEF Ladders, WorkLadder
    <3> QED
      BY <1>1, <3>1, <3>2 DEF RowFits
  <2>4. CASE gaugeRunner' # "failed" /\ gaugeRunner = "rows"
    <3>1. /\ gaugeRunner' = "current" /\ row'.rows = Cardinality(gaugeTable)
          /\ row'.counters = row.counters
      BY <1>4, <2>4, GaugeReadKinds, RowTypes DEF GaugeRows
    <3> QED
      BY <1>1, <2>4, <3>1, LadderTypes DEF RowFits
  <2>5. CASE gaugeRunner' # "failed" /\ gaugeRunner \in {"current", "peak", "busy"}
    <3>1. /\ gaugeRunner' \in {"peak", "reset", "depth"} /\ row'.rows = row.rows
          /\ row'.counters = row.counters
      BY <1>4, <2>5, GaugeReadKinds, RowTypes DEF GaugeRows
    <3> QED
      BY <1>1, <2>5, <3>1 DEF RowFits
  <2>6. CASE gaugeRunner' # "failed" /\ gaugeRunner = "depth"
    <3>1. /\ gaugeRunner' = "oldest" /\ row'.rows = row.rows /\ row'.depth = Len(gaugeQueue)
          /\ row'.counters = row.counters
      BY <1>4, <2>6, GaugeReadKinds, RowTypes DEF GaugeRows
    <3>2. row.rows <= Cardinality(gaugeTable)
      BY <2>6 DEF RowFits
    <3>3. row.rows + Len(gaugeQueue) <= Cardinality(SentSoFar)
      BY <3>2, LadderTypes, SentCovers, RowTypes DEF Ladders, ItemLadder
    <3>4. Len(gaugeQueue) = 0 => gaugeQueue = <<>>
      BY DEF GaugesTyped, Gauges!TypeOK
    <3> QED
      BY <1>1, <2>2, <2>6, <3>1, <3>3, <3>4 DEF RowFits
  <2>7. CASE gaugeRunner' # "failed" /\ gaugeRunner = "oldest"
    <3>1. /\ gaugeRunner' = "emit" /\ row'.rows = row.rows /\ row'.depth = row.depth
          /\ row'.counters = row.counters
          /\ row'.oldest = IF gaugeQueue = <<>> THEN 0 ELSE 1
      BY <1>4, <2>7, GaugeReadKinds, RowTypes DEF GaugeRows
    <3> QED
      BY <1>1, <2>2, <2>7, <3>1 DEF RowFits
  <2> QED
    BY <1>4, <2>1, <2>3, <2>4, <2>5, <2>6, <2>7, GaugeReadKinds DEF Sampled
<1> QED
  BY <1>2, <1>3, <1>4 DEF Gauges!Run

-----------------------------------------------------------------------------
(* The invariant, and what the runs check of it.                            *)

GaugeInv ==
  /\ GaugesTyped /\ HandsFull /\ CurrentRead
  /\ RunnerWaits /\ Drift /\ PeakKept
  /\ DyingKnown /\ BusyKnown /\ Items /\ Ladders /\ RowFits

LEMMA GaugeInit ==
  ASSUME GaugeBounds, Gauges!Init
  PROVE  GaugeInv
<1> USE DEF Gauges!Init
<1>1. Gauges!Unread \in GaugeRows /\ Gauges!Unread.current \in Int
  BY DEF Gauges!Unread, GaugeRows
<1>2. GaugesTyped /\ HandsFull /\ CurrentRead
  <2>1. /\ inflight \in Nat /\ peak \in Nat /\ gaugeBusy \subseteq Workers
        /\ gaugeCounters \in [Gauges!CounterNames -> Nat] /\ gaugeTable \subseteq Requests
        /\ gaugeQueue \in Seq(Requests) /\ failed \subseteq Requests
    OBVIOUS
  <2>2. /\ handlerPc \in [Requests -> Gauges!ApiSteps]
        /\ takerPc \in [Workers -> Gauges!WorkerSteps]
        /\ held \in [Workers -> Requests \cup {Nobody}]
        /\ dying \in [Workers -> {"no", "begin", "commit"}]
    BY DEF Gauges!ApiSteps, Gauges!WorkerSteps
  <2>3. gaugeRunner = "send" /\ window \in 1 .. WindowCount /\ gaugeFaults \in 0 .. MaxFaults
    BY MatrixBounds DEF GaugeBounds
  <2>4. /\ row \in GaugeRows /\ lastRow \in GaugeRows /\ most \in Nat
        /\ lost \in [up : Nat, down : Nat] /\ gaugeSwallowed \in BOOLEAN
    BY <1>1
  <2>5. GaugesTyped
    BY <2>1, <2>2, <2>3, <2>4 DEF GaugesTyped, Gauges!TypeOK
  <2>6. HandsFull /\ CurrentRead
    BY DEF HandsFull, CurrentRead
  <2> QED
    BY <2>5, <2>6
<1>3. RunnerWaits /\ DyingKnown /\ RowFits
  BY DEF RunnerWaits, AwaitKept, Midway, DyingKnown, RowFits
<1>4. Gauges!Live = {} /\ Cardinality(Gauges!Live) = 0
  <2>1. Gauges!Live = {}
    BY DEF Gauges!Live
  <2> QED
    BY <2>1, FS_EmptySet
<1>5. Drift /\ PeakKept
  BY <1>1, <1>4 DEF Drift, PeakKept
<1>6. BusyKnown
  BY DEF BusyKnown, Marked
<1>7. Items
  <2>1. Len(gaugeQueue) = 0
    OBVIOUS
  <2>2. Distinct(gaugeQueue) /\ \A r : ~GQueued(r)
    BY <2>1 DEF Distinct, Occurs, GQueued
  <2>3. \A r \in Requests : ~GHeld(r)
    BY MatrixNames DEF GHeld
  <2> QED
    BY <2>2, <2>3 DEF Items, InTransit
<1>8. Ladders
  <2>1. Transit = {} /\ Earned = {} /\ Between = {} /\ Paying = {} /\ HandedOver = {}
    BY DEF Transit, InTransit, Earned, Between, Paying, HandedOver
  <2>2. Cardinality({}) = 0
    BY FS_EmptySet
  <2> QED
    BY <2>1, <2>2 DEF Ladders, ItemLadder, WorkLadder, CounterLadder, Gauges!CounterNames
<1> QED
  BY <1>2, <1>3, <1>5, <1>6, <1>7, <1>8 DEF GaugeInv

LEMMA GaugeNext ==
  ASSUME GaugeBounds, GaugeInv, [Gauges!Next]_(Gauges!vars)
  PROVE  GaugeInv'
<1> USE DEF GaugeInv
<1>1. ASSUME NEW r \in Requests, Gauges!Handler(r) PROVE GaugeInv'
  <2>1. UNCHANGED <<takerPc, held, dying, gaugeBusy, gaugeRunner, row>>
    BY <1>1, GaugeHandlerBasics DEF Gauges!workerVars, Gauges!runVars
  <2>2. HandsFull' /\ CurrentRead' /\ DyingKnown'
    BY <2>1 DEF HandsFull, CurrentRead, DyingKnown
  <2>3. BusyKnown'
    <3>1. gaugeSwallowed => gaugeSwallowed'
      BY <1>1, GaugeHandlerBasics
    <3>2. Marked' = Marked
      BY <2>1 DEF Marked
    <3> QED
      BY <2>1, <3>1, <3>2 DEF BusyKnown
  <2> QED
    BY <1>1, <2>2, <2>3, GaugeHandlerType, HandlersAreAwaited, HandlerDrift, HandlerKeepsPeak,
       HandlerKeepsItems, HandlerKeepsLadders, HandlersLeaveRows
<1>2. ASSUME NEW w \in Workers, Gauges!Work(w) PROVE GaugeInv'
  <2>1. UNCHANGED <<Gauges!gauges, Gauges!apiVars, Gauges!runVars>>
    BY <1>2, GaugeWorkBasics
  <2>2. CurrentRead' /\ RunnerWaits'
    BY <2>1 DEF CurrentRead, RunnerWaits, AwaitKept, Gauges!apiVars, Gauges!runVars
  <2>3. Drift' /\ PeakKept'
    BY <2>1 DEF Drift, PeakKept, SinceReset, Gauges!Live, Gauges!Unharmed, Gauges!gauges,
       Gauges!apiVars, Gauges!runVars
  <2> QED
    BY <1>2, <2>2, <2>3, GaugeWorkType, WorkersDying, MarksFollow, WorkKeepsItems,
       WorkKeepsLadders, WorkersKeepRows
<1>3. CASE Gauges!Run
  <2>1. UNCHANGED <<gaugeCounters, gaugeQueue, gaugeTable, handlerPc, takerPc, held, dying,
                    gaugeBusy, gaugeSwallowed>>
    BY <1>3, GaugeRunBasics
       DEF Gauges!others, Gauges!store, Gauges!apiVars, Gauges!workerVars
  <2>2. HandsFull' /\ DyingKnown' /\ BusyKnown'
    BY <2>1 DEF HandsFull, DyingKnown, BusyKnown, Marked
  <2>3. Items'
    BY <2>1 DEF Items, GQueued, GHeld, InTransit
  <2>4. Ladders'
    BY <2>1 DEF Ladders, ItemLadder, WorkLadder, CounterLadder, Transit, InTransit, Earned,
       Between, Paying, HandedOver
  <2> QED
    BY <1>3, <2>2, <2>3, <2>4, GaugeRunType, RunnerAwaits, RunKeepsPeak, RunnerKeepsRows
<1>4. CASE UNCHANGED Gauges!vars
  BY <1>4 DEF Gauges!vars, Gauges!gauges, Gauges!store, Gauges!apiVars, Gauges!workerVars,
     Gauges!runVars, GaugesTyped, Gauges!TypeOK, HandsFull, CurrentRead, RunnerWaits, AwaitKept,
     Drift, Gauges!Live, PeakKept, SinceReset, Gauges!Unharmed, DyingKnown, BusyKnown, Marked,
     Items, GQueued, GHeld, InTransit, Ladders, ItemLadder, WorkLadder, CounterLadder, Transit,
     Earned, Between, Paying, HandedOver, RowFits, SentSoFar
<1> QED
  BY <1>1, <1>2, <1>3, <1>4 DEF Gauges!Next

LEMMA GaugesHold == GaugeBounds /\ Gauges!Spec => []GaugeInv
<1>1. ASSUME GaugeBounds PROVE Gauges!Spec => []GaugeInv
  <2>1. Gauges!Init => GaugeInv
    BY <1>1, GaugeInit
  <2>2. GaugeInv /\ [Gauges!Next]_(Gauges!vars) => GaugeInv'
    BY <1>1, GaugeNext
  <2> QED
    BY <2>1, <2>2, PTL DEF Gauges!Spec
<1> QED
  BY <1>1

(* The variables keep their types; the count is never negative.             *)
THEOREM GaugesTypeCorrect ==
  ASSUME GaugeBounds
  PROVE  Gauges!Spec => []Gauges!TypeOK
<1>1. GaugeInv => Gauges!TypeOK
  BY DEF GaugeInv, GaugesTyped
<1> QED
  BY <1>1, GaugesHold, PTL

(* The in-flight count is the number of handlers at work, up to the updates *)
(* that were lost, however handlers end.                                    *)
THEOREM DriftIsExplained ==
  ASSUME GaugeBounds
  PROVE  Gauges!Spec => []Gauges!InflightDriftIsExplained
<1>1. GaugeInv => Gauges!InflightDriftIsExplained
  BY GaugeCardinality DEF GaugeInv, Drift, Gauges!InflightDriftIsExplained
<1> QED
  BY <1>1, GaugesHold, PTL

(* The peak of a row is that of its window, although handlers run between   *)
(* the reads of the count and of the peak and the reset.                    *)
THEOREM PeaksAreOfTheirWindow ==
  ASSUME GaugeBounds
  PROVE  Gauges!Spec => []Gauges!PeakIsOfItsWindow
<1>1. ASSUME GaugeInv PROVE Gauges!PeakIsOfItsWindow
  <2> SUFFICES ASSUME gaugeRunner = "reset", Gauges!Unharmed
               PROVE  /\ row.peak >= row.current /\ row.peak >= most
                      /\ row.peak <= Gauges!Max({most, lastRow.current})
    BY DEF Gauges!PeakIsOfItsWindow
  <2>1. /\ most \in Nat /\ lastRow.current \in Int /\ row.current \in Int /\ peak \in Nat
    BY <1>1 DEF GaugeInv, GaugesTyped, Gauges!TypeOK, GaugeRows
  <2>2. /\ most <= peak /\ row.current <= peak /\ row.peak = peak
        /\ peak <= most \/ peak <= lastRow.current
    BY <1>1 DEF GaugeInv, PeakKept, SinceReset
  <2>3. Gauges!Max({most, lastRow.current}) =
          IF most >= lastRow.current THEN most ELSE lastRow.current
    BY <2>1, GreaterOfTwo
  <2> QED
    BY <2>1, <2>2, <2>3
<1> QED
  BY <1>1, GaugesHold, PTL

(* No sample counts a request in progress: what it still sees has answered. *)
THEOREM SampledHandlersAnswered ==
  ASSUME GaugeBounds
  PROVE  Gauges!Spec => []Gauges!SampledHandlersHaveAnswered
<1>1. GaugeInv => Gauges!SampledHandlersHaveAnswered
  BY SampleAfterAnswers DEF GaugeInv, Gauges!SampledHandlersHaveAnswered, Gauges!Live, Midway
<1> QED
  BY <1>1, GaugesHold, PTL

(* The busy workers are those in a transaction and those that could not     *)
(* begin one, as long as no mark was lost.                                  *)
THEOREM MarksAreExplained ==
  ASSUME GaugeBounds
  PROVE  Gauges!Spec => []Gauges!BusyIsExplained
<1>1. GaugeInv => Gauges!BusyIsExplained
  BY DEF GaugeInv, BusyKnown, Marked, Gauges!BusyIsExplained
<1> QED
  BY <1>1, GaugesHold, PTL

(* The fields of a row agree, although they are read at different moments.  *)
THEOREM RowsAgree ==
  ASSUME GaugeBounds
  PROVE  Gauges!Spec => []Gauges!RowReadsAgree
<1>1. GaugeInv => Gauges!RowReadsAgree
  BY GaugeCardinality DEF GaugeInv, RowFits, SentSoFar, Gauges!RowReadsAgree
<1> QED
  BY <1>1, GaugesHold, PTL

(* The counters follow the path of an item, as long as none was lost.       *)
THEOREM CountersKeepOrder ==
  ASSUME GaugeBounds
  PROVE  Gauges!Spec => []Gauges!CountersFollowThePath
<1>1. ASSUME GaugeInv PROVE Gauges!CountersFollowThePath
  <2>1. CounterLadder => /\ gaugeCounters["worker_processed"] <= gaugeCounters["write_count"]
                         /\ gaugeCounters["write_count"] <= gaugeCounters["residence_count"]
    BY <1>1, LadderTypes DEF GaugeInv, CounterLadder
  <2> QED
    BY <1>1, <2>1 DEF GaugeInv, Ladders, Gauges!CountersFollowThePath
<1> QED
  BY <1>1, GaugesHold, PTL

-----------------------------------------------------------------------------
(* A case of the matrix: the runner beside the application *)

Preparing == {"boot", "reset", "truncate", "baseline", "baselineRows"}
Looping == {"check", "fault", "unlock"} \cup Sampling
Finishing == {"drain", "drainDepth", "boundary", "errors"}

(* Where main is in its loop, and where an exception is on its way.         *)
RunShape ==
  /\ runner \in Preparing => point = 0
  /\ runner \in Looping => point < PointCount
  /\ runner \in Finishing => point = PointCount
  /\ runner \in Preparing \cup Looping => polls = 0
  /\ runner \in {"drain", "drainDepth"} => polls < MaxPolls
  /\ failing => runner \in {"closing", "closingUnlock", "failed", "unswept"}
  /\ runner \in {"closing", "closingUnlock", "done"} /\ ~failing => point = PointCount

(* The runner touches the application in two places only: the reset, and    *)
(* the TRUNCATE; the readings touch the registrations.                      *)
LEMMA RunnerFrame ==
  ASSUME RunnerStep
  PROVE  /\ UNCHANGED <<crossings, appRest, kind, timedOut>>
         /\ Works \/ Breaks
         /\ \/ UNCHANGED <<queue, backlog, counters>>
            \/ /\ runner = "reset" /\ runner' \in {"truncate", "failed"}
               /\ queue' = <<>> /\ backlog' = "low" /\ counters' = NoCounts
         /\ \/ UNCHANGED table
            \/ runner = "truncate" /\ table' = [r \in Requests |-> 0]
         /\ instances' \subseteq instances
<1> USE DEF appVars, At, Goto, Raises, EndsAs, DropOverdue, runVars, sample
<1>1. CASE WaitUntilReady \/ CheckWorkers
  BY <1>1 DEF WaitUntilReady, CheckWorkers
<1>2. CASE Reset
  BY <1>2 DEF Reset
<1>3. CASE Truncate
  BY <1>3 DEF Truncate
<1>4. CASE Baseline("baseline", "baselineRows") \/ Baseline("baselineRows", "check")
  BY <1>4 DEF Baseline
<1>5. CASE NoFaultDue \/ StartFault \/ StopFault \/ StopLock \/ Gathered
  BY <1>5 DEF NoFaultDue, StartFault, StopFault, StopLock, Gathered
<1>6. CASE ReadCounters \/ ReadRows \/ ReadDepth \/ EmitSample
  BY <1>6 DEF ReadCounters, ReadRows, ReadDepth, Read, EmitSample
<1>7. CASE PollCounters \/ PollDepth \/ EmitBoundary \/ CheckEmitErrors
  BY <1>7 DEF PollCounters, PollDepth, PollAgain, EmitBoundary, CheckEmitErrors
<1>8. CASE Close \/ CloseLock
  BY <1>8 DEF Close, CloseLock
<1> QED
  BY <1>1, <1>2, <1>3, <1>4, <1>5, <1>6, <1>7, <1>8 DEF RunnerStep

(* What the runner does to the controls of the faults.                      *)
LEMMA ControlTypes ==
  ASSUME TypeOK, RunnerStep
  PROVE  /\ crash' \in BOOLEAN /\ outage' \in BOOLEAN
         /\ lockOwner' \in Workers \cup {Runner, Nobody}
<1> USE DEF EndsAs, Delete, Unlock
<1>0. crash \in BOOLEAN /\ outage \in BOOLEAN /\ lockOwner \in Workers \cup {Runner, Nobody}
  BY DEF TypeOK
<1>1. CASE WaitUntilReady \/ CheckWorkers \/ Reset \/ Truncate
  BY <1>0, <1>1 DEF WaitUntilReady, CheckWorkers, Reset, Truncate
<1>4. CASE Baseline("baseline", "baselineRows") \/ Baseline("baselineRows", "check")
  BY <1>0, <1>4 DEF Baseline
<1>5. CASE StartFault
  BY <1>0, <1>5 DEF StartFault, Started
<1>6. CASE NoFaultDue \/ StopFault \/ StopLock \/ Gathered
  BY <1>0, <1>6 DEF NoFaultDue, StopFault, StopLock, Gathered
<1>7. CASE ReadCounters \/ ReadRows \/ ReadDepth \/ EmitSample
  BY <1>0, <1>7 DEF ReadCounters, ReadRows, ReadDepth, Read, EmitSample
<1>8. CASE PollCounters \/ PollDepth \/ EmitBoundary \/ CheckEmitErrors
  BY <1>0, <1>8 DEF PollCounters, PollDepth, EmitBoundary, CheckEmitErrors
<1>9. CASE Close \/ CloseLock
  BY <1>0, <1>9 DEF Close, CloseLock
<1> QED
  BY <1>1, <1>4, <1>5, <1>6, <1>7, <1>8, <1>9 DEF RunnerStep

(* A step of the runner keeps the types of the application.                 *)
LEMMA RunnerKeepsAppTypes ==
  ASSUME TypeOK, HandsAreFull, RunnerStep
  PROVE  TypeOK' /\ HandsAreFull'
<1> USE DEF appRest
<1>0. /\ queue \in Seq(Requests) /\ backlog \in Buckets \cup {"unset"}
      /\ counters \in [CounterNames -> Nat] /\ table \in [Requests -> Nat]
      /\ faults \in 0 .. MaxFaults /\ instances \in SUBSET Workers
  BY DEF TypeOK
<1>1. /\ queue' \in Seq(Requests) /\ backlog' \in Buckets \cup {"unset"}
      /\ counters' \in [CounterNames -> Nat]
  <2>1. <<>> \in Seq(Requests) /\ "low" \in Buckets /\ NoCounts \in [CounterNames -> Nat]
    BY DEF Buckets, NoCounts
  <2>2. \/ UNCHANGED <<queue, backlog, counters>>
        \/ queue' = <<>> /\ backlog' = "low" /\ counters' = NoCounts
    BY RunnerFrame
  <2> QED
    BY <1>0, <2>1, <2>2
<1>2. table' \in [Requests -> Nat]
  BY <1>0, RunnerFrame
<1>3. faults' \in 0 .. MaxFaults
  BY <1>0, RunnerFrame, FaultType
<1>4. instances' \in SUBSET Workers
  BY <1>0, RunnerFrame
<1>5. UNCHANGED <<crossings, appRest>>
  BY RunnerFrame
<1>6. logs \in LogRecords /\ status \in [Requests -> Statuses]
  BY LogsType, StatusType
<1>7. TypeOK'
  BY <1>1, <1>2, <1>3, <1>4, <1>5, <1>6, ControlTypes, Assemble DEF TypeOK
<1> QED
  BY <1>5, <1>7 DEF HandsAreFull

(* The types of the runner's own variables.                                 *)
Samples == [counters : [CounterNames -> Nat], rows : Nat]

RunTyped ==
  /\ runner \in RunnerSteps \cup Ends
  /\ kind \in Kinds
  /\ point \in 0 .. PointCount
  /\ connection \in BOOLEAN /\ failing \in BOOLEAN
  /\ timedOut \in SUBSET Requests
  /\ previous \in Samples /\ current \in Samples
  /\ depth \in Nat
  /\ polls \in 0 .. MaxPolls

(* The two halves of the type invariant of a case. *)
LEMMA CaseTypes == CaseTypeOK <=> TypeOK /\ RunTyped
BY DEF CaseTypeOK, RunTyped, Samples

(* The number of rows is a natural number. *)
LEMMA RowCountType == RowCount \in Nat
BY ActorsAreFinite DEF RowCount

(* Two ways through main: on to the next step, or out of the try.           *)
LEMMA GoingOn ==
  ASSUME RunTyped, RunShape, NEW next, runner' = next,
         UNCHANGED <<failing, point, polls, kind, timedOut>>, connection' \in BOOLEAN,
         previous' \in Samples, current' \in Samples, depth' \in Nat,
         \/ runner \in Looping /\ next \in Looping
         \/ runner \in {"drain", "drainDepth"} /\ next \in Finishing
         \/ runner \in {"boundary", "errors"} /\ next \in {"errors", "closing"}
  PROVE  RunTyped' /\ RunShape'
<1>1. runner' \in RunnerSteps /\ ~failing
  BY DEF RunShape, Looping, Finishing, Sampling, RunnerSteps
<1>2. RunTyped'
  BY <1>1 DEF RunTyped
<1>3. point \in 0 .. PointCount /\ (runner \in Looping => point < PointCount)
      /\ (runner \in Finishing => point = PointCount)
      /\ (runner \in Looping => polls = 0)
      /\ (runner \in {"drain", "drainDepth"} => polls < MaxPolls)
  BY DEF RunTyped, RunShape
<1> QED
  BY <1>1, <1>2, <1>3 DEF RunShape, Preparing, Looping, Finishing, Sampling

(* An exception inside the try keeps the shape of the run. *)
LEMMA GoingOut ==
  ASSUME RunTyped, RunShape, Raises, UNCHANGED <<kind, timedOut>>,
         previous' \in Samples, current' \in Samples, depth' \in Nat
  PROVE  RunTyped' /\ RunShape'
<1>1. RunTyped'
  BY DEF RunTyped, Raises, RunnerSteps
<1> QED
  BY <1>1 DEF RunShape, Raises, Preparing, Looping, Finishing, Sampling

(* So does another poll of the drain, and the last one that finds nothing. *)
LEMMA AnotherPoll ==
  ASSUME RunTyped, RunShape, runner \in {"drain", "drainDepth"}, PollAgain,
         UNCHANGED <<kind, timedOut, previous, current, depth>>
  PROVE  RunTyped' /\ RunShape'
<1>1. /\ polls \in 0 .. MaxPolls /\ polls < MaxPolls /\ MaxPolls \in Nat
      /\ point = PointCount /\ ~failing
  BY CaseAssumption DEF RunTyped, RunShape, Finishing
<1>2. /\ polls' \in 0 .. MaxPolls /\ UNCHANGED <<point, connection>>
      /\ \/ runner' = "closing" /\ failing' = TRUE
         \/ runner' = "drain" /\ failing' = failing /\ polls' < MaxPolls
  BY <1>1 DEF PollAgain
<1>3. RunTyped'
  BY <1>1, <1>2 DEF RunTyped, RunnerSteps
<1> QED
  BY <1>1, <1>2, <1>3 DEF RunShape, Preparing, Looping, Finishing, Sampling

(* The steps of main follow each other as they are written.                 *)
LEMMA RunnerKeepsShape ==
  ASSUME TypeOK, RunTyped, RunShape, RunnerStep
  PROVE  RunTyped' /\ RunShape'
<1> USE DEF At, Goto, Raises, EndsAs, runVars, sample, Preparing, Looping, Finishing, Sampling,
            RunnerSteps, Ends, RunShape, RunTyped
<1>0. /\ PointCount \in Nat \ {0} /\ MaxPolls \in Nat \ {0}
      /\ counters \in [CounterNames -> Nat] /\ Len(queue) \in Nat /\ RowCount \in Nat
      /\ previous \in Samples /\ current \in Samples /\ depth \in Nat /\ connection \in BOOLEAN
  BY CaseAssumption, RowCountType DEF TypeOK
<1>1. CASE WaitUntilReady
  BY <1>0, <1>1 DEF WaitUntilReady
<1>2. CASE Reset
  BY <1>0, <1>2 DEF Reset
<1>3. CASE Truncate
  BY <1>0, <1>3 DEF Truncate
<1>4. CASE CheckWorkers
  <2>1. /\ runner = "check" /\ (Raises \/ Goto("fault"))
        /\ UNCHANGED <<kind, timedOut, sample>>
    BY <1>4 DEF CheckWorkers
  <2> HIDE DEF RunTyped, RunShape, Raises, Goto
  <2>2. CASE Raises
    BY <1>0, <2>1, <2>2, GoingOut
  <2>3. CASE Goto("fault")
    BY <1>0, <2>1, <2>3, GoingOn DEF Goto
  <2> QED
    BY <2>1, <2>2, <2>3
<1>5. CASE NoFaultDue
  BY <1>0, <1>5 DEF NoFaultDue
<1>6. CASE StartFault
  BY <1>0, <1>6 DEF StartFault
<1>7. CASE StopFault
  <2>1. /\ runner = "fault" /\ (Raises \/ Goto("unlock") \/ Goto("await"))
        /\ UNCHANGED <<kind, timedOut, sample>>
    BY <1>7 DEF StopFault
  <2> HIDE DEF RunTyped, RunShape, Raises, Goto
  <2>2. CASE Raises
    BY <1>0, <2>1, <2>2, GoingOut
  <2>3. CASE Goto("unlock")
    BY <1>0, <2>1, <2>3, GoingOn DEF Goto
  <2>4. CASE Goto("await")
    BY <1>0, <2>1, <2>4, GoingOn DEF Goto
  <2> QED
    BY <2>1, <2>2, <2>3, <2>4
<1>8. CASE StopLock
  <2>1. /\ runner = "unlock" /\ (Raises \/ (runner' = "await" /\ connection' = FALSE
                                    /\ UNCHANGED <<failing, point, polls>>))
        /\ UNCHANGED <<kind, timedOut, sample>>
    BY <1>8 DEF StopLock
  <2> HIDE DEF RunTyped, RunShape, Raises
  <2>2. CASE Raises
    BY <1>0, <2>1, <2>2, GoingOut
  <2>3. CASE runner' = "await" /\ connection' = FALSE /\ UNCHANGED <<failing, point, polls>>
    BY <1>0, <2>1, <2>3, GoingOn
  <2> QED
    BY <2>1, <2>2, <2>3
<1>9. CASE Gathered
  BY <1>0, <1>9 DEF Gathered
<1>10. CASE EmitSample
  <2>1. runner = "emit" /\ UNCHANGED <<kind, timedOut, current, depth>>
    BY <1>10 DEF EmitSample
  <2>2. CASE Raises /\ UNCHANGED previous
    <3> HIDE DEF RunTyped, RunShape, Raises
    <3> QED
      BY <1>0, <2>1, <2>2, GoingOut
  <2>3. CASE ~(Raises /\ UNCHANGED previous)
    <3>1. /\ point' = point + 1 /\ previous' = current /\ UNCHANGED <<failing, connection, polls>>
          /\ runner' = IF point' < PointCount THEN "check"
                       ELSE IF kind = "none" THEN "drain" ELSE "errors"
      BY <1>10, <2>3 DEF EmitSample
    <3>2. point < PointCount /\ point \in 0 .. PointCount /\ ~failing
      BY <2>1
    <3>3. point' \in 0 .. PointCount /\ (runner' # "check" => point' = PointCount)
          /\ (runner' = "check" => point' < PointCount)
      BY <1>0, <3>1, <3>2
    <3>4. RunTyped'
      BY <1>0, <2>1, <3>1, <3>2, <3>3
    <3>5. polls = 0 /\ 0 < MaxPolls
      BY <1>0, <2>1
    <3> QED
      BY <2>1, <3>1, <3>2, <3>3, <3>4, <3>5 DEF RunShape
  <2> QED
    BY <2>2, <2>3
<1>11. CASE PollCounters
  <2>1. /\ runner = "drain" /\ (Raises \/ Goto("drainDepth") \/ PollAgain)
        /\ UNCHANGED <<kind, timedOut, sample>>
    BY <1>11 DEF PollCounters
  <2> HIDE DEF RunTyped, RunShape, Raises, Goto
  <2>2. CASE PollAgain
    BY <2>1, <2>2, AnotherPoll
  <2>3. CASE Raises
    BY <1>0, <2>1, <2>3, GoingOut
  <2>4. CASE Goto("drainDepth")
    BY <1>0, <2>1, <2>4, GoingOn DEF Goto
  <2> QED
    BY <2>1, <2>2, <2>3, <2>4
<1>12. CASE PollDepth
  <2>1. /\ runner = "drainDepth" /\ (Raises \/ Goto("boundary") \/ PollAgain)
        /\ UNCHANGED <<kind, timedOut, sample>>
    BY <1>12 DEF PollDepth
  <2> HIDE DEF RunTyped, RunShape, Raises, Goto
  <2>2. CASE PollAgain
    BY <2>1, <2>2, AnotherPoll
  <2>3. CASE Raises
    BY <1>0, <2>1, <2>3, GoingOut
  <2>4. CASE Goto("boundary")
    BY <1>0, <2>1, <2>4, GoingOn DEF Goto
  <2> QED
    BY <2>1, <2>2, <2>3, <2>4
<1>13. CASE EmitBoundary
  <2>1. /\ runner = "boundary" /\ (Raises \/ Goto("errors"))
        /\ UNCHANGED <<kind, timedOut, sample>>
    BY <1>13 DEF EmitBoundary
  <2> HIDE DEF RunTyped, RunShape, Raises, Goto
  <2>2. CASE Raises
    BY <1>0, <2>1, <2>2, GoingOut
  <2>3. CASE Goto("errors")
    BY <1>0, <2>1, <2>3, GoingOn DEF Goto
  <2> QED
    BY <2>1, <2>2, <2>3
<1>14. CASE CheckEmitErrors
  BY <1>0, <1>14 DEF CheckEmitErrors
<1>15. CASE Close
  BY <1>0, <1>15 DEF Close, End
<1>16. CASE CloseLock
  BY <1>0, <1>16 DEF CloseLock, End
<1>17. CASE Baseline("baseline", "baselineRows")
  <2>1. previous' \in Samples
    BY <1>0, <1>17 DEF Baseline, Samples
  <2> QED
    BY <1>0, <1>17, <2>1 DEF Baseline
<1>18. CASE Baseline("baselineRows", "check")
  <2>1. previous' \in Samples
    BY <1>0, <1>18 DEF Baseline, Samples
  <2> QED
    BY <1>0, <1>18, <2>1 DEF Baseline
<1>19. CASE ReadCounters
  <2>1. current' \in Samples /\ depth' \in Nat
    BY <1>0, <1>19 DEF ReadCounters, Samples
  <2>2. /\ runner = "counters" /\ (Raises \/ Goto("rows"))
        /\ UNCHANGED <<kind, timedOut, previous>>
    BY <1>19 DEF ReadCounters, Read
  <2> HIDE DEF RunTyped, RunShape, Raises, Goto
  <2>3. CASE Raises
    BY <1>0, <2>1, <2>2, <2>3, GoingOut
  <2>4. CASE Goto("rows")
    BY <1>0, <2>1, <2>2, <2>4, GoingOn DEF Goto
  <2> QED
    BY <2>2, <2>3, <2>4
<1>20. CASE ReadRows
  <2>1. current' \in Samples /\ depth' \in Nat
    BY <1>0, <1>20 DEF ReadRows, Samples
  <2>2. /\ runner = "rows" /\ (Raises \/ Goto("depth"))
        /\ UNCHANGED <<kind, timedOut, previous>>
    BY <1>20 DEF ReadRows, Read
  <2> HIDE DEF RunTyped, RunShape, Raises, Goto
  <2>3. CASE Raises
    BY <1>0, <2>1, <2>2, <2>3, GoingOut
  <2>4. CASE Goto("depth")
    BY <1>0, <2>1, <2>2, <2>4, GoingOn DEF Goto
  <2> QED
    BY <2>2, <2>3, <2>4
<1>21. CASE ReadDepth
  <2>1. current' \in Samples /\ depth' \in Nat
    BY <1>0, <1>21 DEF ReadDepth, Samples
  <2>2. /\ runner = "depth" /\ (Raises \/ Goto("emit"))
        /\ UNCHANGED <<kind, timedOut, previous>>
    BY <1>21 DEF ReadDepth, Read
  <2> HIDE DEF RunTyped, RunShape, Raises, Goto
  <2>3. CASE Raises
    BY <1>0, <2>1, <2>2, <2>3, GoingOut
  <2>4. CASE Goto("emit")
    BY <1>0, <2>1, <2>2, <2>4, GoingOn DEF Goto
  <2> QED
    BY <2>2, <2>3, <2>4
<1> QED
  BY <1>1, <1>2, <1>3, <1>4, <1>5, <1>6, <1>7, <1>8, <1>9, <1>10, <1>11,
     <1>12, <1>13, <1>14, <1>15, <1>16, <1>17, <1>18, <1>19, <1>20, <1>21 DEF RunnerStep

-----------------------------------------------------------------------------
(* The faults in force *)

(* The fault of the case is in force in the windows of its interval, from   *)
(* the fault step of the first one to that of the one after the last.       *)
Imposed(p) == First <= p /\ p < Last
InForce == IF runner \in Sampling THEN point ELSE point - 1

ControlsAgree ==
  /\ crash = (kind = "worker_crash" /\ Imposed(InForce))
  /\ outage = (kind = "cache_outage" /\ Imposed(InForce))
  /\ (lockOwner = Runner) = (kind = "database_lock" /\ Imposed(InForce))
  /\ connection = (lockOwner = Runner)

Controls ==
  /\ kind = "none" => ~crash /\ ~outage /\ lockOwner # Runner
  /\ ~failing /\ runner \notin {"unlock", "closingUnlock"} \cup Ends => ControlsAgree
  /\ runner = "unlock" => /\ kind = "database_lock" /\ point = Last
                          /\ ~crash /\ ~outage /\ lockOwner = Runner
  /\ runner \in {"closingUnlock", "done", "failed"} => ~crash /\ ~outage
  /\ runner \in Ends => lockOwner # Runner

(* The structural interval lies inside the run; without a fault it is empty. *)
LEMMA Interval ==
  ASSUME kind \in Kinds
  PROVE  /\ First \in 1 .. PointCount /\ Last \in 1 .. PointCount /\ PointCount \in Nat \ {0}
         /\ kind # "none" => First < Last /\ kind \in FaultKinds
         /\ kind = "none" => First = Last
BY CaseAssumption DEF First, Last

(* A step that leaves the steps of main alone leaves the controls alone.    *)
LEMMA AppKeepsControls ==
  ASSUME TypeOK, Controls, UNCHANGED <<runVars, kind>>,
         \/ \E r \in Requests : Send(r) \/ Handler(r)
         \/ \E w \in Workers : Work(w)
  PROVE  Controls'
<1>1. UNCHANGED <<crash, outage>> /\ (lockOwner' = Runner <=> lockOwner = Runner)
  <2> USE DEF controls, database
  <2>1. CASE \E r \in Requests : Send(r) \/ Handler(r)
    BY <2>1 DEF Send, Handler, Gate, Push, Emit, ExcuseEmit, Count, Reply
  <2>2. CASE \E w \in Workers : Work(w)
    <3>1. PICK w \in Workers : Work(w)
      BY <2>2
    <3>2. CASE Lock(w) \/ Commit(w)
      BY <3>2, MatrixNames DEF Lock, Commit
    <3>3. CASE CheckCrash(w) \/ Register(w) \/ Dequeue(w) \/ MeasureWait(w) \/ EmitWorker(w)
                 \/ ExcuseWorker(w) \/ CountWork(w)
      BY <3>3 DEF CheckCrash, Register, Dequeue, MeasureWait, EmitWorker, ExcuseWorker, CountWork
    <3> QED
      BY <3>1, <3>2, <3>3 DEF Work
  <2> QED
    BY <2>1, <2>2
<1>2. First' = First /\ Last' = Last /\ InForce' = InForce
  BY DEF First, Last, InForce, runVars
<1>3. ControlsAgree => ControlsAgree'
  BY <1>1, <1>2 DEF ControlsAgree, Imposed, runVars
<1> QED
  BY <1>1, <1>2, <1>3 DEF Controls, runVars

(* Four ways a step of the runner leaves the controls as they should be.    *)
Outside == {"unlock", "closingUnlock"} \cup Ends

(* A step inside the loop that touches no control leaves them as they should be. *)
LEMMA ControlsStay ==
  ASSUME Controls, UNCHANGED <<kind, crash, outage, lockOwner, connection>>, InForce' = InForce,
         ~failing, runner \notin Outside, runner' \notin Outside
  PROVE  Controls'
<1>1. ControlsAgree
  BY DEF Controls, Outside
<1>2. First' = First /\ Last' = Last
  BY DEF First, Last
<1>3. ControlsAgree'
  BY <1>1, <1>2 DEF ControlsAgree, Imposed
<1> QED
  BY <1>3 DEF Controls, Outside, Ends

(* So does an exception: the controls of a failing run are not yet swept. *)
LEMMA ControlsRaise ==
  ASSUME Controls, runner' = "closing", failing' = TRUE, kind' = kind,
         kind = "none" => UNCHANGED <<crash, outage, lockOwner>>
  PROVE  Controls'
BY DEF Controls, Ends

(* So does the end of the process, which releases the lock with its session. *)
LEMMA ControlsEnd ==
  ASSUME Controls, kind' = kind, NEW end \in Ends, EndsAs(end),
         end # "unswept" \/ kind = "none" => ~crash' /\ ~outage'
  PROVE  Controls'
<1>1. Runner # Nobody
  BY MatrixNames
<1>2. lockOwner' # Runner
  BY <1>1 DEF EndsAs
<1> QED
  BY <1>2 DEF Controls, EndsAs, Ends

(* Before the first window nothing is in force.                             *)
LEMMA NothingYet ==
  ASSUME RunTyped, RunShape, Controls, runner \in Preparing
  PROVE  ~crash /\ ~outage /\ lockOwner # Runner /\ ~connection /\ ~failing /\ InForce = -1
<1>1. point = 0 /\ ~failing /\ runner \notin Outside \cup Sampling
  BY DEF RunShape, Preparing, Outside, Ends, Sampling
<1>2. First \in 1 .. PointCount /\ PointCount \in Nat
  BY Interval DEF RunTyped
<1>3. InForce = -1 /\ ~Imposed(InForce)
  BY <1>1, <1>2 DEF InForce, Imposed
<1> QED
  BY <1>1, <1>3 DEF Controls, ControlsAgree, Outside

(* The fault step of a window: the label of the window becomes true.        *)
LEMMA FaultStepControls ==
  ASSUME TypeOK, RunTyped, RunShape, Controls,
         NoFaultDue \/ StartFault \/ StopFault \/ StopLock
  PROVE  Controls'
<1>1. /\ kind' = kind /\ kind \in Kinds /\ point \in Int /\ PointCount \in Nat
      /\ crash \in BOOLEAN /\ outage \in BOOLEAN /\ connection \in BOOLEAN
  BY CaseAssumption DEF NoFaultDue, StartFault, StopFault, StopLock, RunTyped, TypeOK
<1>2. First' = First /\ Last' = Last
  BY <1>1 DEF First, Last
<1>3. /\ First \in 1 .. PointCount /\ Last \in 1 .. PointCount
      /\ kind # "none" => First < Last
  BY <1>1, Interval
<1>4. CASE Raises
  <2>1. kind = "none" => UNCHANGED <<crash, outage, lockOwner>>
    BY <1>4 DEF NoFaultDue, StartFault, StopFault, StopLock, At, Controls, Goto, Raises
  <2> QED
    BY <1>1, <1>4, <2>1, ControlsRaise DEF Raises
<1>5. ASSUME ~Raises, ~StopLock PROVE runner = "fault" /\ ControlsAgree /\ InForce = point - 1
  <2>1. runner = "fault"
    BY <1>5 DEF NoFaultDue, StartFault, StopFault, At
  <2>2. ~failing
    BY <2>1 DEF RunShape
  <2> QED
    BY <2>1, <2>2 DEF Controls, Ends, InForce, Sampling
<1>6. ASSUME runner' = "await", point' = point, UNCHANGED <<kind, failing>>, ControlsAgree'
      PROVE  Controls'
  <2>1. kind = "none" => ~crash' /\ ~outage' /\ lockOwner' # Runner
    BY <1>6 DEF ControlsAgree
  <2> QED
    BY <1>6, <2>1 DEF Controls, Ends
<1>7. ASSUME runner' = "await", point' = point PROVE InForce' = point
  BY <1>7 DEF InForce, Sampling
<1>8. CASE NoFaultDue
  <2>1. /\ kind = "none" \/ point \notin {First, Last}
        /\ runner' = "await" /\ UNCHANGED <<failing, point, connection, crash, outage, lockOwner>>
    BY <1>8 DEF NoFaultDue, Goto
  <2>2. ~Raises /\ (StopLock => runner = "unlock") /\ runner = "fault"
    BY <1>8 DEF NoFaultDue, Goto, Raises, StopLock, At
  <2>3. kind # "none" => (Imposed(point) = Imposed(point - 1))
    BY <1>1, <1>3, <2>1 DEF Imposed
  <2>4. kind = "none" => kind \notin FaultKinds
    BY DEF FaultKinds
  <2>5. Imposed(point)' = Imposed(point)
    BY <1>2, <2>1 DEF Imposed
  <2>6. ControlsAgree'
    BY <1>1, <1>5, <1>7, <2>1, <2>2, <2>3, <2>4, <2>5 DEF ControlsAgree, FaultKinds
  <2> QED
    BY <1>1, <1>6, <2>1, <2>6
<1>9. CASE StartFault /\ ~Raises
  <2>1. /\ runner = "fault" /\ kind # "none" /\ point = First /\ Started
        /\ runner' = "await" /\ connection' = (kind = "database_lock")
        /\ UNCHANGED <<failing, point, polls>>
    BY <1>9 DEF StartFault, At
  <2>2. ~Imposed(point - 1) /\ Imposed(point)
    BY <1>1, <1>3, <2>1 DEF Imposed
  <2>3. Imposed(point)' = Imposed(point)
    BY <1>2, <2>1 DEF Imposed
  <2>4. ~crash /\ ~outage /\ lockOwner # Runner
    BY <1>1, <1>5, <1>9, <2>1, <2>2 DEF ControlsAgree, StopLock, At
  <2>5. kind \in FaultKinds
    BY <1>1, <2>1, CaseAssumption
  <2>6. ControlsAgree'
    BY <1>1, <1>7, <2>1, <2>2, <2>3, <2>4, <2>5 DEF ControlsAgree, Started, FaultKinds
  <2> QED
    BY <1>1, <1>6, <2>1, <2>6
<1>10. CASE StopFault /\ ~Raises
  <2>1. /\ runner = "fault" /\ kind # "none" /\ point = Last /\ Delete
        /\ runner' = (IF connection THEN "unlock" ELSE "await")
        /\ UNCHANGED <<failing, point, connection, polls, lockOwner>>
    BY <1>10 DEF StopFault, At, Goto
  <2>2. Imposed(point - 1) /\ ~Imposed(point)
    BY <1>1, <1>3, <2>1 DEF Imposed
  <2>3. Imposed(point)' = Imposed(point)
    BY <1>2, <2>1 DEF Imposed
  <2>4. /\ (lockOwner = Runner) = (kind = "database_lock")
        /\ connection = (lockOwner = Runner)
    BY <1>5, <1>10, <2>1, <2>2 DEF ControlsAgree, StopLock, At
  <2>5. CASE connection
    BY <1>1, <1>2, <2>1, <2>4, <2>5 DEF Controls, Delete, Ends
  <2>6. CASE ~connection
    <3>1. ControlsAgree'
      BY <1>1, <1>7, <2>1, <2>3, <2>2, <2>4, <2>6 DEF ControlsAgree, Delete
    <3> QED
      BY <1>1, <1>6, <2>1, <2>6, <3>1
  <2> QED
    BY <1>1, <2>5, <2>6
<1>11. CASE StopLock /\ ~Raises
  <2>1. /\ runner = "unlock" /\ Unlock /\ runner' = "await" /\ connection' = FALSE
        /\ UNCHANGED <<failing, point, polls, crash, outage>>
    BY <1>11 DEF StopLock, At
  <2>2. kind = "database_lock" /\ point = Last /\ ~crash /\ ~outage /\ lockOwner = Runner
    BY <2>1 DEF Controls
  <2>3. lockOwner' # Runner
    BY <2>1, <2>2, MatrixNames DEF Unlock
  <2>4. ~Imposed(point)'
    BY <1>1, <1>2, <1>3, <2>1, <2>2 DEF Imposed
  <2>5. ControlsAgree'
    BY <1>1, <1>7, <2>1, <2>2, <2>3, <2>4 DEF ControlsAgree
  <2> QED
    BY <1>1, <1>6, <2>1, <2>5
<1> QED
  BY <1>4, <1>8, <1>9, <1>10, <1>11

(* A step that gives way to the next one and touches no control.            *)
Passes(step, next) ==
  runner = step /\ Goto(next) /\ UNCHANGED <<kind, crash, outage, lockOwner>>

(* A step that only passes on to the next one keeps the controls. *)
LEMMA PassingControls ==
  ASSUME RunTyped, RunShape, Controls, NEW step, NEW next, Passes(step, next),
         \/ step \in Preparing /\ next \in Preparing \cup {"check"}
         \/ step = "check" /\ next = "fault"
         \/ step \in Sampling /\ next \in Sampling
         \/ step \in Finishing /\ next \in Finishing \cup {"closing"}
  PROVE  Controls'
<1>1. runner \notin Outside /\ runner' \notin Outside /\ ~failing
  BY DEF Passes, Goto, Outside, Ends, Preparing, Sampling, Finishing, RunShape
<1>2. InForce' = InForce
  BY DEF Passes, Goto, InForce, Preparing, Sampling, Finishing
<1> QED
  BY <1>1, <1>2, ControlsStay DEF Passes, Goto

(* An action of the runner that starts, stops or ends nothing passes, or    *)
(* raises without having touched a control.                                 *)
LEMMA ReadingControls ==
  ASSUME RunTyped, RunShape, Controls,
         CheckWorkers \/ Gathered \/ ReadCounters \/ ReadRows \/ ReadDepth \/ EmitSample
  PROVE  Controls'
<1>1. UNCHANGED <<kind, crash, outage, lockOwner>>
  BY DEF CheckWorkers, Gathered, ReadCounters, ReadRows, ReadDepth, Read, EmitSample
<1>2. CASE Raises
  BY <1>1, <1>2, ControlsRaise DEF Raises
<1>3. ASSUME NEW step, NEW next, Passes(step, next),
             (step = "check" /\ next = "fault") \/ (step \in Sampling /\ next \in Sampling)
      PROVE  Controls'
  BY <1>3, PassingControls
<1>4. CASE EmitSample /\ ~Raises
  <2>1. /\ runner = "emit" /\ point' = point + 1 /\ UNCHANGED <<failing, connection>>
        /\ runner' \in {"check", "drain", "errors"}
    BY <1>4 DEF EmitSample, At
  <2>2. point \in Int /\ ~failing
    BY <2>1 DEF RunTyped, RunShape
  <2>3. InForce' = InForce
    BY <2>1, <2>2 DEF InForce, Sampling
  <2> QED
    BY <1>1, <2>1, <2>2, <2>3, ControlsStay DEF Outside, Ends
<1>5. CASE CheckWorkers
  <2>1. Raises \/ Passes("check", "fault")
    BY <1>5 DEF CheckWorkers, At, Passes
  <2> QED
    BY <1>2, <1>3, <2>1
<1>6. CASE Gathered
  <2>1. Raises \/ Passes("await", "counters")
    BY <1>6 DEF Gathered, At, Passes
  <2> QED
    BY <1>2, <1>3, <2>1 DEF Sampling
<1>7. CASE ReadCounters \/ ReadRows \/ ReadDepth
  <2>1. Raises \/ Passes("counters", "rows") \/ Passes("rows", "depth") \/ Passes("depth", "emit")
    BY <1>1, <1>7 DEF ReadCounters, ReadRows, ReadDepth, Read, At, Passes
  <2> QED
    BY <1>2, <1>3, <2>1 DEF Sampling
<1> QED
  BY <1>2, <1>4, <1>5, <1>6, <1>7

(* Draining and the last check keep the controls. *)
LEMMA DrainingControls ==
  ASSUME RunTyped, RunShape, Controls,
         PollCounters \/ PollDepth \/ EmitBoundary \/ CheckEmitErrors
  PROVE  Controls'
<1>1. UNCHANGED <<kind, crash, outage, lockOwner>>
  BY DEF PollCounters, PollDepth, EmitBoundary, CheckEmitErrors
<1>2. CASE Raises
  BY <1>1, <1>2, ControlsRaise DEF Raises
<1>3. ASSUME NEW step \in Finishing, NEW next \in Finishing \cup {"closing"}, Passes(step, next)
      PROVE  Controls'
  BY <1>3, PassingControls
<1>4. CASE EmitBoundary \/ CheckEmitErrors
  <2>1. Raises \/ Passes("boundary", "errors") \/ Passes("errors", "closing")
    BY <1>1, <1>4 DEF EmitBoundary, CheckEmitErrors, At, Passes
  <2> QED
    BY <1>2, <1>3, <2>1 DEF Finishing
<1>5. CASE runner' = "closing" /\ failing' = TRUE
  BY <1>1, <1>5, ControlsRaise
<1>6. CASE (PollCounters \/ PollDepth) /\ PollAgain /\ ~(runner' = "closing" /\ failing' = TRUE)
  <2>1. /\ runner \in {"drain", "drainDepth"} /\ UNCHANGED <<point, connection, failing>>
        /\ runner' = "drain"
    BY <1>6 DEF PollCounters, PollDepth, PollAgain, At
  <2>2. InForce' = InForce /\ ~failing
    BY <2>1 DEF InForce, Sampling, RunShape
  <2> QED
    BY <1>1, <2>1, <2>2, ControlsStay DEF Outside, Ends
<1>7. CASE (PollCounters \/ PollDepth) /\ ~PollAgain
  <2>1. Raises \/ Passes("drain", "drainDepth") \/ Passes("drainDepth", "boundary")
    BY <1>1, <1>7 DEF PollCounters, PollDepth, At, Passes
  <2> QED
    BY <1>2, <1>3, <2>1 DEF Finishing
<1> QED
  BY <1>2, <1>4, <1>5, <1>6, <1>7

(* The steps before the first window keep the controls. *)
LEMMA PreparingControls ==
  ASSUME RunTyped, RunShape, Controls,
         \/ WaitUntilReady \/ Reset \/ Truncate
         \/ Baseline("baseline", "baselineRows") \/ Baseline("baselineRows", "check")
  PROVE  Controls'
<1>1. runner \in Preparing /\ kind' = kind
  BY DEF WaitUntilReady, Reset, Truncate, Baseline, At, Preparing
<1>2. ~crash /\ ~outage /\ lockOwner # Runner /\ ~connection /\ ~failing /\ InForce = -1
  BY <1>1, NothingYet
<1>3. (crash' = crash \/ crash' = FALSE) /\ (outage' = outage \/ outage' = FALSE)
  BY DEF WaitUntilReady, Reset, Truncate, Baseline
<1>4. CASE EndsAs("failed")
  <2>1. ~crash' /\ ~outage'
    BY <1>2, <1>3
  <2> QED
    BY <1>1, <1>4, <2>1, ControlsEnd DEF Ends
<1>5. ASSUME NEW step \in Preparing, NEW next \in Preparing \cup {"check"}, runner = step,
             Goto(next), lockOwner' = lockOwner
      PROVE  Controls'
  <2>1. runner \notin Outside /\ runner' \notin Outside /\ InForce' = InForce
    BY <1>5 DEF Goto, Outside, Ends, Preparing, InForce, Sampling
  <2>2. First' = First /\ Last' = Last /\ connection' = connection /\ failing' = failing
    BY <1>1, <1>5 DEF First, Last, Goto
  <2>3. ControlsAgree
    BY <1>2, <2>1 DEF Controls, Outside
  <2>4. ControlsAgree'
    BY <1>1, <1>2, <1>3, <1>5, <2>1, <2>2, <2>3 DEF ControlsAgree, Imposed
  <2> QED
    BY <1>1, <1>2, <1>3, <1>5, <2>1, <2>4 DEF Controls, Outside, Ends
<1>6. \/ EndsAs("failed")
      \/ /\ lockOwner' = lockOwner
         /\ \/ runner = "boot" /\ Goto("reset")
            \/ runner = "reset" /\ Goto("truncate")
            \/ runner = "truncate" /\ Goto("baseline")
            \/ runner = "baseline" /\ Goto("baselineRows")
            \/ runner = "baselineRows" /\ Goto("check")
  BY DEF WaitUntilReady, Reset, Truncate, Baseline, At
<1> QED
  BY <1>4, <1>5, <1>6 DEF Preparing

(* The finally of main leaves no fault behind, unless a DELETE fails. *)
LEMMA ClosingControls ==
  ASSUME TypeOK, RunTyped, RunShape, Controls, Close \/ CloseLock
  PROVE  Controls'
<1>1. kind' = kind /\ Runner # Nobody
  BY MatrixNames DEF Close, CloseLock
<1>2. CASE CloseLock
  <2>1. runner = "closingUnlock" /\ UNCHANGED <<crash, outage>> /\ ~crash /\ ~outage
    BY <1>2 DEF CloseLock, Controls, At
  <2>2. EndsAs(End) \/ EndsAs("failed")
    BY <1>2 DEF CloseLock
  <2> QED
    BY <1>1, <2>1, <2>2, ControlsEnd DEF End, Ends
<1>3. CASE Close
  <2>1. runner = "closing" /\ (kind = "none" => ~crash /\ ~outage)
    BY <1>3 DEF Close, At, Controls
  <2>2. CASE kind = "none"
    <3>1. EndsAs(End) /\ UNCHANGED <<crash, outage>>
      BY <1>3, <2>2 DEF Close
    <3> QED
      BY <1>1, <2>1, <2>2, <3>1, ControlsEnd DEF End, Ends
  <2>3. CASE kind # "none" /\ EndsAs("unswept")
    BY <1>1, <2>3, ControlsEnd DEF Ends
  <2>4. CASE kind # "none" /\ Delete /\ EndsAs(End)
    BY <1>1, <2>4, ControlsEnd DEF End, Ends, Delete
  <2>5. CASE kind # "none" /\ Delete /\ Goto("closingUnlock")
    BY <1>1, <2>5 DEF Controls, Delete, Goto, Ends
  <2> QED
    BY <1>3, <2>2, <2>3, <2>4, <2>5 DEF Close
<1> QED
  BY <1>2, <1>3

(* Every step of main keeps the controls as they should be. *)
LEMMA RunnerKeepsControls ==
  ASSUME TypeOK, RunTyped, RunShape, Controls, RunnerStep
  PROVE  Controls'
BY PreparingControls, FaultStepControls, ReadingControls, DrainingControls, ClosingControls
   DEF RunnerStep

-----------------------------------------------------------------------------
(* Windows follow each other, and nothing happens before the first one *)

(* A step of the application; a request is sent while main awaits its window. *)
AppStep ==
  /\ UNCHANGED <<runVars, kind, timedOut, sample>>
  /\ \/ \E r \in Requests :
          Handler(r) \/ (Send(r) /\ runner = "await" /\ Window[r] = point)
     \/ \E w \in Workers : Work(w)

(* A step of a case is one of main, one of the application, or a timeout. *)
LEMMA CaseSteps ==
  ASSUME [CaseNext]_caseVars
  PROVE  \/ RunnerStep
         \/ AppStep
         \/ \E r \in Requests : TimeOut(r)
         \/ UNCHANGED caseVars
BY DEF CaseNext, AppStep, CaseHandler, CaseWork, Checkout, At, Submitted

(* An application that nobody has sent anything.                            *)
Quiet ==
  /\ queue = <<>> /\ crossings = <<>> /\ logs = NoLogs
  /\ \A w \in Workers : hand[w] = Nobody /\ found[w] = 0
                        /\ workerPc[w] \in FreeSteps \cup DoomedSteps
  /\ \A r \in Requests : table[r] = 0 /\ seen[r] = 0
  /\ counters["worker_processed"] = 0

Fresh == (\A r \in Requests : apiPc[r] = "idle") => Quiet

(* A handler thread runs from its first step to its answer.                 *)
LEMMA HandlerRuns ==
  ASSUME TypeOK, NEW r \in Requests, Send(r) \/ Handler(r)
  PROVE  /\ apiPc'[r] # "idle"
         /\ Send(r) => apiPc[r] = "idle"
         /\ Handler(r) => apiPc[r] \notin {"idle", "answered", "dropped"}
<1>1. apiPc \in [Requests -> ApiSteps]
  BY DEF TypeOK
<1>2. CASE Send(r)
  BY <1>1, <1>2 DEF Send, ApiGoto, Handler, Gate, Push, Emit, ExcuseEmit, Count, Reply
<1>3. CASE Handler(r)
  BY <1>1, <1>3 DEF Send, ApiGoto, Handler, Gate, Push, Emit, ExcuseEmit, Count, Reply
<1> QED
  BY <1>2, <1>3

(* A worker of a quiet application finds nothing to do.                     *)
LEMMA WorkerFindsNothing ==
  ASSUME TypeOK, Quiet, NEW w \in Workers, Work(w)
  PROVE  Quiet'
<1>1. PICK step \in WorkerSteps :
        /\ workerPc' = [workerPc EXCEPT ![w] = step]
        /\ MovesNothing(w, step) \/ Pops(w, step) \/ Stores(w, step) \/ LetsGo(w, step)
  BY WorkKinds
<1>2. workerPc[w] \in FreeSteps \cup DoomedSteps /\ queue = <<>>
  BY DEF Quiet
<1>3. /\ UNCHANGED <<queue, hand, table>>
      /\ step \in FreeSteps \cup DoomedSteps
  BY <1>1, <1>2 DEF MovesNothing, Pops, Stores, LetsGo, FreeSteps, DoomedSteps, DueSteps, DoneSteps
<1>4. \A v \in Workers : workerPc'[v] \in FreeSteps \cup DoomedSteps
  BY <1>1, <1>3 DEF Quiet, TypeOK
<1>5. /\ UNCHANGED <<crossings, found, logs, seen>>
      /\ counters'["worker_processed"] = counters["worker_processed"]
  <2> USE DEF listVars, reports, apiVars
  <2>1. CASE Dequeue(w)
    BY <1>2, <2>1 DEF Dequeue, Take, MayApply
  <2>2. CASE EmitWorker(w)
    <3>1. workerPc[w] # "complete"
      BY <1>2 DEF FreeSteps, DoomedSteps
    <3> QED
      BY <2>2, <3>1 DEF EmitWorker, WorkerLog, MayApply
  <2>3. CASE ExcuseWorker(w)
    BY <2>3, ExcuseCounts DEF ExcuseWorker
  <2>4. CASE CheckCrash(w) \/ Register(w) \/ MeasureWait(w) \/ Lock(w)
    BY <2>4 DEF CheckCrash, Register, MeasureWait, Lock
  <2>5. CASE Commit(w) \/ CountWork(w)
    BY <1>2, <2>5 DEF Commit, CountWork, FreeSteps, DoomedSteps
  <2> QED
    BY <2>1, <2>2, <2>3, <2>4, <2>5 DEF Work
<1> QED
  BY <1>3, <1>4, <1>5 DEF Quiet

(* The application stays untouched as long as no request is submitted. *)
LEMMA AppKeepsFresh ==
  ASSUME TypeOK, Fresh, AppStep
  PROVE  Fresh'
<1>1. ASSUME NEW r \in Requests, Send(r) \/ Handler(r) PROVE Fresh'
  BY <1>1, HandlerRuns DEF Fresh
<1>2. ASSUME NEW w \in Workers, Work(w) PROVE Fresh'
  <2>1. apiPc' = apiPc
    BY <1>2, WorkKinds
  <2> QED
    BY <1>2, <2>1, WorkerFindsNothing DEF Fresh
<1> QED
  BY <1>1, <1>2 DEF AppStep

(* The preparations of main do not wake it either. *)
LEMMA RunnerKeepsFresh ==
  ASSUME Fresh, RunnerStep
  PROVE  Fresh'
<1>1. UNCHANGED <<crossings, apiPc, seen, workerPc, hand, found, logs>>
  BY RunnerFrame DEF appRest
<1>2. /\ queue' = queue \/ queue' = <<>>
      /\ \/ counters' = counters
         \/ counters'["worker_processed"] = 0
      /\ \/ table' = table
         \/ \A r \in Requests : table'[r] = 0
  BY RunnerFrame DEF NoCounts, CounterNames
<1> QED
  BY <1>1, <1>2 DEF Fresh, Quiet

(* Where a window ends for its requests: all of them are answered as the    *)
(* window expects; those of the windows to come have not been sent.         *)
ExpectedAt(p) == IF kind = "cache_outage" /\ Imposed(p) THEN 503 ELSE 202
Settled(r) == r \notin timedOut /\ apiPc[r] = "answered" /\ status[r] = ExpectedAt(Window[r])
Gone == IF runner \in {"counters", "rows", "depth", "emit"} THEN point + 1 ELSE point

InOrder ==
  ~failing =>
    \A r \in Requests :
      /\ Window[r] < Gone => Settled(r)
      /\ Window[r] >= Gone /\ ~(runner = "await" /\ Window[r] = point) => apiPc[r] = "idle"

(* A request moves only in its own window, and is settled with it. *)
LEMMA AppKeepsOrder ==
  ASSUME TypeOK, InOrder, AppStep
  PROVE  InOrder'
<1>1. UNCHANGED <<runner, failing, point, kind, timedOut>>
  BY DEF AppStep, runVars
<1>2. /\ Gone' = Gone /\ First' = First /\ Last' = Last
      /\ \A p : ExpectedAt(p)' = ExpectedAt(p)
  BY <1>1 DEF Gone, First, Last, ExpectedAt, Imposed
<1>3. ASSUME NEW r \in Requests, apiPc'[r] = apiPc[r], status'[r] = status[r]
      PROVE  Settled(r)' = Settled(r)
  BY <1>1, <1>2, <1>3 DEF Settled
<1>4. CASE \E w \in Workers : Work(w)
  <2>1. UNCHANGED <<apiPc, status>>
    BY <1>4, WorkKinds
  <2> QED
    BY <1>1, <1>2, <1>3, <2>1 DEF InOrder
<1>5. ASSUME NEW r \in Requests, Handler(r) \/ (Send(r) /\ runner = "await" /\ Window[r] = point)
      PROVE  InOrder'
  <2>1. \A s \in Requests : s # r => apiPc'[s] = apiPc[s] /\ status'[s] = status[s]
    BY <1>5, HandlerKinds
  <2>2. ASSUME ~failing, Window[r] < Gone PROVE FALSE
    <3>1. apiPc[r] = "answered"
      BY <2>2 DEF InOrder, Settled
    <3> QED
      BY <1>5, <3>1, HandlerRuns
  <2>3. ASSUME ~failing, Window[r] >= Gone, ~(runner = "await" /\ Window[r] = point) PROVE FALSE
    <3>1. apiPc[r] = "idle"
      BY <2>3 DEF InOrder
    <3> QED
      BY <1>5, <2>3, <3>1, HandlerRuns
  <2> QED
    BY <1>1, <1>2, <1>3, <2>1, <2>2, <2>3 DEF InOrder
<1> QED
  BY <1>4, <1>5 DEF AppStep

(* A client that gives up does not make its request settled. *)
LEMMA TimeOutKeepsOrder ==
  ASSUME InOrder, NEW r \in Requests, TimeOut(r), point \in Nat
  PROVE  InOrder'
<1>1. /\ UNCHANGED <<runner, failing, point, kind, apiPc, status>>
      /\ timedOut' = timedOut \cup {r} /\ runner = "await" /\ Window[r] = point
  BY DEF TimeOut, runVars, appVars, appRest, At, Submitted
<1>2. /\ Gone' = Gone /\ First' = First /\ Last' = Last /\ Gone = point
      /\ \A p : ExpectedAt(p)' = ExpectedAt(p)
  BY <1>1 DEF Gone, First, Last, ExpectedAt, Imposed
<1>3. \A s \in Requests : s # r => Settled(s)' = Settled(s)
  BY <1>1, <1>2 DEF Settled
<1>4. ~(Window[r] < Gone)
  BY <1>1, <1>2
<1> QED
  BY <1>1, <1>2, <1>3, <1>4 DEF InOrder

(* The end of the waiting closes a window; every other step keeps to it.    *)
LEMMA KeepsToWindow ==
  ASSUME RunnerStep, ~Gathered
  PROVE  failing' = TRUE \/ (Gone' = Gone /\ runner # "await")
<1> USE DEF At, Goto, Raises, EndsAs, Gone
<1>1. CASE WaitUntilReady \/ Reset \/ Truncate
  BY <1>1 DEF WaitUntilReady, Reset, Truncate
<1>2. CASE Baseline("baseline", "baselineRows") \/ Baseline("baselineRows", "check")
  BY <1>2 DEF Baseline
<1>3. CASE CheckWorkers \/ NoFaultDue \/ StartFault \/ StopFault \/ StopLock
  BY <1>3 DEF CheckWorkers, NoFaultDue, StartFault, StopFault, StopLock
<1>4. CASE ReadCounters \/ ReadRows \/ ReadDepth
  BY <1>4 DEF ReadCounters, ReadRows, ReadDepth, Read
<1>5. CASE EmitSample
  BY <1>5 DEF EmitSample
<1>6. CASE PollCounters \/ PollDepth \/ EmitBoundary \/ CheckEmitErrors
  BY <1>6 DEF PollCounters, PollDepth, PollAgain, EmitBoundary, CheckEmitErrors
<1>7. CASE Close \/ CloseLock
  BY <1>7 DEF Close, CloseLock, End, Ends
<1> QED
  BY <1>1, <1>2, <1>3, <1>4, <1>5, <1>6, <1>7 DEF RunnerStep

(* An exception is not forgotten.                                           *)
LEMMA FailingStays ==
  ASSUME RunnerStep, failing
  PROVE  failing'
<1> USE DEF Goto, Raises, EndsAs
<1>1. CASE WaitUntilReady \/ Reset \/ Truncate
  BY <1>1 DEF WaitUntilReady, Reset, Truncate
<1>2. CASE Baseline("baseline", "baselineRows") \/ Baseline("baselineRows", "check")
  BY <1>2 DEF Baseline
<1>3. CASE CheckWorkers \/ NoFaultDue \/ StartFault \/ StopFault \/ StopLock \/ Gathered
  BY <1>3 DEF CheckWorkers, NoFaultDue, StartFault, StopFault, StopLock, Gathered
<1>4. CASE ReadCounters \/ ReadRows \/ ReadDepth \/ EmitSample
  BY <1>4 DEF ReadCounters, ReadRows, ReadDepth, Read, EmitSample
<1>5. CASE PollCounters \/ PollDepth \/ EmitBoundary \/ CheckEmitErrors
  BY <1>5 DEF PollCounters, PollDepth, PollAgain, EmitBoundary, CheckEmitErrors
<1>6. CASE Close \/ CloseLock
  BY <1>6 DEF Close, CloseLock
<1> QED
  BY <1>1, <1>2, <1>3, <1>4, <1>5, <1>6 DEF RunnerStep

(* Every request belongs to a window of the run. *)
LEMMA WindowType ==
  \A r \in Requests : Window[r] \in 0 .. PointCount - 1 /\ Window[r] \in Int
BY CaseAssumption

(* main only closes a window whose requests are settled. *)
LEMMA RunnerKeepsOrder ==
  ASSUME RunTyped, RunShape, InOrder, RunnerStep
  PROVE  InOrder'
<1>1. UNCHANGED <<apiPc, status, kind, timedOut>>
  BY RunnerFrame DEF appRest
<1>2. /\ First' = First /\ Last' = Last
      /\ \A p : ExpectedAt(p)' = ExpectedAt(p)
  BY <1>1 DEF First, Last, ExpectedAt, Imposed
<1>3. \A r \in Requests : Settled(r)' = Settled(r)
  BY <1>1, <1>2 DEF Settled
<1>4. CASE Gathered /\ failing'
  BY <1>4 DEF InOrder
<1>5. CASE Gathered /\ ~failing'
  <2>1. /\ runner = "await" /\ runner' = "counters" /\ UNCHANGED <<failing, point>>
        /\ \A r \in Submitted : Accepts(r)
    BY <1>5 DEF Gathered, Goto, Raises, At
  <2>2. point \in Int /\ Gone = point /\ Gone' = point + 1 /\ ~failing
    BY <2>1 DEF RunTyped, Gone, RunShape
  <2>3. \A r \in Requests : Window[r] = point => Settled(r)
    <3>1. Expected = ExpectedAt(point)
      BY DEF Expected, ExpectedAt, InFault, Imposed
    <3> QED
      BY <2>1, <3>1 DEF Submitted, Accepts, Settled
  <2>4. ASSUME NEW r \in Requests
        PROVE  /\ Window[r] < point + 1 => Settled(r)
               /\ Window[r] >= point + 1 => apiPc[r] = "idle"
    <3>1. Window[r] \in Int
      BY WindowType
    <3> QED
      BY <2>1, <2>2, <2>3, <3>1 DEF InOrder
  <2> QED
    BY <1>1, <1>3, <2>1, <2>2, <2>4 DEF InOrder
<1>6. CASE ~Gathered /\ ~failing'
  <2>1. Gone' = Gone /\ runner # "await"
    BY <1>6, KeepsToWindow
  <2>2. failing => failing'
    BY <1>6, FailingStays
  <2> QED
    BY <1>1, <1>3, <1>6, <2>1, <2>2 DEF InOrder
<1>7. CASE ~Gathered /\ failing'
  BY <1>7 DEF InOrder
<1> QED
  BY <1>4, <1>5, <1>6, <1>7

-----------------------------------------------------------------------------
(* What the counters say between two resets *)

Counted == {r \in Requests : apiPc[r] \in {"reply", "answered", "dropped"}}
Refused == {r \in Counted : status[r] # 202}

(* The counters of the API count the requests past their tally.             *)
CountsExact ==
  "api" \notin swallowed =>
    /\ counters["api_requests"] = Cardinality(Counted)
    /\ counters["api_errors"] = Cardinality(Refused)

(* The counters that the proofs speak of are natural numbers. *)
LEMMA CounterTypes ==
  ASSUME TypeOK
  PROVE  /\ counters \in [CounterNames -> Nat]
         /\ \A c \in CounterNames : counters[c] \in Nat
         /\ {"api_requests", "api_errors", "worker_processed", "application_log_emit_errors"}
              \subseteq CounterNames
BY DEF TypeOK, CounterNames

(* The tally of a failed report leaves the counters of the API alone.       *)
LEMMA ExcuseLeavesApi ==
  ASSUME TypeOK, CountEmitError
  PROVE  /\ counters'["api_requests"] = counters["api_requests"]
         /\ counters'["api_errors"] = counters["api_errors"]
         /\ "api" \in swallowed' <=> "api" \in swallowed
<1>1. \/ counters' = counters
      \/ Tally({"application_log_emit_errors"})
  BY DEF CountEmitError, MayApply
<1>2. "api" \in swallowed' <=> "api" \in swallowed
  BY DEF CountEmitError
<1> QED
  BY <1>1, <1>2, CounterTypes, TallyCounts DEF Indicator

(* A handler counts its request once, and its error once. *)
LEMMA HandlerKeepsCounts ==
  ASSUME TypeOK, CountsExact, NEW r \in Requests, Send(r) \/ Handler(r)
  PROVE  CountsExact'
<1>0. /\ apiPc \in [Requests -> ApiSteps] /\ status \in [Requests -> Statuses]
      /\ \A s \in Requests : s # r => apiPc'[s] = apiPc[s] /\ status'[s] = status[s]
  BY StatusType, HandlerKinds DEF TypeOK
<1>1. ASSUME r \notin Counted, r \notin Counted',
             counters'["api_requests"] = counters["api_requests"],
             counters'["api_errors"] = counters["api_errors"],
             "api" \in swallowed => "api" \in swallowed'
      PROVE  CountsExact'
  <2>1. Counted' = Counted /\ Refused' = Refused
    BY <1>0, <1>1 DEF Counted, Refused
  <2> QED
    BY <1>1, <2>1 DEF CountsExact
<1>2. CASE ExcuseEmit(r)
  <2>1. r \notin Counted /\ r \notin Counted'
    BY <1>0, <1>2 DEF ExcuseEmit, ApiGoto, Counted
  <2> QED
    BY <1>1, <1>2, <2>1, ExcuseLeavesApi DEF ExcuseEmit
<1>3. CASE Send(r) \/ Gate(r) \/ Push(r) \/ Emit(r)
  <2>1. r \notin Counted /\ r \notin Counted'
    BY <1>0, <1>3 DEF Send, Gate, Push, Emit, ApiGoto, Counted
  <2>2. UNCHANGED <<counters, swallowed>>
    BY <1>3 DEF Send, Gate, Push, Emit, reports
  <2> QED
    BY <1>1, <2>1, <2>2
<1>4. CASE Reply(r)
  <2>1. /\ r \in Counted /\ r \in Counted' /\ UNCHANGED <<counters, swallowed, status>>
    BY <1>0, <1>4 DEF Reply, ApiGoto, Counted, reports
  <2>2. Counted' = Counted /\ Refused' = Refused
    BY <1>0, <2>1 DEF Counted, Refused
  <2> QED
    BY <2>1, <2>2 DEF CountsExact
<1>5. CASE Count(r)
  <2>1. /\ r \notin Counted /\ r \in Counted' /\ status' = status
    BY <1>0, <1>5 DEF Count, ApiGoto, Counted
  <2>2. CASE "api" \in swallowed'
    BY <2>2 DEF CountsExact
  <2>3. CASE "api" \notin swallowed'
    <3>1. Tally({"api_requests"} \cup IF status[r] # 202 THEN {"api_errors"} ELSE {})
          /\ "api" \notin swallowed
      BY <1>5, <2>3 DEF Count
    <3>2. /\ counters'["api_requests"] = counters["api_requests"] + 1
          /\ counters'["api_errors"] = counters["api_errors"] + Indicator(status[r] # 202)
      BY <3>1, CounterTypes, TallyCounts DEF Indicator
    <3>3. /\ IsFiniteSet(Counted) /\ IsFiniteSet(Counted')
          /\ IsFiniteSet(Refused) /\ IsFiniteSet(Refused')
      BY ActorsAreFinite DEF Counted, Refused
    <3>4. \A y : y # r => /\ y \in Counted' <=> y \in Counted
                          /\ y \in Refused' <=> y \in Refused
      BY <1>0, <2>1 DEF Counted, Refused
    <3>5. r \notin Refused /\ (r \in Refused' <=> status[r] # 202)
      BY <2>1 DEF Refused
    <3>6. Cardinality(Counted') = Cardinality(Counted) + 1
      BY <2>1, <3>3, <3>4, OneDiffers DEF Indicator
    <3>7. Cardinality(Refused') = Cardinality(Refused) + Indicator(status[r] # 202)
      BY <3>3, <3>4, <3>5, OneDiffers DEF Indicator
    <3> QED
      BY <3>1, <3>2, <3>6, <3>7 DEF CountsExact
  <2> QED
    BY <2>2, <2>3
<1> QED
  BY <1>2, <1>3, <1>4, <1>5 DEF Handler

(* A worker counts no request. *)
LEMMA WorkKeepsCounts ==
  ASSUME TypeOK, CountsExact, NEW w \in Workers, Work(w)
  PROVE  CountsExact'
<1>1. UNCHANGED <<apiPc, status>>
  BY WorkKinds
<1>2. Counted' = Counted /\ Refused' = Refused
  BY <1>1 DEF Counted, Refused
<1>3. /\ counters'["api_requests"] = counters["api_requests"]
      /\ counters'["api_errors"] = counters["api_errors"]
      /\ "api" \in swallowed => "api" \in swallowed'
  <2>1. CASE Before(w)
    BY <2>1, BeforeTheCommit
  <2>2. CASE Commit(w) \/ EmitWorker(w)
    BY <2>2 DEF Commit, EmitWorker, reports
  <2>3. CASE ExcuseWorker(w)
    BY <2>3, ExcuseLeavesApi DEF ExcuseWorker
  <2>4. CASE CountWork(w)
    <3>1. /\ \/ counters' = counters
             \/ Tally({"worker_processed"})
          /\ "api" \in swallowed => "api" \in swallowed'
      BY <2>4 DEF CountWork, MayApply
    <3> QED
      BY <3>1, CounterTypes, TallyCounts DEF Indicator
  <2> QED
    BY <2>1, <2>2, <2>3, <2>4 DEF Work, Before
<1> QED
  BY <1>2, <1>3 DEF CountsExact

(* Before the first window nobody has called.                               *)
LEMMA NobodyYet ==
  ASSUME RunShape, InOrder, runner \in Preparing
  PROVE  \A r \in Requests : apiPc[r] = "idle"
<1>1. ~failing /\ Gone = 0 /\ runner # "await"
  BY DEF RunShape, Preparing, Gone
<1>2. \A r \in Requests : Window[r] >= 0
  BY CaseAssumption
<1> QED
  BY <1>1, <1>2 DEF InOrder

(* The reset happens before any request is counted. *)
LEMMA RunnerKeepsCounts ==
  ASSUME TypeOK, RunShape, InOrder, CountsExact, RunnerStep
  PROVE  CountsExact'
<1>1. UNCHANGED <<apiPc, status, swallowed>>
  BY RunnerFrame DEF appRest
<1>2. Counted' = Counted /\ Refused' = Refused
  BY <1>1 DEF Counted, Refused
<1>3. CASE counters' = counters
  BY <1>1, <1>2, <1>3 DEF CountsExact
<1>4. CASE runner = "reset" /\ counters' = NoCounts
  <2>1. Counted = {} /\ Refused = {}
    BY <1>4, NobodyYet DEF Preparing, Counted, Refused
  <2>2. counters'["api_requests"] = 0 /\ counters'["api_errors"] = 0
    BY <1>4 DEF NoCounts, CounterNames
  <2> QED
    BY <1>2, <2>1, <2>2, FS_EmptySet DEF CountsExact
<1> QED
  BY <1>3, <1>4, RunnerFrame

-----------------------------------------------------------------------------
(* What one sample says, read in three calls *)

SentUpTo(p) == {r \in Requests : Window[r] <= p}
FailedUpTo(p) == {r \in SentUpTo(p) : ExpectedAt(Window[r]) = 503}

Holds(c, p) ==
  /\ c["api_requests"] = Cardinality(SentUpTo(p))
  /\ c["api_errors"] = Cardinality(FailedUpTo(p))

(* The snapshots of the counters are those of a closed window ...           *)
CountersKept ==
  "api" \notin swallowed =>
    /\ runner \in {"baselineRows"} \cup Looping => Holds(previous.counters, point - 1)
    /\ runner \in {"rows", "depth", "emit"} => Holds(current.counters, point)

(* ... the rows are read after the counters and have not become fewer ...   *)
RowsKept ==
  /\ runner = "rows" => current.counters["worker_processed"] <= Cardinality(Rows)
  /\ runner \in {"depth", "emit"} =>
       /\ current.counters["worker_processed"] <= current.rows
       /\ current.rows <= Cardinality(Rows)

(* ... and the length is read last, when a stored item has left the list.   *)
ListKept ==
  runner = "emit" =>
    current.rows + depth <= Cardinality(SentUpTo(point)) - Cardinality(FailedUpTo(point))

Snapshots == CountersKept /\ RowsKept /\ ListKept

(* A list without repetitions is as long as the set of its items. *)
LEMMA DistinctLength ==
  ASSUME NEW S, NEW s \in Seq(S), Distinct(s)
  PROVE  Cardinality({e \in S : Occurs(e, s)}) = Len(s)
<1> DEFINE T == {e \in S : Occurs(e, s)}
           f == [i \in 1 .. Len(s) |-> s[i]]
<1>1. f \in [1 .. Len(s) -> T] /\ Len(s) \in Nat
  BY DEF Occurs
<1>2. f \in Injection(1 .. Len(s), T)
  BY <1>1 DEF Injection, IsInjective, Distinct
<1>3. f \in Surjection(1 .. Len(s), T)
  BY <1>1 DEF Surjection, Occurs
<1>4. ExistsBijection(1 .. Len(s), T)
  BY <1>2, <1>3 DEF ExistsBijection, Bijection
<1> QED
  BY <1>1, <1>4, FS_CountingElements

(* What is known when a window is closed.                                   *)
Closed == {"counters", "rows", "depth", "emit"}

(* In a closed window every request is settled, and no later one has started. *)
LEMMA ClosedWindow ==
  ASSUME RunTyped, RunShape, InOrder, runner \in Closed
  PROVE  \A r \in Requests :
           /\ Window[r] <= point => Settled(r)
           /\ ~(Window[r] <= point) => apiPc[r] = "idle"
<1>1. ~failing /\ Gone = point + 1 /\ runner # "await" /\ point \in Int
  BY DEF RunTyped, RunShape, Closed, Gone
<1>2. \A r \in Requests : Window[r] \in Int
  BY WindowType
<1> QED
  BY <1>1, <1>2 DEF InOrder

(* A request expects one of two answers. *)
LEMMA ExpectedValues == \A p : ExpectedAt(p) \in {202, 503}
BY DEF ExpectedAt

(* In a closed window the counters are those of the requests up to it. *)
LEMMA ClosedCounts ==
  ASSUME RunTyped, RunShape, InOrder, CountsExact, runner \in Closed, "api" \notin swallowed
  PROVE  Holds(counters, point)
<1>1. Counted = SentUpTo(point)
  BY ClosedWindow DEF Counted, SentUpTo, Settled
<1>2. Refused = FailedUpTo(point)
  BY <1>1, ClosedWindow, ExpectedValues DEF Refused, FailedUpTo, SentUpTo, Settled
<1> QED
  BY <1>1, <1>2 DEF CountsExact, Holds

(* In a closed window rows and queued items together are at most the accepted ones. *)
LEMMA ClosedItems ==
  ASSUME TypeOK, Custody, Agreement, RunTyped, RunShape, InOrder, runner \in Closed
  PROVE  /\ Cardinality(Rows) \in Nat
         /\ Cardinality(Rows) + Len(queue)
              <= Cardinality(SentUpTo(point)) - Cardinality(FailedUpTo(point))
<1> DEFINE listed == {r \in Requests : Occurs(r, queue)}
           accepted == SentUpTo(point) \ FailedUpTo(point)
<1>1. Cardinality(listed) = Len(queue)
  BY DistinctLength DEF TypeOK, Custody
<1>2. \A r \in listed : Queued(r)
  BY DEF Occurs, Queued
<1>3. Rows \cap listed = {}
  BY <1>2 DEF Rows, Custody, OnePlace
<1>4. ASSUME NEW r \in Rows \cup listed PROVE r \in accepted
  <2>1. r \in Requests /\ (Stored(r) \/ Queued(r))
    BY <1>2, <1>4 DEF Rows
  <2>2. Place(r) # "outside"
    BY <2>1 DEF Place
  <2>3. apiPc[r] \notin Early
    BY <2>1 DEF Custody, NotYet
  <2>4. Settled(r) /\ r \in SentUpTo(point)
    BY <2>1, <2>3, ClosedWindow DEF Early, SentUpTo
  <2>5. status[r] # 503
    BY <2>1, <2>2, <2>3 DEF Agreement, StatusAgrees
  <2> QED
    BY <2>4, <2>5 DEF Settled, FailedUpTo
<1>5. /\ IsFiniteSet(SentUpTo(point)) /\ FailedUpTo(point) \subseteq SentUpTo(point)
      /\ Cardinality(SentUpTo(point)) \in Nat /\ Cardinality(FailedUpTo(point)) \in Nat
      /\ IsFiniteSet(Rows) /\ IsFiniteSet(listed) /\ IsFiniteSet(accepted)
      /\ Cardinality(Rows) \in Nat /\ Cardinality(listed) \in Nat /\ Cardinality(accepted) \in Nat
  BY ActorsAreFinite DEF SentUpTo, FailedUpTo, Rows
<1> HIDE DEF listed, accepted
<1>6. Cardinality(accepted) = Cardinality(SentUpTo(point)) - Cardinality(FailedUpTo(point))
  <2>1. SentUpTo(point) \cap FailedUpTo(point) = FailedUpTo(point)
    BY <1>5
  <2> QED
    BY <1>5, <2>1, FS_Difference DEF accepted
<1>7. Cardinality(Rows \cup listed) = Cardinality(Rows) + Cardinality(listed)
  <2>1. Cardinality(Rows \cap listed) = 0
    BY <1>3, FS_EmptySet
  <2> QED
    BY <1>5, <2>1, FS_Union
<1>8. Cardinality(Rows \cup listed) <= Cardinality(accepted)
  BY <1>4, <1>5, FS_Subset
<1> QED
  BY <1>1, <1>5, <1>6, <1>7, <1>8

(* Rows are not removed while the application runs.                         *)
LEMMA RowsGrow ==
  ASSUME TypeOK, AppStep
  PROVE  /\ Cardinality(Rows) \in Nat /\ Cardinality(Rows') \in Nat
         /\ Cardinality(Rows) <= Cardinality(Rows')
<1>1. \A r \in Requests : table[r] \in Nat
  BY DEF TypeOK
<1>2. CASE \E r \in Requests : Send(r) \/ Handler(r)
  <2>1. table' = table
    BY <1>2, HandlerKinds
  <2> QED
    BY <2>1, ActorsAreFinite DEF Rows, Stored
<1>3. ASSUME NEW w \in Workers, Work(w)
      PROVE  Rows \subseteq Rows'
  <2>1. table' = table \/ table' = [table EXCEPT ![hand[w]] = @ + 1]
    BY <1>3, WorkKinds DEF MovesNothing, Pops, Stores, LetsGo
  <2>2. ASSUME NEW r \in Requests PROVE table'[r] \in {table[r], table[r] + 1}
    BY <2>1 DEF TypeOK
  <2> QED
    BY <1>1, <2>2 DEF Rows, Stored
<1>4. CASE \E w \in Workers : Work(w)
  <2>1. Rows \subseteq Rows'
    BY <1>3, <1>4
  <2>2. IsFiniteSet(Rows') /\ Cardinality(Rows) \in Nat /\ Cardinality(Rows') \in Nat
    BY ActorsAreFinite DEF Rows
  <2> QED
    BY <2>1, <2>2, FS_Subset
<1> QED
  BY <1>2, <1>4 DEF AppStep

(* Nobody moves the windows of the requests.                                *)
LEMMA SentStays ==
  ASSUME kind' = kind
  PROVE  \A p : SentUpTo(p)' = SentUpTo(p) /\ FailedUpTo(p)' = FailedUpTo(p)
<1>1. \A p : Imposed(p)' = Imposed(p)
  BY DEF Imposed, First, Last
<1> QED
  BY <1>1 DEF SentUpTo, FailedUpTo, ExpectedAt

(* The application does not undo what a snapshot says. *)
LEMMA AppKeepsSnapshots ==
  ASSUME TypeOK, RunTyped, Snapshots, AppStep, "api" \in swallowed => "api" \in swallowed'
  PROVE  Snapshots'
<1>1. UNCHANGED <<runner, point, kind, previous, current, depth>>
  BY DEF AppStep, runVars, sample
<1>2. \A p : SentUpTo(p)' = SentUpTo(p) /\ FailedUpTo(p)' = FailedUpTo(p)
  BY <1>1, SentStays
<1>3. CountersKept'
  BY <1>1, <1>2 DEF Snapshots, CountersKept, Holds
<1>4. ListKept'
  BY <1>1, <1>2 DEF Snapshots, ListKept
<1>5. current.counters["worker_processed"] \in Nat /\ current.rows \in Nat
  BY DEF RunTyped, Samples, CounterNames
<1>6. RowsKept'
  BY <1>1, <1>5, RowsGrow DEF Snapshots, RowsKept
<1> QED
  BY <1>3, <1>4, <1>6 DEF Snapshots

(* Where no snapshot is in use nothing has to be kept.                      *)
LEMMA NoSnapshots ==
  ASSUME runner' \notin {"baselineRows"} \cup Looping
  PROVE  Snapshots'
BY DEF Snapshots, CountersKept, RowsKept, ListKept, Looping, Sampling

(* The way to the readings of a window keeps the last one's.                *)
LEMMA TheWayKeepsSnapshots ==
  ASSUME Snapshots, kind' = kind, point' = point, swallowed' = swallowed,
         previous'.counters = previous.counters,
         runner \in {"baselineRows"} \cup Looping,
         runner' \in {"check", "fault", "unlock", "await", "counters"}
  PROVE  Snapshots'
<1>1. \A p : SentUpTo(p)' = SentUpTo(p) /\ FailedUpTo(p)' = FailedUpTo(p)
  BY SentStays
<1> QED
  BY <1>1 DEF Snapshots, CountersKept, RowsKept, ListKept, Holds

(* Counters, rows and length are read in that order, and stay consistent. *)
LEMMA ReadingsKeepSnapshots ==
  ASSUME TypeOK, Custody, Agreement, RowLadder, RunTyped, RunShape, InOrder, CountsExact,
         Snapshots, ReadCounters \/ ReadRows \/ ReadDepth \/ EmitSample
  PROVE  Snapshots'
<1>1. UNCHANGED <<appVars, kind>> /\ swallowed' = swallowed /\ Rows' = Rows
  BY DEF ReadCounters, ReadRows, ReadDepth, Read, EmitSample, appVars, appRest, Rows, Stored
<1>2. \A p : SentUpTo(p)' = SentUpTo(p) /\ FailedUpTo(p)' = FailedUpTo(p)
  BY <1>1, SentStays
<1>3. /\ current \in Samples /\ point \in Nat /\ Cardinality(Rows) \in Nat
      /\ RowCount = Cardinality(Rows)
      /\ current.counters["worker_processed"] \in Nat /\ current.rows \in Nat
  BY ActorsAreFinite DEF RunTyped, Samples, CounterNames, Rows, RowCount, Stored
<1>4. CASE Raises
  BY <1>4, NoSnapshots DEF Raises, Looping, Sampling
<1>5. CASE ReadCounters /\ ~Raises
  <2>1. /\ runner = "counters" /\ runner' = "rows" /\ point' = point
        /\ previous' = previous /\ current'.counters = counters
    BY <1>3, <1>5 DEF ReadCounters, Read, At, Goto, Samples
  <2>2. "api" \notin swallowed => Holds(counters, point)
    BY <2>1, ClosedCounts DEF Closed
  <2>3. counters["worker_processed"] <= Cardinality(Rows)
    <3>1. Cardinality(Completing) \in Nat /\ counters["worker_processed"] \in Nat
      BY ActorsAreFinite, CounterTypes DEF Completing
    <3> QED
      BY <1>3, <3>1 DEF RowLadder
  <2>4. CountersKept'
    BY <1>1, <1>2, <2>1, <2>2 DEF Snapshots, CountersKept, Holds, Looping, Sampling
  <2>5. RowsKept' /\ ListKept'
    BY <1>1, <2>1, <2>3 DEF RowsKept, ListKept
  <2> QED
    BY <2>4, <2>5 DEF Snapshots
<1>6. CASE ReadRows /\ ~Raises
  <2>1. /\ runner = "rows" /\ runner' = "depth" /\ point' = point /\ previous' = previous
        /\ current'.counters = current.counters /\ current'.rows = Cardinality(Rows)
    BY <1>3, <1>6 DEF ReadRows, Read, At, Goto, Samples
  <2>2. CountersKept'
    BY <1>1, <1>2, <2>1 DEF Snapshots, CountersKept, Holds, Looping, Sampling
  <2>3. RowsKept' /\ ListKept'
    BY <1>1, <1>3, <2>1 DEF Snapshots, RowsKept, ListKept
  <2> QED
    BY <2>2, <2>3 DEF Snapshots
<1>7. CASE ReadDepth /\ ~Raises
  <2>1. /\ runner = "depth" /\ runner' = "emit" /\ point' = point /\ previous' = previous
        /\ current' = current /\ depth' = Len(queue)
    BY <1>7 DEF ReadDepth, Read, At, Goto
  <2>2. CountersKept'
    BY <1>1, <1>2, <2>1 DEF Snapshots, CountersKept, Holds, Looping, Sampling
  <2>3. RowsKept'
    BY <1>1, <2>1 DEF Snapshots, RowsKept
  <2>4. ListKept'
    <3>1. current.rows <= Cardinality(Rows)
      BY <2>1 DEF Snapshots, RowsKept
    <3>2. Cardinality(Rows) + Len(queue)
            <= Cardinality(SentUpTo(point)) - Cardinality(FailedUpTo(point))
      BY <2>1, ClosedItems DEF Closed
    <3>3. /\ Len(queue) \in Nat /\ Cardinality(SentUpTo(point)) \in Nat
          /\ Cardinality(FailedUpTo(point)) \in Nat
      BY ActorsAreFinite DEF TypeOK, SentUpTo, FailedUpTo
    <3>4. current.rows + Len(queue)
            <= Cardinality(SentUpTo(point)) - Cardinality(FailedUpTo(point))
      BY <1>3, <3>1, <3>2, <3>3
    <3> QED
      BY <1>2, <2>1, <3>4 DEF ListKept
  <2> QED
    BY <2>2, <2>3, <2>4 DEF Snapshots
<1>8. CASE EmitSample /\ ~Raises
  <2>1. /\ runner = "emit" /\ point' = point + 1 /\ previous' = current
        /\ runner' \in {"check", "drain", "errors"}
    BY <1>8 DEF EmitSample, At
  <2>2. point' - 1 = point
    BY <1>3, <2>1
  <2>3. CountersKept'
    BY <1>1, <1>2, <2>1, <2>2 DEF Snapshots, CountersKept, Holds, Looping, Sampling
  <2>4. RowsKept' /\ ListKept'
    BY <2>1 DEF RowsKept, ListKept
  <2> QED
    BY <2>3, <2>4 DEF Snapshots
<1> QED
  BY <1>4, <1>5, <1>6, <1>7, <1>8

(* Every step of main keeps what the snapshots say. *)
LEMMA RunnerKeepsSnapshots ==
  ASSUME TypeOK, Custody, Agreement, RowLadder, RunTyped, RunShape, InOrder, CountsExact,
         Snapshots, RunnerStep
  PROVE  Snapshots'
<1>1. kind' = kind /\ swallowed' = swallowed
  BY RunnerFrame DEF appRest
<1>2. CASE ReadCounters \/ ReadRows \/ ReadDepth \/ EmitSample
  BY <1>2, ReadingsKeepSnapshots
<1>3. CASE runner' \notin {"baselineRows"} \cup Looping
  BY <1>3, NoSnapshots
<1>4. CASE Baseline("baseline", "baselineRows") /\ Goto("baselineRows")
  <2>1. /\ runner = "baseline" /\ runner' = "baselineRows" /\ point' = point
        /\ previous'.counters = counters
    BY <1>4 DEF Baseline, Goto, At, RunTyped, Samples
  <2>2. point = 0 /\ Counted = {} /\ Refused = {}
    BY <2>1, NobodyYet DEF RunShape, Preparing, Counted, Refused
  <2>3. SentUpTo(-1) = {} /\ FailedUpTo(-1) = {}
    <3>1. \A r \in Requests : ~(Window[r] <= -1)
      BY CaseAssumption
    <3> QED
      BY <3>1 DEF SentUpTo, FailedUpTo
  <2>4. point' - 1 = -1
    BY <2>1, <2>2
  <2>5. CountersKept'
    <3>1. "api" \notin swallowed => Holds(counters, -1)
      BY <2>2, <2>3 DEF CountsExact, Holds
    <3>2. \A p : SentUpTo(p)' = SentUpTo(p) /\ FailedUpTo(p)' = FailedUpTo(p)
      BY <1>1, SentStays
    <3> QED
      BY <1>1, <2>1, <2>4, <3>1, <3>2 DEF CountersKept, Holds
  <2> QED
    BY <2>1, <2>5 DEF Snapshots, RowsKept, ListKept
<1>5. CASE Baseline("baselineRows", "check") /\ Goto("check")
  <2>1. runner = "baselineRows" /\ previous'.counters = previous.counters
    BY <1>5 DEF Baseline, At, RunTyped, Samples
  <2> QED
    BY <1>1, <1>5, <2>1, TheWayKeepsSnapshots DEF Goto
<1>6. CASE CheckWorkers \/ NoFaultDue \/ StartFault \/ StopFault \/ StopLock \/ Gathered
  <2>1. /\ runner \in Looping /\ point' = point /\ previous' = previous
        /\ runner' \in {"check", "fault", "unlock", "await", "counters", "closing"}
    BY <1>6 DEF CheckWorkers, NoFaultDue, StartFault, StopFault, StopLock, Gathered, At, Goto,
                Raises, sample, Looping, Sampling
  <2>2. CASE runner' = "closing"
    BY <2>2, NoSnapshots DEF Looping, Sampling
  <2> QED
    BY <1>1, <2>1, <2>2, TheWayKeepsSnapshots
<1>7. \/ runner' \notin {"baselineRows"} \cup Looping
      \/ ReadCounters \/ ReadRows \/ ReadDepth \/ EmitSample
      \/ Baseline("baseline", "baselineRows") /\ Goto("baselineRows")
      \/ Baseline("baselineRows", "check") /\ Goto("check")
      \/ CheckWorkers \/ NoFaultDue \/ StartFault \/ StopFault \/ StopLock \/ Gathered
  <2> USE DEF Goto, Raises, EndsAs, Looping, Sampling
  <2>1. CASE WaitUntilReady \/ Reset \/ Truncate
    BY <2>1 DEF WaitUntilReady, Reset, Truncate
  <2>2. CASE Baseline("baseline", "baselineRows") \/ Baseline("baselineRows", "check")
    BY <2>2 DEF Baseline
  <2>3. CASE PollCounters \/ PollDepth \/ EmitBoundary \/ CheckEmitErrors
    BY <2>3 DEF PollCounters, PollDepth, PollAgain, EmitBoundary, CheckEmitErrors
  <2>4. CASE Close \/ CloseLock
    BY <2>4 DEF Close, CloseLock, End
  <2> QED
    BY <2>1, <2>2, <2>3, <2>4 DEF RunnerStep
<1> QED
  BY <1>2, <1>3, <1>4, <1>5, <1>6, <1>7

-----------------------------------------------------------------------------
(* The cases keep all of it *)

AppInv ==
  /\ TypeOK /\ HandsAreFull
  /\ Custody /\ Agreement
  /\ LogsAgree /\ RowLadder /\ LogLadder

WindowInv ==
  /\ RunTyped /\ RunShape /\ Controls
  /\ Fresh /\ InOrder /\ CountsExact /\ Snapshots

(* The reset and the TRUNCATE remove nothing: they come before all calls.   *)
LEMMA RunnerLeavesItems ==
  ASSUME TypeOK, RunShape, InOrder, Fresh, RunnerStep
  PROVE  /\ UNCHANGED <<queue, table, crossings, appRest>>
         /\ counters'["worker_processed"] = counters["worker_processed"]
         /\ counters' = counters \/ Quiet
<1>1. UNCHANGED <<crossings, appRest>>
  BY RunnerFrame
<1>2. runner \in {"reset", "truncate"} => Quiet
  BY NobodyYet DEF Fresh, Preparing
<1>3. queue' = queue
  BY <1>2, RunnerFrame DEF Quiet
<1>4. table' = table
  <2>1. CASE table' = table
    BY <2>1
  <2>2. CASE runner = "truncate" /\ table' = [r \in Requests |-> 0]
    <3>1. table = [r \in Requests |-> table[r]] /\ \A r \in Requests : table[r] = 0
      BY <1>2, <2>2 DEF Quiet, TypeOK
    <3>2. [r \in Requests |-> table[r]] = [r \in Requests |-> 0]
      BY <3>1
    <3> QED
      BY <2>2, <3>1, <3>2
  <2> QED
    BY <2>1, <2>2, RunnerFrame
<1>5. /\ counters'["worker_processed"] = counters["worker_processed"]
      /\ counters' = counters \/ Quiet
  <2>1. CASE counters' = counters
    BY <2>1
  <2>2. CASE runner = "reset" /\ counters' = NoCounts
    BY <1>2, <2>2 DEF Quiet, NoCounts, CounterNames
  <2> QED
    BY <2>1, <2>2, RunnerFrame
<1> QED
  BY <1>1, <1>3, <1>4, <1>5

(* A step that leaves items, threads and reports alone keeps what is known  *)
(* of them.                                                                 *)
LEMMA SameItems ==
  ASSUME Custody, Agreement, LogsAgree, RowLadder,
         UNCHANGED <<queue, table, appRest>>,
         counters'["worker_processed"] = counters["worker_processed"]
  PROVE  Custody' /\ Agreement' /\ LogsAgree' /\ RowLadder'
<1> USE DEF appRest
<1>1. /\ \A r \in Requests : (Queued(r)' = Queued(r)) /\ (Holders(r)' = Holders(r))
                            /\ (Stored(r)' = Stored(r))
      /\ Doomed' = Doomed /\ Rows' = Rows /\ Completing' = Completing
  BY DEF Queued, Holders, Stored, Doomed, Rows, Completing
<1>2. Custody'
  <2>1. Distinct(queue)'
    BY DEF Custody, Distinct
  <2>2. \A r \in Requests : NotYet(r)' /\ OnePlace(r)'
    BY <1>1 DEF Custody, NotYet, OnePlace
  <2>3. \A w \in Workers : HandAgrees(w)'
    BY <1>1 DEF Custody, HandAgrees
  <2> QED
    BY <2>1, <2>2, <2>3 DEF Custody
<1>3. \A r \in Requests : Place(r)' = Place(r)
  BY <1>1 DEF Place
<1>4. Agreement'
  BY <1>3 DEF Agreement, StatusAgrees
<1>5. LogsAgree'
  BY DEF LogsAgree, Stored
<1>6. RowLadder'
  BY <1>1 DEF RowLadder
<1> QED
  BY <1>2, <1>4, <1>5, <1>6

(* main keeps the invariants of the application. *)
LEMMA RunnerKeepsApp ==
  ASSUME AppInv, RunShape, InOrder, Fresh, RunnerStep
  PROVE  AppInv'
<1>1. TypeOK' /\ HandsAreFull'
  BY RunnerKeepsAppTypes DEF AppInv
<1>2. Custody' /\ Agreement' /\ LogsAgree' /\ RowLadder'
  BY RunnerLeavesItems, SameItems DEF AppInv
<1>3. LogLadder'
  <2>1. UNCHANGED <<logs, swallowed, workerPc>> /\ Counting' = Counting
    BY RunnerLeavesItems DEF AppInv, appRest, Counting
  <2>2. CASE counters' = counters
    BY <2>1, <2>2 DEF AppInv, LogLadder, Debt
  <2>3. CASE Quiet
    <3>1. Counting = {} /\ counters'["worker_processed"] = 0
      BY <2>3, RunnerLeavesItems DEF AppInv, Quiet, Counting, FreeSteps, DoomedSteps
    <3>2. Cardinality(logs.completed) \in Nat
      BY <2>3, FS_EmptySet DEF Quiet, NoLogs
    <3>3. counters'["application_log_emit_errors"] \in Nat
      BY <1>1 DEF TypeOK, CounterNames
    <3> QED
      BY <2>1, <3>1, <3>2, <3>3, FS_EmptySet DEF LogLadder, Debt
  <2> QED
    BY <2>2, <2>3, RunnerLeavesItems DEF AppInv
<1> QED
  BY <1>1, <1>2, <1>3 DEF AppInv

(* The application keeps its own invariants beside the runner. *)
LEMMA AppKeepsApp ==
  ASSUME AppInv, AppStep
  PROVE  AppInv'
<1>1. Next
  BY DEF AppStep, Next
<1> QED
  BY <1>1, NextKeepsTypes, NextKeepsCustody, NextKeepsAgreement, NextKeepsLadders DEF AppInv

(* A swallowed failure is never forgotten. *)
LEMMA SwallowedStays ==
  ASSUME TypeOK, AppStep
  PROVE  swallowed \subseteq swallowed'
<1>1. ASSUME NEW w \in Workers, Work(w) PROVE swallowed \subseteq swallowed'
  <2>1. CASE Before(w)
    BY <2>1, BeforeTheCommit
  <2>2. CASE Commit(w) \/ EmitWorker(w) \/ CountWork(w)
    BY <2>2 DEF Commit, EmitWorker, CountWork, reports
  <2>3. CASE ExcuseWorker(w)
    BY <2>3, ExcuseCounts DEF ExcuseWorker
  <2> QED
    BY <1>1, <2>1, <2>2, <2>3 DEF Work, Before
<1> QED
  BY <1>1, HandlerCounts DEF AppStep

(* The application keeps the invariant of the windows. *)
LEMMA AppKeepsWindows ==
  ASSUME AppInv, WindowInv, AppStep
  PROVE  WindowInv'
<1>1. TypeOK /\ RunTyped /\ RunShape /\ Controls /\ Fresh /\ InOrder /\ CountsExact /\ Snapshots
  BY DEF AppInv, WindowInv
<1>2. RunTyped' /\ RunShape'
  BY <1>1 DEF AppStep, RunTyped, RunShape, runVars, sample
<1>3. CountsExact'
  BY <1>1, HandlerKeepsCounts, WorkKeepsCounts DEF AppStep
<1>4. Controls'
  BY <1>1, AppKeepsControls DEF AppStep
<1>5. Fresh' /\ InOrder'
  BY <1>1, AppKeepsFresh, AppKeepsOrder
<1>6. Snapshots'
  BY <1>1, SwallowedStays, AppKeepsSnapshots
<1> QED
  BY <1>2, <1>3, <1>4, <1>5, <1>6 DEF WindowInv

(* main keeps the invariant of the windows. *)
LEMMA RunnerKeepsWindows ==
  ASSUME AppInv, WindowInv, RunnerStep
  PROVE  WindowInv'
BY RunnerKeepsShape, RunnerKeepsControls, RunnerKeepsFresh, RunnerKeepsOrder, RunnerKeepsCounts,
   RunnerKeepsSnapshots DEF AppInv, WindowInv

(* A client that gives up, and nothing at all.                              *)
LEMMA OtherStepsKeep ==
  ASSUME AppInv, WindowInv, (\E r \in Requests : TimeOut(r)) \/ UNCHANGED caseVars
  PROVE  AppInv' /\ WindowInv'
<1> USE DEF appVars, runVars
<1>1. UNCHANGED <<appVars, crash, outage, lockOwner, runVars, kind, sample>>
  BY DEF TimeOut, caseVars
<1>2. /\ faults' \in 0 .. MaxFaults /\ timedOut' \in SUBSET Requests
  <2>1. CASE \E r \in Requests : TimeOut(r)
    BY <2>1, FaultType DEF TimeOut, AppInv, WindowInv, TypeOK, RunTyped
  <2>2. CASE UNCHANGED caseVars
    BY <2>2 DEF caseVars, AppInv, WindowInv, TypeOK, RunTyped
  <2> QED
    BY <2>1, <2>2
<1>3. TypeOK' /\ HandsAreFull'
  <2> USE DEF AppInv, appRest
  <2>1. TypeOK'
    BY <1>1, <1>2, Assemble, LogsType, StatusType DEF TypeOK
  <2> QED
    BY <1>1, <2>1 DEF HandsAreFull
<1>4. Custody' /\ Agreement' /\ LogsAgree' /\ RowLadder'
  BY <1>1, SameItems DEF AppInv
<1>5. LogLadder'
  <2>1. Counting' = Counting
    BY <1>1 DEF Counting, appRest
  <2> QED
    BY <1>1, <2>1 DEF AppInv, LogLadder, Debt, appRest
<1>6. RunTyped' /\ RunShape'
  BY <1>1, <1>2 DEF WindowInv, RunTyped, RunShape, sample
<1>7. First' = First /\ Last' = Last /\ InForce' = InForce
  BY <1>1 DEF First, Last, InForce
<1>8. Controls'
  BY <1>1, <1>7 DEF WindowInv, Controls, ControlsAgree, Imposed
<1>9. Fresh'
  BY <1>1 DEF WindowInv, Fresh, Quiet, appRest
<1>10. InOrder'
  <2>1. CASE \E r \in Requests : TimeOut(r)
    BY <2>1, TimeOutKeepsOrder DEF WindowInv, RunTyped
  <2>2. CASE UNCHANGED caseVars
    <3>1. /\ Gone' = Gone /\ \A r \in Requests : Settled(r)' = Settled(r)
          /\ UNCHANGED <<failing, runner, point, apiPc>>
      BY <1>7, <2>2 DEF caseVars, Gone, Settled, ExpectedAt, Imposed, appRest
    <3> QED
      BY <3>1 DEF WindowInv, InOrder
  <2> QED
    BY <2>1, <2>2
<1>11. CountsExact'
  <2>1. Counted' = Counted /\ Refused' = Refused
    BY <1>1 DEF Counted, Refused, appRest
  <2> QED
    BY <1>1, <2>1 DEF WindowInv, CountsExact, appRest
<1>12. Snapshots'
  <2>1. \A p : SentUpTo(p)' = SentUpTo(p) /\ FailedUpTo(p)' = FailedUpTo(p)
    BY <1>1, SentStays
  <2>2. Rows' = Rows
    BY <1>1 DEF Rows, Stored
  <2> QED
    BY <1>1, <2>1, <2>2 DEF WindowInv, Snapshots, CountersKept, RowsKept, ListKept, Holds, sample,
       appRest
<1> QED
  BY <1>3, <1>4, <1>5, <1>6, <1>8, <1>9, <1>10, <1>11, <1>12 DEF AppInv, WindowInv

(* The invariants hold when a case starts. *)
LEMMA CaseStarts ==
  ASSUME CaseInit
  PROVE  AppInv /\ WindowInv
<1>0. Init /\ runner = "boot" /\ point = 0 /\ ~failing /\ PointCount \in Nat \ {0}
  BY CaseAssumption DEF CaseInit
<1>1. AppInv
  BY <1>0, InitTypes, InitCustody, InitAgreement, InitLadders DEF AppInv
<1>2. RunTyped
  <2>1. NoSample \in Samples
    BY DEF NoSample, Samples, NoCounts
  <2>2. 0 \in 0 .. PointCount /\ 0 \in 0 .. MaxPolls /\ 0 \in Nat
    BY CaseAssumption
  <2> QED
    BY <2>1, <2>2 DEF CaseInit, RunTyped, RunnerSteps
<1>3. RunShape
  BY <1>0, CaseAssumption DEF CaseInit, RunShape, Preparing, Looping, Sampling, Finishing
<1>4. Controls
  <2>1. Runner # Nobody /\ First \in 1 .. PointCount
    BY <1>2, MatrixNames, Interval DEF RunTyped
  <2>2. InForce = -1 /\ ~Imposed(InForce)
    BY <1>0, <2>1 DEF InForce, Imposed, Sampling
  <2> QED
    BY <1>0, <2>1, <2>2 DEF Controls, ControlsAgree, Init, CaseInit, Ends
<1>5. Fresh
  BY <1>0 DEF Fresh, Quiet, Init, NoCounts, CounterNames, FreeSteps
<1>6. InOrder
  BY <1>0, WindowType DEF InOrder, Gone, Init
<1>7. CountsExact
  <2>1. Counted = {} /\ Refused = {}
    BY <1>0 DEF Counted, Refused, Init
  <2> QED
    BY <1>0, <2>1, FS_EmptySet DEF CountsExact, Init, NoCounts, CounterNames
<1>8. Snapshots
  BY <1>0 DEF Snapshots, CountersKept, RowsKept, ListKept, Looping, Sampling
<1> QED
  BY <1>1, <1>2, <1>3, <1>4, <1>5, <1>6, <1>7, <1>8 DEF WindowInv

(* The invariant of the windows holds throughout a case. *)
LEMMA WindowsHold == CaseSpec => [](AppInv /\ WindowInv)
<1>1. CaseInit => AppInv /\ WindowInv
  BY CaseStarts
<1>2. AppInv /\ WindowInv /\ [CaseNext]_caseVars => (AppInv /\ WindowInv)'
  <2> SUFFICES ASSUME AppInv, WindowInv, [CaseNext]_caseVars PROVE AppInv' /\ WindowInv'
    OBVIOUS
  <2>1. CASE RunnerStep
    <3>1. RunShape /\ InOrder /\ Fresh
      BY DEF WindowInv
    <3> QED
      BY <2>1, <3>1, RunnerKeepsApp, RunnerKeepsWindows
  <2>2. CASE AppStep
    BY <2>2, AppKeepsApp, AppKeepsWindows
  <2> QED
    BY <2>1, <2>2, CaseSteps, OtherStepsKeep
<1> QED
  BY <1>1, <1>2, PTL DEF CaseSpec

(* The labels of the windows and the samples taken in them are right.       *)
LEMMA TrueLabels ==
  ASSUME RunTyped, RunShape, Controls
  PROVE  FaultsMatchLabels
<1> SUFFICES ASSUME runner \in Sampling
             PROVE  /\ crash = (kind = "worker_crash" /\ InFault)
                    /\ outage = (kind = "cache_outage" /\ InFault)
                    /\ (lockOwner = Runner) = (kind = "database_lock" /\ InFault)
  BY DEF FaultsMatchLabels
<1>1. ~failing /\ runner \notin {"unlock", "closingUnlock"} \cup Ends /\ InForce = point
  BY DEF RunShape, Sampling, Ends, InForce
<1>2. Imposed(point) = InFault
  BY DEF Imposed, InFault
<1> QED
  BY <1>1, <1>2 DEF Controls, ControlsAgree

(* A sample that is about to be emitted accounts for its window. *)
LEMMA TrueSamples ==
  ASSUME RunTyped, RunShape, Snapshots
  PROVE  SampleAccountsForWindow
<1> SUFFICES ASSUME runner = "emit" PROVE SampleAccountsForWindow
  BY DEF SampleAccountsForWindow
<1>1. point \in Nat /\ runner \in Looping
  BY DEF RunTyped, Looping, Sampling
<1>2. /\ IsFiniteSet(SentUpTo(point)) /\ IsFiniteSet(FailedUpTo(point)) /\ IsFiniteSet(Submitted)
      /\ Cardinality(SentUpTo(point)) \in Nat /\ Cardinality(FailedUpTo(point)) \in Nat
      /\ IsFiniteSet(SentUpTo(point - 1)) /\ IsFiniteSet(FailedUpTo(point - 1))
      /\ Cardinality(SentUpTo(point - 1)) \in Nat /\ Cardinality(FailedUpTo(point - 1)) \in Nat
      /\ Cardinality(Submitted) \in Nat
  BY ActorsAreFinite DEF SentUpTo, FailedUpTo, Submitted
<1>3. \A r \in Requests : /\ Window[r] <= point <=> Window[r] <= point - 1 \/ Window[r] = point
                          /\ ~(Window[r] <= point - 1 /\ Window[r] = point)
  BY <1>1, WindowType
<1>4. Expected = ExpectedAt(point)
  BY DEF Expected, ExpectedAt, InFault, Imposed
<1>5. Cardinality(SentUpTo(point)) = Cardinality(SentUpTo(point - 1)) + Cardinality(Submitted)
  <2>1. SentUpTo(point) = SentUpTo(point - 1) \cup Submitted
    BY <1>3 DEF SentUpTo, Submitted
  <2>2. SentUpTo(point - 1) \cap Submitted = {}
    BY <1>3 DEF SentUpTo, Submitted
  <2>3. Cardinality(SentUpTo(point - 1) \cap Submitted) = 0
    BY <2>2, FS_EmptySet
  <2>4. Cardinality(SentUpTo(point - 1) \cup Submitted)
          = Cardinality(SentUpTo(point - 1)) + Cardinality(Submitted)
            - Cardinality(SentUpTo(point - 1) \cap Submitted)
    BY <1>2, FS_Union
  <2> QED
    BY <1>2, <2>1, <2>3, <2>4
<1>6. Cardinality(FailedUpTo(point)) = Cardinality(FailedUpTo(point - 1))
        + (IF Expected = 503 THEN Cardinality(Submitted) ELSE 0)
  <2>1. CASE Expected = 503
    <3>1. FailedUpTo(point) = FailedUpTo(point - 1) \cup Submitted
      <4>1. \A r \in Submitted : ExpectedAt(Window[r]) = 503
        BY <1>4, <2>1 DEF Submitted
      <4>2. \A r \in Requests : r \in Submitted <=> Window[r] = point
        BY DEF Submitted
      <4>3. \A r \in Requests : r \in FailedUpTo(point)
                                 <=> r \in FailedUpTo(point - 1) \/ r \in Submitted
        BY <1>3, <4>1, <4>2 DEF FailedUpTo, SentUpTo
      <4>4. /\ FailedUpTo(point) \subseteq Requests /\ FailedUpTo(point - 1) \subseteq Requests
            /\ Submitted \subseteq Requests
        BY DEF FailedUpTo, SentUpTo, Submitted
      <4> QED
        BY <4>3, <4>4
    <3>2. FailedUpTo(point - 1) \cap Submitted = {}
      BY <1>3 DEF FailedUpTo, SentUpTo, Submitted
    <3>3. Cardinality(FailedUpTo(point - 1) \cap Submitted) = 0
      BY <3>2, FS_EmptySet
    <3>4. Cardinality(FailedUpTo(point - 1) \cup Submitted)
            = Cardinality(FailedUpTo(point - 1)) + Cardinality(Submitted)
              - Cardinality(FailedUpTo(point - 1) \cap Submitted)
      BY <1>2, FS_Union
    <3> QED
      BY <1>2, <2>1, <3>1, <3>3, <3>4
  <2>2. CASE Expected # 503
    <3>1. FailedUpTo(point) = FailedUpTo(point - 1)
      BY <1>3, <1>4, <2>2 DEF FailedUpTo, SentUpTo
    <3> QED
      BY <1>2, <2>2, <3>1
  <2> QED
    BY <2>1, <2>2
<1>7. current.counters["worker_processed"] <= current.rows
  BY DEF Snapshots, RowsKept
<1>8. ASSUME "api" \notin swallowed
      PROVE  /\ current.counters["api_requests"] = Cardinality(SentUpTo(point))
             /\ current.counters["api_errors"] = Cardinality(FailedUpTo(point))
             /\ previous.counters["api_requests"] = Cardinality(SentUpTo(point - 1))
             /\ previous.counters["api_errors"] = Cardinality(FailedUpTo(point - 1))
  BY <1>1, <1>8 DEF Snapshots, CountersKept, Holds
<1>9. current.rows + depth <= Cardinality(SentUpTo(point)) - Cardinality(FailedUpTo(point))
  BY DEF Snapshots, ListKept
<1>10. ASSUME "api" \notin swallowed
       PROVE  /\ current.counters["api_requests"] - previous.counters["api_requests"]
                   = Cardinality(Submitted)
              /\ current.counters["api_errors"] - previous.counters["api_errors"]
                   = (IF Expected = 503 THEN Cardinality(Submitted) ELSE 0)
              /\ current.rows + depth
                   <= current.counters["api_requests"] - current.counters["api_errors"]
  <2>1. /\ current.counters["api_requests"] - previous.counters["api_requests"]
             = Cardinality(Submitted)
    BY <1>2, <1>5, <1>8, <1>10
  <2>2. CASE Expected = 503
    BY <1>2, <1>6, <1>8, <1>9, <1>10, <2>1, <2>2
  <2>3. CASE Expected # 503
    BY <1>2, <1>6, <1>8, <1>9, <1>10, <2>1, <2>3
  <2> QED
    BY <2>2, <2>3
<1> QED
  BY <1>7, <1>10 DEF SampleAccountsForWindow

(* The state of a case has its type, every window is labelled with the      *)
(* faults that are in force, and every sample accounts for its window:      *)
(* whatever the requests, the workers, the windows and the broken calls.    *)
THEOREM WindowsTrue == CaseSpec => []WindowsAreTrue
<1>1. AppInv /\ WindowInv => WindowsAreTrue
  BY CaseTypes, TrueLabels, TrueSamples DEF AppInv, WindowInv, WindowsAreTrue
<1> QED
  BY <1>1, WindowsHold, PTL

-----------------------------------------------------------------------------
(* What a run that succeeds has seen done *)

(* The counters only grow while the application runs.                       *)
LEMMA AppCounts ==
  ASSUME TypeOK, AppStep
  PROVE  \A c \in {"worker_processed", "application_log_emit_errors"} :
           counters[c] \in Nat /\ counters'[c] \in Nat /\ counters[c] <= counters'[c]
<1>1. ASSUME NEW r \in Requests, Send(r) \/ Handler(r)
      PROVE  /\ counters["worker_processed"] \in Nat
             /\ counters'["worker_processed"] = counters["worker_processed"]
  BY <1>1, HandlerCounts
<1>2. ASSUME NEW r \in Requests, Send(r) \/ Handler(r)
      PROVE  /\ counters["application_log_emit_errors"] \in Nat
             /\ counters'["application_log_emit_errors"] \in Nat
             /\ counters["application_log_emit_errors"]
                  <= counters'["application_log_emit_errors"]
  BY <1>2, HandlerCounts
<1>3. ASSUME NEW w \in Workers, Work(w),
             NEW c \in {"worker_processed", "application_log_emit_errors"}
      PROVE  counters[c] \in Nat /\ counters'[c] \in Nat /\ counters[c] <= counters'[c]
  <2>0. counters[c] \in Nat
    BY CounterTypes
  <2>1. CASE Before(w)
    BY <2>0, <2>1, BeforeTheCommit
  <2>2. CASE Commit(w) \/ EmitWorker(w)
    BY <2>0, <2>2 DEF Commit, EmitWorker, reports
  <2>3. CASE ExcuseWorker(w)
    BY <2>0, <2>3, ExcuseCounts DEF ExcuseWorker
  <2>4. CASE CountWork(w)
    BY <2>0, <2>4, CountingEnds
  <2> QED
    BY <1>3, <2>1, <2>2, <2>3, <2>4 DEF Work, Before
<1> QED
  BY <1>1, <1>2, <1>3 DEF AppStep

(* What a script does to the history of the backlog, if one runs.           *)
LEMMA AppScripts ==
  ASSUME TypeOK, AppStep
  PROVE  \/ UNCHANGED <<backlog, crossings>>
         \/ \E list : Advance(list)
<1> USE DEF listVars
<1>1. ASSUME NEW r \in Requests, Send(r) \/ Handler(r)
      PROVE  UNCHANGED <<backlog, crossings>> \/ \E list : Advance(list)
  BY <1>1 DEF Send, Handler, Gate, Push, Emit, ExcuseEmit, Count, Reply, MayApply
<1>2. ASSUME NEW w \in Workers, Work(w)
      PROVE  UNCHANGED <<backlog, crossings>> \/ \E list : Advance(list)
  BY <1>2 DEF Work, CheckCrash, Register, Dequeue, Take, MeasureWait, Lock, Commit, EmitWorker,
             ExcuseWorker, CountWork, MayApply
<1> QED
  BY <1>1, <1>2 DEF AppStep

(* The first crossing after the reset leaves "low".                         *)
FirstCrossing ==
  runner \notin {"boot", "reset", "failed"} =>
    /\ crossings = <<>> => backlog = "low"
    /\ crossings # <<>> => crossings[1] # "low"

(* The first crossing leaves the bucket low, which the reset wrote. *)
LEMMA AppKeepsFirst ==
  ASSUME TypeOK, FirstCrossing, AppStep
  PROVE  FirstCrossing'
<1>1. runner' = runner /\ crossings \in Seq(Buckets)
  BY DEF AppStep, runVars, TypeOK
<1>2. CASE UNCHANGED <<backlog, crossings>>
  BY <1>1, <1>2 DEF FirstCrossing
<1>3. ASSUME NEW list, Advance(list) PROVE FirstCrossing'
  <2>1. CASE backlog = Bucket(Len(list))
    BY <1>1, <1>3, <2>1 DEF FirstCrossing, Advance
  <2>2. CASE backlog # Bucket(Len(list))
    <3>1. PICK b \in Buckets : b = Bucket(Len(list))
      BY BucketType
    <3>2. crossings' = Append(crossings, b)
      BY <1>3, <2>2, <3>1 DEF Advance
    <3>3. crossings' # <<>> /\ crossings'[1] = IF crossings = <<>> THEN b ELSE crossings[1]
      BY <1>1, <3>2
    <3> QED
      BY <1>1, <2>2, <3>1, <3>3 DEF FirstCrossing
  <2> QED
    BY <2>1, <2>2
<1> QED
  BY <1>2, <1>3, AppScripts

(* A run that failed takes no further step, and the reset comes first.      *)
LEMMA StepsAfterReset ==
  ASSUME RunnerStep
  PROVE  /\ runner \notin Ends
         /\ runner' \notin {"boot", "reset", "failed"} =>
              \/ runner \notin {"boot", "reset", "failed"}
              \/ runner = "reset" /\ backlog' = "low"
<1> USE DEF At, Goto, Raises, EndsAs, Ends
<1>1. CASE WaitUntilReady \/ Reset \/ Truncate
  BY <1>1 DEF WaitUntilReady, Reset, Truncate
<1>2. CASE Baseline("baseline", "baselineRows") \/ Baseline("baselineRows", "check")
  BY <1>2 DEF Baseline
<1>3. CASE CheckWorkers \/ NoFaultDue \/ StartFault \/ StopFault \/ StopLock \/ Gathered
  BY <1>3 DEF CheckWorkers, NoFaultDue, StartFault, StopFault, StopLock, Gathered
<1>4. CASE ReadCounters \/ ReadRows \/ ReadDepth \/ EmitSample
  BY <1>4 DEF ReadCounters, ReadRows, ReadDepth, Read, EmitSample
<1>5. CASE PollCounters \/ PollDepth \/ EmitBoundary \/ CheckEmitErrors
  BY <1>5 DEF PollCounters, PollDepth, EmitBoundary, CheckEmitErrors
<1>6. CASE Close \/ CloseLock
  BY <1>6 DEF Close, CloseLock
<1> QED
  BY <1>1, <1>2, <1>3, <1>4, <1>5, <1>6 DEF RunnerStep

(* The reset happens before the first crossing. *)
LEMMA RunnerKeepsFirst ==
  ASSUME RunShape, InOrder, Fresh, FirstCrossing, RunnerStep
  PROVE  FirstCrossing'
<1> SUFFICES ASSUME runner' \notin {"boot", "reset", "failed"} PROVE FirstCrossing'
  BY DEF FirstCrossing
<1>1. crossings' = crossings
  BY RunnerFrame
<1>2. CASE runner = "reset" /\ backlog' = "low"
  <2>1. crossings = <<>>
    BY <1>2, NobodyYet DEF Fresh, Quiet, Preparing
  <2> QED
    BY <1>1, <1>2, <2>1 DEF FirstCrossing
<1>3. CASE runner \notin {"boot", "reset", "failed"}
  <2>1. backlog' = backlog
    BY <1>3, RunnerFrame
  <2> QED
    BY <1>1, <1>3, <2>1 DEF FirstCrossing
<1> QED
  BY <1>2, <1>3, StepsAfterReset

(* Items in a hand or counted have been served by their handler and left    *)
(* the list.                                                                *)
HandsInUse == {w \in Workers : hand[w] # Nobody}
Served == {r \in Requests : apiPc[r] \notin Early /\ ~Queued(r)}
ServedLadder == counters["worker_processed"] + Cardinality(HandsInUse) <= Cardinality(Served)

(* The sets that the ladder of served items counts are finite. *)
LEMMA ServedTypes ==
  /\ IsFiniteSet(HandsInUse) /\ Cardinality(HandsInUse) \in Nat
  /\ IsFiniteSet(Served) /\ Cardinality(Served) \in Nat
  /\ IsFiniteSet(HandsInUse') /\ Cardinality(HandsInUse') \in Nat
  /\ IsFiniteSet(Served') /\ Cardinality(Served') \in Nat
<1>1. /\ HandsInUse \subseteq Workers /\ HandsInUse' \subseteq Workers
      /\ Served \subseteq Requests /\ Served' \subseteq Requests
  BY DEF HandsInUse, Served
<1> QED
  BY <1>1, ActorsAreFinite

(* A handler takes no served request back. *)
LEMMA HandlerKeepsServed ==
  ASSUME TypeOK, ServedLadder, NEW r \in Requests, Send(r) \/ Handler(r)
  PROVE  ServedLadder'
<1>1. /\ counters'["worker_processed"] = counters["worker_processed"]
      /\ counters["worker_processed"] \in Nat
  BY HandlerCounts
<1>2. HandsInUse' = HandsInUse
  BY HandlerKinds DEF HandsInUse
<1>3. ASSUME NEW s \in Served PROVE s \in Served'
  <2>1. s \in Requests /\ apiPc[s] \notin Early /\ ~Queued(s) /\ apiPc'[s] \notin Early
    BY <1>3, HandlerKinds DEF Served
  <2>2. CASE queue' = queue
    BY <2>1, <2>2 DEF Served, Queued
  <2>3. CASE Pushes(r)
    <3>1. s # r /\ queue' = Append(queue, r) /\ queue \in Seq(Requests)
      BY <2>1, <2>3 DEF Pushes, Early, TypeOK
    <3>2. \A i \in 1 .. Len(queue') : queue'[i] # s
      BY <2>1, <3>1 DEF Queued
    <3> QED
      BY <2>1, <3>2 DEF Served, Queued
  <2> QED
    BY <2>2, <2>3, HandlerKinds
<1>4. Cardinality(Served) <= Cardinality(Served')
  BY <1>3, ServedTypes, FS_Subset
<1> QED
  BY <1>1, <1>2, <1>4, ServedTypes DEF ServedLadder

(* A worker counts an item only after it has let it go. *)
LEMMA WorkKeepsServed ==
  ASSUME TypeOK, Custody, ServedLadder, NEW w \in Workers, Work(w)
  PROVE  ServedLadder'
<1>1. PICK step \in WorkerSteps :
        /\ workerPc' = [workerPc EXCEPT ![w] = step]
        /\ MovesNothing(w, step) \/ Pops(w, step) \/ Stores(w, step) \/ LetsGo(w, step)
  BY WorkKinds
<1>2. /\ apiPc' = apiPc /\ hand \in [Workers -> Requests \cup {Nobody}]
      /\ queue \in Seq(Requests) /\ counters["worker_processed"] \in Nat
      /\ Nobody \notin Requests
  BY WorkKinds, CounterTypes, MatrixNames DEF TypeOK
<1>3. ~CountWork(w) => counters'["worker_processed"] = counters["worker_processed"]
  <2>1. CASE Before(w)
    BY <2>1, BeforeTheCommit
  <2>2. CASE Commit(w) \/ EmitWorker(w)
    BY <2>2 DEF Commit, EmitWorker, reports
  <2>3. CASE ExcuseWorker(w)
    BY <2>3, ExcuseCounts DEF ExcuseWorker
  <2> QED
    BY <2>1, <2>2, <2>3 DEF Work, Before
<1>4. CountWork(w) => workerPc[w] = "count"
  BY DEF CountWork
<1>5. CASE CountWork(w)
  <2>1. /\ hand' = [hand EXCEPT ![w] = Nobody] /\ queue' = queue
        /\ hand[w] \in Requests
    BY <1>4, <1>5 DEF CountWork, listVars, Custody, HandAgrees, DoneSteps
  <2>2. Served' = Served
    BY <1>2, <2>1 DEF Served, Queued
  <2>3. /\ \A v : v # w => (v \in HandsInUse' <=> v \in HandsInUse)
        /\ w \in HandsInUse /\ w \notin HandsInUse'
    BY <1>2, <2>1 DEF HandsInUse
  <2>4. Cardinality(HandsInUse') = Cardinality(HandsInUse) - 1
    BY <2>3, ServedTypes, OneDiffers DEF Indicator
  <2>5. counters'["worker_processed"]
          \in {counters["worker_processed"], counters["worker_processed"] + 1}
    BY <1>5, CountingEnds
  <2> QED
    BY <1>2, <2>2, <2>4, <2>5, ServedTypes DEF ServedLadder
<1>6. CASE ~CountWork(w) /\ (MovesNothing(w, step) \/ Stores(w, step))
  <2>1. UNCHANGED <<queue, hand>>
    BY <1>6 DEF MovesNothing, Stores
  <2>2. Served' = Served /\ HandsInUse' = HandsInUse
    BY <1>2, <2>1 DEF Served, Queued, HandsInUse
  <2> QED
    BY <1>3, <1>6, <2>2 DEF ServedLadder
<1>7. CASE ~CountWork(w) /\ Pops(w, step)
  <2>1. /\ workerPc[w] = "dequeue" /\ queue # <<>> /\ queue' = Tail(queue)
        /\ hand' = [hand EXCEPT ![w] = Head(queue)] /\ Distinct(queue)
    BY <1>7 DEF Pops, Custody
  <2>0. PICK h \in Requests : h = Head(queue) /\ h = queue[1]
    BY <1>2, <2>1, ListType
  <2>2. hand[w] = Nobody /\ hand' = [hand EXCEPT ![w] = h]
    BY <2>0, <2>1 DEF Custody, HandAgrees, FreeSteps
  <2>3. Cardinality(HandsInUse') = Cardinality(HandsInUse) + 1
    <3>1. /\ \A v : v # w => (v \in HandsInUse' <=> v \in HandsInUse)
          /\ w \notin HandsInUse /\ w \in HandsInUse'
      BY <1>2, <2>1, <2>2 DEF HandsInUse
    <3> QED
      BY <3>1, ServedTypes, OneDiffers DEF Indicator
  <2>4. Queued(h) /\ apiPc[h] \notin Early
    <3>1. 1 \in 1 .. Len(queue) /\ queue[1] = h
      BY <1>2, <2>0, <2>1
    <3>2. Queued(h)
      BY <3>1 DEF Queued
    <3> QED
      BY <3>2 DEF Custody, NotYet
  <2>5. /\ ~Queued(h)'
        /\ \A s \in Requests : Queued(s)' => Queued(s)
    <3>1. ASSUME NEW i \in 1 .. Len(queue')
          PROVE  /\ queue'[i] = queue[i + 1] /\ i + 1 \in 1 .. Len(queue)
                 /\ queue'[i] # queue[1]
      <4>1. queue'[i] = queue[i + 1] /\ i + 1 \in 1 .. Len(queue) /\ 1 \in 1 .. Len(queue)
            /\ i + 1 # 1
        BY <1>2, <2>1, <3>1
      <4> QED
        BY <2>1, <4>1 DEF Distinct
    <3>2. \A i \in 1 .. Len(queue') : queue'[i] # h
      BY <2>0, <3>1
    <3>3. \A s \in Requests : (\E i \in 1 .. Len(queue') : queue'[i] = s)
                              => \E j \in 1 .. Len(queue) : queue[j] = s
      BY <3>1
    <3> QED
      BY <3>2, <3>3 DEF Queued
  <2>6. Served \cup {h} \subseteq Served' /\ h \notin Served
    BY <1>2, <2>2, <2>4, <2>5 DEF Served
  <2>7. Cardinality(Served) + 1 <= Cardinality(Served')
    <3>1. /\ IsFiniteSet(Served \cup {h})
          /\ Cardinality(Served \cup {h}) = Cardinality(Served) + 1
      BY <2>6, ServedTypes, FS_AddElement
    <3>2. Cardinality(Served \cup {h}) <= Cardinality(Served')
      BY <2>6, ServedTypes, FS_Subset
    <3> QED
      BY <3>1, <3>2
  <2> QED
    BY <1>2, <1>3, <1>7, <2>3, <2>7, ServedTypes DEF ServedLadder
<1>8. CASE ~CountWork(w) /\ LetsGo(w, step)
  BY <1>8 DEF LetsGo, Work, CheckCrash, Register, Dequeue, MeasureWait, Lock, Commit, EmitWorker,
              ExcuseWorker, Emissions, Excuses, Excuse
<1> QED
  BY <1>1, <1>5, <1>6, <1>7, <1>8

(* main does not disturb the ladder of served items. *)
LEMMA RunnerKeepsServed ==
  ASSUME TypeOK, RunShape, InOrder, Fresh, ServedLadder, RunnerStep
  PROVE  ServedLadder'
<1>1. HandsInUse' = HandsInUse /\ Served' = Served
  BY RunnerLeavesItems DEF HandsInUse, Served, Queued, appRest
<1> QED
  BY <1>1, RunnerLeavesItems DEF ServedLadder

-----------------------------------------------------------------------------
(* Nothing is lost without a trace in the counters or a swallowed failure *)

Unspoiled == counters["application_log_emit_errors"] = 0 /\ "emit" \notin swallowed

(* A run once spoiled by a lost log record stays spoiled. *)
LEMMA SpoiledStays ==
  ASSUME TypeOK, AppStep, Unspoiled'
  PROVE  Unspoiled
<1>1. /\ counters["application_log_emit_errors"] \in Nat
      /\ counters["application_log_emit_errors"] <= counters'["application_log_emit_errors"]
  BY AppCounts
<1> QED
  BY <1>1, SwallowedStays DEF Unspoiled

(* A failed emit is counted, or its count is swallowed: the run is spoiled. *)
LEMMA ExcuseSpoils ==
  ASSUME TypeOK, CountEmitError
  PROVE  ~Unspoiled'
<1>1. CASE "emit" \in swallowed'
  BY <1>1 DEF Unspoiled
<1>2. CASE counters'["application_log_emit_errors"]
             = counters["application_log_emit_errors"] + 1
  <2>1. counters["application_log_emit_errors"] \in Nat
    BY CounterTypes
  <2> QED
    BY <1>2, <2>1 DEF Unspoiled
<1> QED
  BY <1>1, <1>2, ExcuseCounts

(* A record adds its items to the stream it belongs to, and to no other. *)
LEMMA LoggedAccepts ==
  ASSUME logs \in LogRecords, NEW stream \in {"accepted", "completed"}, NEW items,
         NEW transition, Logged(stream, items, transition)
  PROVE  logs'.accepted = IF stream = "accepted" THEN logs.accepted \cup items
                          ELSE logs.accepted
<1>1. CASE stream = "accepted"
  <2>1. logs' = [logs EXCEPT !.accepted = @ \cup items,
                             !.crossings = @ \cup ({transition} \ {0})]
    BY <1>1 DEF Logged
  <2> QED
    BY <1>1, <2>1 DEF LogRecords
<1>2. CASE stream = "completed"
  <2>1. logs' = [logs EXCEPT !.completed = @ \cup items,
                             !.crossings = @ \cup ({transition} \ {0})]
    BY <1>2 DEF Logged
  <2> QED
    BY <1>2, <2>1 DEF LogRecords
<1> QED
  BY <1>1, <1>2

(* The logs grow by what a handler reports of itself ...                    *)
LEMMA HandlerLogs ==
  ASSUME TypeOK, NEW r \in Requests, Send(r) \/ Handler(r)
  PROVE  /\ logs.accepted \subseteq logs'.accepted
         /\ logs.crossings \subseteq logs'.crossings
         /\ logs'.crossings \subseteq logs.crossings \cup ({seen[r]} \ {0})
         /\ Emit(r) => \/ apiPc'[r] = "excuse"
                       \/ /\ apiPc'[r] = "count"
                          /\ status[r] = 202 => r \in logs'.accepted
                          /\ seen[r] \in logs'.crossings \cup {0}
<1>1. logs \in LogRecords /\ apiPc \in [Requests -> ApiSteps]
  BY LogsType DEF TypeOK
<1>2. CASE Emit(r)
  <2> DEFINE log == Logged("accepted", IF status[r] = 202 THEN {r} ELSE {}, seen[r])
  <2>1. log \/ logs' = logs
    BY <1>2 DEF Emit, MayApply
  <2>2. \/ apiPc'[r] = "excuse"
        \/ apiPc'[r] = "count" /\ log
    BY <1>1, <1>2 DEF Emit, ApiGoto
  <2>3. log => /\ logs'.accepted = logs.accepted \cup (IF status[r] = 202 THEN {r} ELSE {})
               /\ logs'.crossings = logs.crossings \cup ({seen[r]} \ {0})
    BY <1>1, LoggedKeeps, LoggedAccepts
  <2> HIDE DEF log
  <2> QED
    BY <2>1, <2>2, <2>3
<1>3. CASE ~Emit(r)
  <2>1. logs' = logs
    BY <1>3 DEF Send, Handler, Gate, Push, ExcuseEmit, CountEmitError, Count, Reply, reports
  <2> QED
    BY <1>3, <2>1
<1> QED
  BY <1>2, <1>3

(* ... and a worker of the item it completed.                               *)
LEMMA WorkerLogs ==
  ASSUME TypeOK, NEW w \in Workers, Work(w)
  PROVE  /\ logs'.accepted = logs.accepted
         /\ logs.crossings \subseteq logs'.crossings
         /\ logs'.crossings \subseteq logs.crossings \cup ({found[w]} \ {0})
         /\ workerPc[w] = "complete" => \/ workerPc'[w] = "completeExcuse"
                                        \/ found[w] \in logs'.crossings \cup {0}
<1>1. logs \in LogRecords /\ workerPc \in [Workers -> WorkerSteps]
  BY LogsType DEF TypeOK
<1>2. CASE EmitWorker(w)
  <2>1. \/ WorkerLog(w)
        \/ (WorkerLog(w) \/ UNCHANGED logs) /\ workerPc'[w] = Excuse[workerPc[w]]
    BY <1>1, <1>2 DEF EmitWorker, MayApply, WorkerGoto
  <2>2. CASE workerPc[w] = "complete"
    <3>1. WorkerLog(w) => /\ logs'.accepted = logs.accepted
                          /\ logs'.crossings = logs.crossings \cup ({found[w]} \ {0})
      BY <1>1, <2>2, LoggedKeeps, LoggedAccepts DEF WorkerLog
    <3>2. Excuse[workerPc[w]] = "completeExcuse"
      BY <2>2 DEF Excuse
    <3> QED
      BY <2>1, <3>1, <3>2
  <2>3. CASE workerPc[w] # "complete"
    BY <2>1, <2>3 DEF WorkerLog
  <2> QED
    BY <2>2, <2>3
<1>3. CASE ~EmitWorker(w)
  <2>1. logs' = logs
    <3>1. CASE Before(w)
      BY <3>1, BeforeTheCommit
    <3>2. CASE Commit(w) \/ CountWork(w)
      BY <3>2 DEF Commit, CountWork, reports
    <3>3. CASE ExcuseWorker(w)
      BY <3>3 DEF ExcuseWorker, CountEmitError
    <3> QED
      BY <1>3, <3>1, <3>2, <3>3 DEF Work, Before
  <2>2. workerPc[w] # "complete"
    BY <1>3 DEF Work, CheckCrash, Register, Dequeue, MeasureWait, Lock, Commit, ExcuseWorker,
                Excuses, Excuse, Emissions, CountWork
  <2> QED
    BY <2>1, <2>2
<1> QED
  BY <1>2, <1>3

(* An accepted checkout whose report is behind it is in the logs.           *)
Reported == {"count", "reply", "answered", "dropped"}

AcceptedLogged ==
  Unspoiled => \A r \in Requests :
                 apiPc[r] \in Reported /\ status[r] = 202 => r \in logs.accepted

(* In an unspoiled run nothing is answered 202 before its acceptance is logged. *)
LEMMA AppKeepsAccepted ==
  ASSUME TypeOK, AcceptedLogged, AppStep
  PROVE  AcceptedLogged'
<1> SUFFICES ASSUME Unspoiled', NEW s \in Requests, apiPc'[s] \in Reported, status'[s] = 202
             PROVE  s \in logs'.accepted
  BY DEF AcceptedLogged
<1>1. Unspoiled
  BY SpoiledStays
<1>2. ASSUME NEW w \in Workers, Work(w) PROVE s \in logs'.accepted
  BY <1>1, <1>2, WorkKinds, WorkerLogs DEF AcceptedLogged
<1>3. ASSUME NEW r \in Requests, Send(r) \/ Handler(r) PROVE s \in logs'.accepted
  <2>1. CASE s # r
    BY <1>1, <1>3, <2>1, HandlerKinds, HandlerLogs DEF AcceptedLogged
  <2>2. CASE s = r
    <3>0. apiPc \in [Requests -> ApiSteps]
      BY DEF TypeOK
    <3>1. CASE Emit(r)
      <4>1. status' = status
        BY <3>1 DEF Emit
      <4> QED
        BY <1>3, <2>2, <3>1, <4>1, HandlerLogs DEF Reported
    <3>2. CASE ExcuseEmit(r)
      BY <3>2, ExcuseSpoils DEF ExcuseEmit
    <3>3. CASE Count(r) \/ Reply(r)
      <4>1. apiPc[r] \in Reported /\ status' = status
        BY <3>3 DEF Count, Reply, Reported
      <4> QED
        BY <1>1, <1>3, <2>2, <4>1, HandlerLogs DEF AcceptedLogged
    <3>4. CASE Send(r) \/ Gate(r) \/ Push(r)
      BY <2>2, <3>0, <3>4 DEF Send, Gate, Push, ApiGoto, Reported
    <3> QED
      BY <1>3, <3>1, <3>2, <3>3, <3>4 DEF Handler
  <2> QED
    BY <2>1, <2>2
<1> QED
  BY <1>2, <1>3 DEF AppStep

(* main changes neither answers nor logs. *)
LEMMA RunnerKeepsAccepted ==
  ASSUME RunShape, InOrder, AcceptedLogged, RunnerStep
  PROVE  AcceptedLogged'
<1>1. UNCHANGED <<apiPc, status, logs, swallowed>>
  BY RunnerFrame DEF appRest
<1>2. CASE counters' = counters
  BY <1>1, <1>2 DEF AcceptedLogged, Unspoiled
<1>3. CASE runner = "reset"
  BY <1>1, <1>3, NobodyYet DEF AcceptedLogged, Preparing, Reported
<1> QED
  BY <1>2, <1>3, RunnerFrame

(* A script names the crossing it adds.                                     *)
LEMMA AdvanceNames ==
  ASSUME TypeOK, NEW list, Advance(list)
  PROVE  /\ Len(crossings) \in Nat /\ Len(crossings') \in Nat
         /\ Len(crossings) <= Len(crossings') /\ Crossing(list) <= Len(crossings')
         /\ Crossing(list) \in Nat
<1>1. crossings \in Seq(Buckets) /\ Len(crossings) \in Nat
  BY DEF TypeOK
<1>2. CASE backlog = Bucket(Len(list))
  BY <1>1, <1>2 DEF Advance, Crossing
<1>3. CASE backlog # Bucket(Len(list))
  <2>1. PICK b \in Buckets : b = Bucket(Len(list))
    BY BucketType
  <2>2. crossings' = Append(crossings, b) /\ Crossing(list) = Len(crossings) + 1
    BY <1>3, <2>1 DEF Advance, Crossing
  <2>3. Len(crossings') = Len(crossings) + 1
    BY <1>1, <2>2
  <2> QED
    BY <1>1, <2>2, <2>3
<1> QED
  BY <1>2, <1>3

(* Who runs a script keeps its answer, or its call has failed.              *)
LEMMA HandlerSees ==
  ASSUME TypeOK, NEW r \in Requests, Send(r) \/ Handler(r)
  PROVE  /\ found' = found
         /\ \/ UNCHANGED <<seen, backlog, crossings>>
            \/ \E list : /\ Advance(list) /\ apiPc[r] = "push" /\ apiPc'[r] = "emit"
                         /\ \/ seen' = [seen EXCEPT ![r] = Crossing(list)]
                            \/ seen' = seen /\ status'[r] = 500
<1> USE DEF listVars, apiVars, workerVars
<1>1. apiPc \in [Requests -> ApiSteps] /\ status \in [Requests -> Statuses]
  BY StatusType DEF TypeOK
<1>2. CASE Push(r)
  <2>1. /\ found' = found /\ apiPc[r] = "push" /\ apiPc'[r] = "emit"
        /\ \/ /\ Advance(Append(queue, r))
              /\ seen' = [seen EXCEPT ![r] = Crossing(Append(queue, r))]
           \/ /\ Advance(Append(queue, r)) \/ UNCHANGED listVars
              /\ Fails(r) /\ seen' = seen
    BY <1>1, <1>2 DEF Push, ApiGoto, MayApply
  <2>2. Fails(r) => status'[r] = 500
    BY <1>1 DEF Fails
  <2> HIDE DEF listVars
  <2> QED
    BY <2>1, <2>2 DEF listVars
<1>3. CASE ~Push(r)
  BY <1>3 DEF Send, Handler, Gate, Emit, ExcuseEmit, Count, Reply
<1> QED
  BY <1>2, <1>3

(* A worker learns of a crossing with the pop that made it. *)
LEMMA WorkerFinds ==
  ASSUME TypeOK, NEW w \in Workers, Work(w)
  PROVE  /\ seen' = seen
         /\ \/ UNCHANGED <<found, backlog, crossings>>
            \/ /\ workerPc[w] = "count" /\ found' = [found EXCEPT ![w] = 0]
               /\ UNCHANGED <<backlog, crossings>>
            \/ \E list : /\ Advance(list) /\ workerPc[w] = "dequeue" /\ hand'[w] \in Requests
                         /\ \/ /\ workerPc'[w] = "wait"
                               /\ found' = [found EXCEPT ![w] = Crossing(list)]
                            \/ workerPc'[w] = "confess" /\ found' = found
<1> USE DEF listVars, apiVars
<1>1. /\ workerPc \in [Workers -> WorkerSteps] /\ hand \in [Workers -> Requests \cup {Nobody}]
      /\ queue # <<>> => Head(queue) \in Requests
  BY ListType DEF TypeOK
<1>2. CASE Dequeue(w)
  <2>1. Take(w) => hand'[w] \in Requests /\ Advance(Tail(queue))
    BY <1>1 DEF Take
  <2>2. /\ seen' = seen /\ workerPc[w] = "dequeue"
        /\ \/ /\ Take(w) /\ workerPc'[w] = "wait"
              /\ found' = [found EXCEPT ![w] = Crossing(Tail(queue))]
           \/ UNCHANGED <<listVars, found>>
           \/ Take(w) /\ workerPc'[w] = "confess" /\ found' = found
    BY <1>1, <1>2 DEF Dequeue, WorkerGoto, MayApply
  <2> QED
    BY <2>1, <2>2
<1>3. CASE CountWork(w)
  BY <1>3 DEF CountWork
<1>4. CASE ~Dequeue(w) /\ ~CountWork(w)
  BY <1>4 DEF Work, CheckCrash, Register, MeasureWait, Lock, Commit, EmitWorker, ExcuseWorker
<1> QED
  BY <1>2, <1>3, <1>4

(* Every transition that a thread knows, or has reported, is one there was. *)
CrossingsBounded ==
  /\ logs.crossings \subseteq 1 .. Len(crossings)
  /\ \A r \in Requests : seen[r] <= Len(crossings)
  /\ \A w \in Workers : found[w] <= Len(crossings)

(* Nobody speaks of a crossing that has not happened. *)
LEMMA AppKeepsBounds ==
  ASSUME TypeOK, CrossingsBounded, AppStep
  PROVE  CrossingsBounded'
<1>1. /\ seen \in [Requests -> Nat] /\ found \in [Workers -> Nat] /\ Len(crossings) \in Nat
  BY DEF TypeOK
<1>2. Len(crossings') \in Nat /\ Len(crossings) <= Len(crossings')
  BY <1>1, AppScripts, AdvanceNames
<1>3. \A i \in 1 .. Len(crossings) : i \in 1 .. Len(crossings')
  BY <1>1, <1>2
<1>4. ASSUME NEW n \in Nat, n <= Len(crossings) PROVE {n} \ {0} \subseteq 1 .. Len(crossings')
  BY <1>1, <1>2, <1>4
<1>5. ASSUME NEW r \in Requests, Send(r) \/ Handler(r) PROVE CrossingsBounded'
  <2>1. logs'.crossings \subseteq 1 .. Len(crossings')
    <3>1. logs'.crossings \subseteq logs.crossings \cup ({seen[r]} \ {0})
      BY <1>5, HandlerLogs
    <3>2. {seen[r]} \ {0} \subseteq 1 .. Len(crossings')
      BY <1>1, <1>4 DEF CrossingsBounded
    <3> QED
      BY <1>3, <3>1, <3>2 DEF CrossingsBounded
  <2>2. \A s \in Requests : seen'[s] <= Len(crossings')
    <3>1. CASE seen' = seen
      BY <1>1, <1>2, <3>1 DEF CrossingsBounded
    <3>2. ASSUME NEW list, Advance(list), seen' = [seen EXCEPT ![r] = Crossing(list)]
          PROVE  \A s \in Requests : seen'[s] <= Len(crossings')
      BY <1>1, <1>2, <3>2, AdvanceNames DEF CrossingsBounded
    <3> QED
      BY <1>5, <3>1, <3>2, HandlerSees
  <2>3. \A w \in Workers : found'[w] <= Len(crossings')
    BY <1>1, <1>2, <1>5, HandlerSees DEF CrossingsBounded
  <2> QED
    BY <2>1, <2>2, <2>3 DEF CrossingsBounded
<1>6. ASSUME NEW w \in Workers, Work(w) PROVE CrossingsBounded'
  <2>1. logs'.crossings \subseteq 1 .. Len(crossings')
    <3>1. logs'.crossings \subseteq logs.crossings \cup ({found[w]} \ {0})
      BY <1>6, WorkerLogs
    <3>2. {found[w]} \ {0} \subseteq 1 .. Len(crossings')
      BY <1>1, <1>4 DEF CrossingsBounded
    <3> QED
      BY <1>3, <3>1, <3>2 DEF CrossingsBounded
  <2>2. \A v \in Workers : found'[v] <= Len(crossings')
    <3>1. CASE found' = found
      BY <1>1, <1>2, <3>1 DEF CrossingsBounded
    <3>2. CASE found' = [found EXCEPT ![w] = 0]
      BY <1>1, <1>2, <3>2 DEF CrossingsBounded
    <3>3. ASSUME NEW list, Advance(list), found' = [found EXCEPT ![w] = Crossing(list)]
          PROVE  \A v \in Workers : found'[v] <= Len(crossings')
      BY <1>1, <1>2, <3>3, AdvanceNames DEF CrossingsBounded
    <3> QED
      BY <1>6, <3>1, <3>2, <3>3, WorkerFinds
  <2>3. \A s \in Requests : seen'[s] <= Len(crossings')
    BY <1>1, <1>2, <1>6, WorkerFinds DEF CrossingsBounded
  <2> QED
    BY <2>1, <2>2, <2>3 DEF CrossingsBounded
<1> QED
  BY <1>5, <1>6 DEF AppStep

(* main makes no crossing. *)
LEMMA RunnerKeepsBounds ==
  ASSUME CrossingsBounded, RunnerStep
  PROVE  CrossingsBounded'
BY RunnerFrame DEF CrossingsBounded, appRest

(* A crossing is in the logs, on its way there with a thread that knows it, *)
(* or it went with a call that failed and left an error or a lost worker.   *)
Tracking == DueSteps \cup {"complete", "completeExcuse"}

Accounted(i) ==
  \/ i \in logs.crossings
  \/ \E r \in Requests : apiPc[r] \in {"emit", "excuse"} /\ seen[r] = i
  \/ \E w \in Workers : workerPc[w] \in Tracking /\ found[w] = i
  \/ \E r \in Requests : status[r] = 500
  \/ \E w \in Workers : hand[w] # Nobody /\ workerPc[w] \in DoomedSteps

CrossingsKnown == Unspoiled => \A i \in 1 .. Len(crossings) : Accounted(i)

(* A worker takes its transition to the logs, or out of its loop.           *)
LEMMA TrackingGoesOn ==
  ASSUME TypeOK, Custody, NEW w \in Workers, Work(w), workerPc[w] \in Tracking, Unspoiled'
  PROVE  /\ found' = found /\ hand' = hand /\ hand[w] # Nobody
         /\ \/ workerPc'[w] \in Tracking \cup DoomedSteps
            \/ found[w] \in logs'.crossings \cup {0}
<1>1. hand[w] # Nobody
  BY MatrixNames DEF Custody, HandAgrees, Tracking, DueSteps, DoneSteps
<1>2. workerPc \in [Workers -> WorkerSteps]
  BY DEF TypeOK
<1> USE DEF Tracking, DueSteps, DoomedSteps, WorkerGoto
<1>3. CASE MeasureWait(w) \/ Lock(w) \/ Commit(w)
  BY <1>1, <1>2, <1>3 DEF MeasureWait, Lock, Commit
<1>4. CASE EmitWorker(w)
  <2>1. workerPc[w] = "complete" /\ found' = found /\ hand' = hand
    BY <1>4 DEF EmitWorker, Emissions
  <2> QED
    BY <1>1, <2>1, WorkerLogs
<1>5. CASE ExcuseWorker(w)
  BY <1>5, ExcuseSpoils DEF ExcuseWorker
<1>6. ~CheckCrash(w) /\ ~Register(w) /\ ~Dequeue(w) /\ ~CountWork(w)
  BY DEF CheckCrash, Register, Dequeue, CountWork
<1> QED
  BY <1>3, <1>4, <1>5, <1>6 DEF Work

(* A failure stays the status of its request.                               *)
LEMMA FailureStays ==
  ASSUME TypeOK, Agreement, NEW r \in Requests, status[r] = 500, AppStep
  PROVE  status'[r] = 500
<1>1. apiPc[r] \notin Early
  BY DEF Agreement, StatusAgrees
<1>2. CASE \E w \in Workers : Work(w)
  BY <1>2, WorkKinds
<1>3. ASSUME NEW q \in Requests, Send(q) \/ Handler(q) PROVE status'[r] = 500
  <2>1. CASE q # r
    BY <1>3, <2>1, HandlerKinds
  <2>2. CASE q = r
    <3>1. status' = status
      BY <1>1, <1>3, <2>2 DEF Early, Send, Handler, Gate, Push, Emit, ExcuseEmit, Count, Reply
    <3> QED
      BY <3>1
  <2> QED
    BY <2>1, <2>2
<1> QED
  BY <1>2, <1>3 DEF AppStep

(* A worker carries the crossing it made to the log, or spoils the run. *)
LEMMA WorkKeepsKnown ==
  ASSUME TypeOK, Custody, Agreement, CrossingsKnown, NEW w \in Workers, Work(w), AppStep
  PROVE  CrossingsKnown'
<1> SUFFICES ASSUME Unspoiled', NEW i \in 1 .. Len(crossings') PROVE Accounted(i)'
  BY DEF CrossingsKnown
<1>0. /\ Unspoiled /\ workerPc \in [Workers -> WorkerSteps] /\ found \in [Workers -> Nat]
      /\ Len(crossings) \in Nat
      /\ \A v \in Workers : v # w => workerPc'[v] = workerPc[v] /\ hand'[v] = hand[v]
      /\ UNCHANGED <<apiPc, status, seen>>
      /\ \A v \in Workers : v # w => found'[v] = found[v]
  <2>1. Unspoiled
    BY SpoiledStays
  <2>2. /\ workerPc \in [Workers -> WorkerSteps] /\ found \in [Workers -> Nat]
        /\ Len(crossings) \in Nat
    BY DEF TypeOK
  <2>3. \A v \in Workers : v # w => workerPc'[v] = workerPc[v] /\ hand'[v] = hand[v]
    BY OthersKeepTheirs
  <2>4. UNCHANGED <<apiPc, status, seen>>
    BY WorkKinds, WorkerFinds
  <2>5. found' = found \/ \E n : found' = [found EXCEPT ![w] = n]
    BY WorkerFinds
  <2> QED
    BY <2>1, <2>2, <2>3, <2>4, <2>5
<1>1. CASE i \notin 1 .. Len(crossings)
  <2>1. PICK list : /\ Advance(list) /\ workerPc[w] = "dequeue" /\ hand'[w] \in Requests
                    /\ \/ workerPc'[w] = "wait" /\ found' = [found EXCEPT ![w] = Crossing(list)]
                       \/ workerPc'[w] = "confess" /\ found' = found
    BY <1>1, WorkerFinds
  <2>2. i = Crossing(list)
    BY <1>1, <2>1, AdvanceAdds
  <2>3. workerPc'[w] = "wait" => found'[w] = i
    BY <1>0, <2>1, <2>2
  <2> QED
    BY <2>1, <2>3, MatrixNames DEF Accounted, Tracking, DueSteps, DoomedSteps
<1>2. CASE i \in 1 .. Len(crossings)
  <2>0. Accounted(i) /\ i # 0
    BY <1>0, <1>2 DEF CrossingsKnown
  <2>1. CASE i \in logs.crossings
    BY <2>1, WorkerLogs DEF Accounted
  <2>2. CASE \E r \in Requests : apiPc[r] \in {"emit", "excuse"} /\ seen[r] = i
    BY <1>0, <2>2 DEF Accounted
  <2>3. CASE \E r \in Requests : status[r] = 500
    BY <1>0, <2>3 DEF Accounted
  <2>4. ASSUME NEW v \in Workers, workerPc[v] \in Tracking, found[v] = i PROVE Accounted(i)'
    <3>1. CASE v # w
      BY <1>0, <2>4, <3>1 DEF Accounted
    <3>2. CASE v = w
      <4>1. /\ found'[w] = i /\ hand'[w] # Nobody
            /\ \/ workerPc'[w] \in Tracking \cup DoomedSteps
               \/ i \in logs'.crossings \cup {0}
        BY <2>4, <3>2, TrackingGoesOn
      <4> QED
        BY <2>0, <4>1 DEF Accounted
    <3> QED
      BY <3>1, <3>2
  <2>5. ASSUME NEW v \in Workers, hand[v] # Nobody, workerPc[v] \in DoomedSteps PROVE Accounted(i)'
    <3>1. CASE v # w
      BY <1>0, <2>5, <3>1 DEF Accounted
    <3>2. CASE v = w
      <4>1. hand' = hand /\ workerPc'[w] \in DoomedSteps
        <5>1. PICK step \in WorkerSteps :
                /\ workerPc' = [workerPc EXCEPT ![w] = step]
                /\ MovesNothing(w, step) \/ Pops(w, step) \/ Stores(w, step) \/ LetsGo(w, step)
          BY WorkKinds
        <5> QED
          BY <1>0, <2>5, <3>2, <5>1 DEF MovesNothing, Pops, Stores, LetsGo, FreeSteps, DueSteps,
             DoneSteps, DoomedSteps
      <4> QED
        BY <2>5, <3>2, <4>1 DEF Accounted
    <3> QED
      BY <3>1, <3>2
  <2> QED
    BY <2>0, <2>1, <2>2, <2>3, <2>4, <2>5 DEF Accounted
<1> QED
  BY <1>1, <1>2

(* A handler carries the crossing it made to the log, or spoils the run. *)
LEMMA HandlerKeepsKnown ==
  ASSUME TypeOK, Agreement, CrossingsKnown, NEW r \in Requests, Send(r) \/ Handler(r), AppStep
  PROVE  CrossingsKnown'
<1> SUFFICES ASSUME Unspoiled', NEW i \in 1 .. Len(crossings') PROVE Accounted(i)'
  BY DEF CrossingsKnown
<1>0. /\ Unspoiled /\ apiPc \in [Requests -> ApiSteps] /\ seen \in [Requests -> Nat]
      /\ Len(crossings) \in Nat
      /\ UNCHANGED <<hand, workerPc, found>>
      /\ \A s \in Requests : s # r => apiPc'[s] = apiPc[s]
      /\ \A s \in Requests : s # r => seen'[s] = seen[s]
      /\ apiPc[r] # "push" => seen' = seen
  <2>1. Unspoiled
    BY SpoiledStays
  <2>2. /\ apiPc \in [Requests -> ApiSteps] /\ seen \in [Requests -> Nat]
        /\ Len(crossings) \in Nat
    BY DEF TypeOK
  <2>3. UNCHANGED <<hand, workerPc, found>> /\ \A s \in Requests : s # r => apiPc'[s] = apiPc[s]
    BY HandlerKinds, HandlerSees
  <2>4. \/ seen' = seen
        \/ apiPc[r] = "push" /\ \E n : seen' = [seen EXCEPT ![r] = n]
    BY HandlerSees
  <2> QED
    BY <2>1, <2>2, <2>3, <2>4
<1>1. CASE i \notin 1 .. Len(crossings)
  <2>1. PICK list : /\ Advance(list) /\ apiPc'[r] = "emit"
                    /\ \/ seen' = [seen EXCEPT ![r] = Crossing(list)]
                       \/ seen' = seen /\ status'[r] = 500
    BY <1>1, HandlerSees
  <2>2. i = Crossing(list)
    BY <1>1, <2>1, AdvanceAdds
  <2>3. seen'[r] = i \/ status'[r] = 500
    BY <1>0, <2>1, <2>2
  <2> QED
    BY <2>1, <2>3 DEF Accounted
<1>2. CASE i \in 1 .. Len(crossings)
  <2>0. Accounted(i) /\ i # 0
    BY <1>0, <1>2 DEF CrossingsKnown
  <2>1. CASE i \in logs.crossings
    BY <2>1, HandlerLogs DEF Accounted
  <2>2. CASE \E w \in Workers : workerPc[w] \in Tracking /\ found[w] = i
    BY <1>0, <2>2 DEF Accounted
  <2>3. CASE \E w \in Workers : hand[w] # Nobody /\ workerPc[w] \in DoomedSteps
    BY <1>0, <2>3 DEF Accounted
  <2>4. CASE \E s \in Requests : status[s] = 500
    BY <2>4, FailureStays DEF Accounted
  <2>5. ASSUME NEW s \in Requests, apiPc[s] \in {"emit", "excuse"}, seen[s] = i
        PROVE  Accounted(i)'
    <3>1. CASE s # r
      BY <1>0, <2>5, <3>1 DEF Accounted
    <3>2. CASE s = r /\ Emit(r)
      <4>1. seen'[r] = i
        BY <1>0, <2>5, <3>2
      <4> QED
        BY <2>0, <2>5, <3>2, <4>1, HandlerLogs DEF Accounted
    <3>3. CASE s = r /\ ExcuseEmit(r)
      BY <3>3, ExcuseSpoils DEF ExcuseEmit
    <3>4. CASE s = r /\ ~Emit(r) /\ ~ExcuseEmit(r)
      BY <2>5, <3>4 DEF Send, Handler, Gate, Push, Count, Reply
    <3> QED
      BY <3>1, <3>2, <3>3, <3>4
  <2> QED
    BY <2>0, <2>1, <2>2, <2>3, <2>4, <2>5 DEF Accounted
<1> QED
  BY <1>1, <1>2

(* main takes no crossing away from the thread that knows it. *)
LEMMA RunnerKeepsKnown ==
  ASSUME RunShape, InOrder, Fresh, CrossingsKnown, RunnerStep
  PROVE  CrossingsKnown'
<1>1. UNCHANGED <<crossings, appRest>>
  BY RunnerFrame
<1>2. \A i : Accounted(i)' = Accounted(i)
  BY <1>1 DEF Accounted, appRest
<1>3. CASE counters' = counters
  BY <1>1, <1>2, <1>3 DEF CrossingsKnown, Unspoiled, appRest
<1>4. CASE runner = "reset"
  <2>1. crossings = <<>>
    BY <1>4, NobodyYet DEF Fresh, Quiet, Preparing
  <2>2. 1 .. Len(crossings') = {}
    BY <1>1, <2>1
  <2> QED
    BY <2>2 DEF CrossingsKnown
<1> QED
  BY <1>3, <1>4, RunnerFrame

-----------------------------------------------------------------------------
(* The end of a normal run *)

Finished ==
  /\ \A r \in Requests : apiPc[r] = "answered"
  /\ queue = <<>> /\ \A w \in Workers : hand[w] = Nobody
  /\ logs.accepted = Requests /\ logs.completed = Requests
  /\ logs.crossings = 1 .. Len(crossings)

(* Past the drain check all requests are counted; past the check of the     *)
(* emit errors everything is done.                                          *)
Drain ==
  ~failing /\ kind = "none" /\ swallowed = {} =>
    /\ runner \in {"drainDepth", "boundary", "errors"} =>
         counters["worker_processed"] >= Cardinality(Requests)
    /\ runner \in {"closing", "closingUnlock", "done"} => Finished

(* A finished application has nothing left to do. *)
LEMMA FinishedStays ==
  ASSUME TypeOK, Custody, Finished, AppStep
  PROVE  Finished'
<1>1. ASSUME NEW r \in Requests, Send(r) \/ Handler(r) PROVE FALSE
  BY <1>1, HandlerRuns DEF Finished
<1>2. PICK w \in Workers : Work(w)
  BY <1>1 DEF AppStep
<1>3. PICK step \in WorkerSteps :
        /\ workerPc' = [workerPc EXCEPT ![w] = step]
        /\ MovesNothing(w, step) \/ Pops(w, step) \/ Stores(w, step) \/ LetsGo(w, step)
  BY <1>2, WorkKinds
<1>4. workerPc[w] \notin DueSteps \cup DoneSteps
  BY MatrixNames DEF Finished, Custody, HandAgrees
<1>5. UNCHANGED <<queue, hand>>
  BY <1>3, <1>4 DEF Finished, MovesNothing, Pops, Stores, LetsGo, DueSteps, DoneSteps
<1>6. logs' = logs
  <2>1. CASE EmitWorker(w)
    BY <1>4, <2>1 DEF EmitWorker, WorkerLog, MayApply, DoneSteps
  <2>2. CASE Before(w)
    BY <2>2, BeforeTheCommit
  <2>3. CASE Commit(w) \/ ExcuseWorker(w) \/ CountWork(w)
    BY <2>3 DEF Commit, ExcuseWorker, CountEmitError, CountWork, reports
  <2> QED
    BY <1>2, <2>1, <2>2, <2>3 DEF Work, Before
<1>7. crossings' = crossings
  <2>1. hand'[w] \notin Requests
    BY <1>5, MatrixNames DEF Finished
  <2> QED
    BY <1>2, <2>1, WorkerFinds
<1>8. apiPc' = apiPc
  BY <1>2, WorkKinds
<1> QED
  BY <1>5, <1>6, <1>7, <1>8 DEF Finished

(* The application does not undo what the drain has seen. *)
LEMMA AppKeepsDrain ==
  ASSUME TypeOK, Custody, Drain, AppStep
  PROVE  Drain'
<1>1. UNCHANGED <<runner, failing, kind>> /\ (swallowed' = {} => swallowed = {})
  BY SwallowedStays DEF AppStep, runVars
<1>2. /\ counters["worker_processed"] \in Nat /\ counters'["worker_processed"] \in Nat
      /\ counters["worker_processed"] <= counters'["worker_processed"]
      /\ Cardinality(Requests) \in Nat
  BY AppCounts, ActorsAreFinite
<1> SUFFICES ASSUME ~failing, kind = "none", swallowed = {} PROVE Drain'
  BY <1>1 DEF Drain
<1>3. CASE runner \in {"drainDepth", "boundary", "errors"}
  BY <1>1, <1>2, <1>3 DEF Drain
<1>4. CASE runner \in {"closing", "closingUnlock", "done"}
  <2>1. Finished'
    BY <1>4, FinishedStays DEF Drain
  <2> QED
    BY <1>1, <1>4, <2>1 DEF Drain
<1>5. CASE runner \notin {"drainDepth", "boundary", "errors", "closing", "closingUnlock", "done"}
  BY <1>1, <1>5 DEF Drain
<1> QED
  BY <1>3, <1>4, <1>5

(* How main comes to the end of a normal run.                               *)
LEMMA EndMoves ==
  ASSUME RunnerStep, ~failing', kind = "none"
  PROVE  /\ runner' \in {"drainDepth", "boundary", "errors"} =>
              \/ runner \in {"drainDepth", "boundary"}
              \/ runner = "drain" /\ Drained
         /\ runner' \in {"closing", "closingUnlock", "done"} =>
              \/ runner \in {"closing", "closingUnlock"}
              \/ runner = "errors" /\ counters["application_log_emit_errors"] = 0
<1> USE DEF At, Goto, Raises, EndsAs
<1>1. CASE WaitUntilReady \/ Reset \/ Truncate
  BY <1>1 DEF WaitUntilReady, Reset, Truncate
<1>2. CASE Baseline("baseline", "baselineRows") \/ Baseline("baselineRows", "check")
  BY <1>2 DEF Baseline
<1>3. CASE CheckWorkers \/ NoFaultDue \/ StartFault \/ StopFault \/ StopLock \/ Gathered
  BY <1>3 DEF CheckWorkers, NoFaultDue, StartFault, StopFault, StopLock, Gathered
<1>4. CASE ReadCounters \/ ReadRows \/ ReadDepth
  BY <1>4 DEF ReadCounters, ReadRows, ReadDepth, Read
<1>5. CASE EmitSample
  BY <1>5 DEF EmitSample
<1>6. CASE PollCounters
  BY <1>6 DEF PollCounters, PollAgain
<1>7. CASE PollDepth
  BY <1>7 DEF PollDepth, PollAgain
<1>8. CASE EmitBoundary \/ CheckEmitErrors
  BY <1>8 DEF EmitBoundary, CheckEmitErrors
<1>9. CASE Close
  BY <1>9 DEF Close, End
<1>10. CASE CloseLock
  BY <1>10 DEF CloseLock, End
<1> QED
  BY <1>1, <1>2, <1>3, <1>4, <1>5, <1>6, <1>7, <1>8, <1>9, <1>10 DEF RunnerStep

(* After the last window of a normal case all requests have been answered   *)
(* 202 and, if no tally was swallowed, counted.                             *)
LEMMA AllAnswered ==
  ASSUME RunTyped, RunShape, InOrder, runner \in Finishing, kind = "none"
  PROVE  \A r \in Requests : apiPc[r] = "answered" /\ status[r] = 202
<1>1. ~failing /\ point = PointCount /\ PointCount \in Nat
  BY CaseAssumption DEF RunShape, Finishing
<1>2. Gone = PointCount
  BY <1>1 DEF Gone, Finishing
<1>3. \A r \in Requests : Window[r] < Gone
  BY <1>1, <1>2, WindowType
<1> QED
  BY <1>1, <1>3 DEF InOrder, Settled, ExpectedAt

(* The counters of a drained run say that every request was processed. *)
LEMMA DrainedMeansServed ==
  ASSUME RunTyped, RunShape, InOrder, CountsExact, runner \in Finishing, kind = "none",
         swallowed = {}, Drained, TypeOK
  PROVE  counters["worker_processed"] >= Cardinality(Requests)
<1>1. Counted = Requests /\ Refused = {}
  BY AllAnswered DEF Counted, Refused
<1>2. /\ counters["api_requests"] = Cardinality(Requests) /\ counters["api_errors"] = 0
      /\ Cardinality(Requests) \in Nat
  BY <1>1, FS_EmptySet, ActorsAreFinite DEF CountsExact
<1> QED
  BY <1>2 DEF Drained

(* What is served is done: nobody holds an item, nothing is queued, and     *)
(* every report and crossing is in the logs.                                *)
LEMMA ServedMeansFinished ==
  ASSUME AppInv, RunTyped, RunShape, InOrder, ServedLadder, AcceptedLogged, CrossingsKnown,
         CrossingsBounded, runner \in Finishing, kind = "none", swallowed = {},
         counters["application_log_emit_errors"] = 0,
         counters["worker_processed"] >= Cardinality(Requests)
  PROVE  Finished
<1>0. /\ TypeOK /\ Custody /\ LogsAgree /\ LogLadder
      /\ counters["worker_processed"] \in Nat /\ IsFiniteSet(Requests)
      /\ Cardinality(Requests) \in Nat /\ queue \in Seq(Requests) /\ logs \in LogRecords
  BY ActorsAreFinite, MatrixActors, CounterTypes, LogsType DEF AppInv, TypeOK
<1>1. \A r \in Requests : apiPc[r] = "answered" /\ status[r] = 202
  BY AllAnswered
<1>2. Cardinality(Served) <= Cardinality(Requests) /\ Served \subseteq Requests
  BY <1>0, FS_Subset DEF Served
<1>3. Cardinality(HandsInUse) = 0 /\ Cardinality(Served) = Cardinality(Requests)
  BY <1>0, <1>2, ServedTypes DEF ServedLadder
<1>4. \A w \in Workers : hand[w] = Nobody
  <2>1. HandsInUse = {}
    BY <1>3, ServedTypes, FS_EmptySet
  <2> QED
    BY <2>1 DEF HandsInUse
<1>5. queue = <<>>
  <2>1. Served = Requests
    BY <1>0, <1>2, <1>3, FS_Subset
  <2>2. ASSUME queue # <<>> PROVE FALSE
    <3>1. queue[1] \in Requests /\ 1 \in 1 .. Len(queue)
      BY <1>0, <2>2
    <3>2. Queued(queue[1])
      BY <3>1 DEF Queued
    <3> QED
      BY <2>1, <3>1, <3>2 DEF Served
  <2> QED
    BY <2>2
<1>6. logs.accepted = Requests
  <2>1. logs.accepted \subseteq Requests
    BY <1>0 DEF LogRecords
  <2>2. Unspoiled
    BY DEF Unspoiled
  <2>3. \A r \in Requests : r \in logs.accepted
    BY <1>1, <2>2 DEF AcceptedLogged, Reported
  <2> QED
    BY <2>1, <2>3
<1>7. logs.completed = Requests
  <2>1. logs.completed \subseteq Requests
    BY <1>0 DEF LogRecords
  <2>2. /\ Cardinality(logs.completed) \in Nat
        /\ Cardinality(logs.completed) <= Cardinality(Requests)
    BY <1>0, <2>1, FS_Subset, ActorsAreFinite
  <2>3. Cardinality(Counting) \in Nat
    BY ActorsAreFinite DEF Counting
  <2>4. counters["worker_processed"] + Cardinality(Counting) <= Cardinality(logs.completed)
    <3> HIDE DEF Counting
    <3> QED
      BY <1>0, <2>2, <2>3 DEF LogLadder, Debt
  <2>5. Cardinality(Requests) = Cardinality(logs.completed)
    BY <1>0, <2>2, <2>3, <2>4
  <2> QED
    BY <1>0, <2>1, <2>5, FS_Subset
<1>8. logs.crossings = 1 .. Len(crossings)
  <2>1. ASSUME NEW i \in 1 .. Len(crossings) PROVE i \in logs.crossings
    <3>1. Accounted(i)
      BY DEF CrossingsKnown, Unspoiled
    <3>2. \A w \in Workers : workerPc[w] \notin Tracking
      BY <1>0, <1>4, MatrixNames DEF Custody, HandAgrees, Tracking, DueSteps, DoneSteps
    <3> QED
      BY <1>1, <1>4, <3>1, <3>2 DEF Accounted
  <2> QED
    BY <2>1 DEF CrossingsBounded
<1> QED
  BY <1>1, <1>4, <1>5, <1>6, <1>7, <1>8 DEF Finished

(* main passes the drain only when every request was processed. *)
LEMMA RunnerKeepsDrain ==
  ASSUME AppInv, RunTyped, RunShape, InOrder, Fresh, CountsExact, ServedLadder, AcceptedLogged,
         CrossingsKnown, CrossingsBounded, Drain, RunnerStep
  PROVE  Drain'
<1> SUFFICES ASSUME ~failing', kind = "none", swallowed = {}
             PROVE  /\ runner' \in {"drainDepth", "boundary", "errors"} =>
                         counters'["worker_processed"] >= Cardinality(Requests)
                    /\ runner' \in {"closing", "closingUnlock", "done"} => Finished'
  BY RunnerFrame DEF Drain, appRest
<1>0. ~failing /\ TypeOK
  BY FailingStays DEF AppInv
<1>1. counters'["worker_processed"] = counters["worker_processed"] /\ Finished' = Finished
  BY <1>0, RunnerLeavesItems DEF Finished, appRest
<1>2. ASSUME runner' \in {"drainDepth", "boundary", "errors"}
      PROVE  counters["worker_processed"] >= Cardinality(Requests)
  <2>1. CASE runner \in {"drainDepth", "boundary"}
    BY <1>0, <2>1 DEF Drain
  <2>2. CASE runner = "drain" /\ Drained
    BY <1>0, <2>2, DrainedMeansServed DEF Finishing
  <2> QED
    BY <1>2, <2>1, <2>2, EndMoves
<1>3. ASSUME runner' \in {"closing", "closingUnlock", "done"} PROVE Finished
  <2>1. CASE runner \in {"closing", "closingUnlock"}
    BY <1>0, <2>1 DEF Drain
  <2>2. CASE runner = "errors" /\ counters["application_log_emit_errors"] = 0
    <3>1. counters["worker_processed"] >= Cardinality(Requests)
      BY <1>0, <2>2 DEF Drain
    <3> QED
      BY <2>2, <3>1, ServedMeansFinished DEF Finishing
  <2> QED
    BY <1>3, <2>1, <2>2, EndMoves
<1> QED
  BY <1>1, <1>2, <1>3

-----------------------------------------------------------------------------
(* The cases keep that too *)

EndInv ==
  /\ FirstCrossing /\ ServedLadder
  /\ AcceptedLogged /\ CrossingsKnown /\ CrossingsBounded
  /\ Drain

(* The application keeps the invariant of the end. *)
LEMMA AppKeepsEnd ==
  ASSUME AppInv, EndInv, AppStep
  PROVE  EndInv'
<1>1. TypeOK /\ Custody /\ Agreement
  BY DEF AppInv
<1>2. FirstCrossing' /\ AcceptedLogged' /\ CrossingsBounded' /\ Drain'
  BY <1>1, AppKeepsFirst, AppKeepsAccepted, AppKeepsBounds, AppKeepsDrain DEF EndInv
<1>3. ServedLadder'
  BY <1>1, HandlerKeepsServed, WorkKeepsServed DEF EndInv, AppStep
<1>4. CrossingsKnown'
  <2>1. ASSUME NEW r \in Requests, Send(r) \/ Handler(r) PROVE CrossingsKnown'
    BY <1>1, <2>1, HandlerKeepsKnown DEF EndInv
  <2>2. ASSUME NEW w \in Workers, Work(w) PROVE CrossingsKnown'
    BY <1>1, <2>2, WorkKeepsKnown DEF EndInv
  <2> QED
    BY <2>1, <2>2 DEF AppStep
<1> QED
  BY <1>2, <1>3, <1>4 DEF EndInv

(* main keeps the invariant of the end. *)
LEMMA RunnerKeepsEnd ==
  ASSUME AppInv, WindowInv, EndInv, RunnerStep
  PROVE  EndInv'
<1>1. TypeOK /\ RunTyped /\ RunShape /\ InOrder /\ Fresh /\ CountsExact
  BY DEF AppInv, WindowInv
<1>2. /\ FirstCrossing /\ ServedLadder /\ AcceptedLogged /\ CrossingsKnown /\ CrossingsBounded
      /\ Drain
  BY DEF EndInv
<1>3. FirstCrossing' /\ ServedLadder' /\ AcceptedLogged'
  BY <1>1, <1>2, RunnerKeepsFirst, RunnerKeepsServed, RunnerKeepsAccepted
<1>4. CrossingsKnown' /\ CrossingsBounded' /\ Drain'
  BY <1>1, <1>2, RunnerKeepsKnown, RunnerKeepsBounds, RunnerKeepsDrain
<1> QED
  BY <1>3, <1>4 DEF EndInv

(* A client that gives up, and a stutter, keep the invariant of the end. *)
LEMMA OtherStepsKeepEnd ==
  ASSUME EndInv, (\E r \in Requests : TimeOut(r)) \/ UNCHANGED caseVars
  PROVE  EndInv'
<1>1. UNCHANGED <<appVars, runVars, kind>>
  BY DEF TimeOut, caseVars
<1> USE <1>1 DEF EndInv, appVars, appRest, runVars
<1>2. FirstCrossing'
  BY DEF FirstCrossing
<1>3. ServedLadder'
  <2>1. Served' = Served /\ HandsInUse' = HandsInUse
    BY DEF Served, Queued, HandsInUse
  <2> QED
    BY <2>1 DEF ServedLadder
<1>4. AcceptedLogged' /\ CrossingsBounded'
  BY DEF AcceptedLogged, Unspoiled, CrossingsBounded
<1>5. CrossingsKnown'
  <2>1. \A i : Accounted(i)' = Accounted(i)
    BY DEF Accounted
  <2> QED
    BY <2>1 DEF CrossingsKnown, Unspoiled
<1>6. Drain'
  <2>1. Finished' = Finished
    BY DEF Finished
  <2> QED
    BY <2>1 DEF Drain
<1> QED
  BY <1>2, <1>3, <1>4, <1>5, <1>6

(* The invariant of the end holds when a case starts. *)
LEMMA EndStarts ==
  ASSUME CaseInit
  PROVE  EndInv
<1>1. Init /\ runner = "boot" /\ counters = NoCounts
  BY DEF CaseInit, Init
<1>2. FirstCrossing
  BY <1>1 DEF FirstCrossing
<1>3. ServedLadder
  <2>1. HandsInUse = {} /\ Served = {}
    BY <1>1 DEF HandsInUse, Served, Init, Early
  <2> QED
    BY <1>1, <2>1, FS_EmptySet DEF ServedLadder, NoCounts, CounterNames
<1>4. AcceptedLogged
  BY <1>1 DEF AcceptedLogged, Reported, Init
<1>5. crossings = <<>> /\ 1 .. Len(crossings) = {}
  BY <1>1 DEF Init
<1>6. CrossingsKnown
  BY <1>5 DEF CrossingsKnown
<1>7. CrossingsBounded
  <2>1. Len(crossings) = 0
    BY <1>5
  <2> QED
    BY <1>1, <2>1 DEF CrossingsBounded, Init, NoLogs
<1>8. Drain
  BY <1>1 DEF Drain
<1> QED
  BY <1>2, <1>3, <1>4, <1>6, <1>7, <1>8 DEF EndInv

(* A run leaves no fault behind, however it ends; and one that succeeds has *)
(* every checkout and every crossing in the logs, unless a failure was      *)
(* swallowed on the way.                                                    *)
THEOREM RunsLeaveNothing == CaseSpec => []RunsEndClean
<1>1. CaseInit => EndInv
  BY EndStarts
<1>2. AppInv /\ WindowInv /\ EndInv /\ [CaseNext]_caseVars => EndInv'
  BY CaseSteps, AppKeepsEnd, RunnerKeepsEnd, OtherStepsKeepEnd
<1>3. AppInv /\ WindowInv /\ EndInv => RunsEndClean
  <2> SUFFICES ASSUME AppInv, WindowInv, EndInv PROVE NothingLeftBehind /\ SuccessIsFullyLogged
    BY DEF RunsEndClean
  <2>1. NothingLeftBehind
    BY DEF WindowInv, Controls, NothingLeftBehind
  <2>2. SuccessIsFullyLogged
    <3>1. runner = "done" => ~failing
      BY DEF WindowInv, RunShape
    <3> QED
      BY <3>1 DEF EndInv, Drain, Finished, FirstCrossing, SuccessIsFullyLogged
  <2> QED
    BY <2>1, <2>2
<1> QED
  BY <1>1, <1>2, <1>3, WindowsHold, PTL DEF CaseSpec

-----------------------------------------------------------------------------
(* The counters of the application against its rows, threads and logs *)

(* Every step makes at most one call that fails.                             *)
LEMMA FaultsGrow ==
  ASSUME TypeOK, [Next]_vars
  PROVE  faults \in Nat /\ faults' \in {faults, faults + 1}
<1>1. faults \in Nat
  BY MatrixBounds DEF TypeOK
<1>2. Works \/ Breaks => faults' \in {faults, faults + 1}
  BY DEF Works, Breaks
<1>3. ASSUME NEW r \in Requests, Send(r) \/ Handler(r) PROVE faults' = faults \/ Works \/ Breaks
  <2>1. CASE Send(r) \/ Gate(r) \/ Push(r)
    BY <2>1 DEF Send, Gate, Push
  <2>2. CASE Emit(r) \/ ExcuseEmit(r) \/ Count(r) \/ Reply(r)
    BY <2>2 DEF Emit, ExcuseEmit, Count, Reply, CountEmitError
  <2> QED
    BY <1>3, <2>1, <2>2 DEF Handler
<1>4. ASSUME NEW w \in Workers, Work(w) PROVE Works \/ Breaks
  <2>1. CASE CheckCrash(w) \/ Register(w) \/ Dequeue(w) \/ MeasureWait(w) \/ Lock(w)
    BY <2>1 DEF CheckCrash, Register, Dequeue, MeasureWait, Lock
  <2>2. CASE Commit(w) \/ EmitWorker(w) \/ ExcuseWorker(w) \/ CountWork(w)
    BY <2>2 DEF Commit, EmitWorker, ExcuseWorker, CountWork, CountEmitError
  <2> QED
    BY <1>4, <2>1, <2>2 DEF Work
<1>5. CASE Inject \/ Withdraw \/ UNCHANGED vars
  BY <1>1, <1>5 DEF Inject, Withdraw, vars
<1> QED
  BY <1>1, <1>2, <1>3, <1>4, <1>5 DEF Next

(* A pipeline that was ignored is never forgotten. *)
LEMMA IgnoredStays ==
  ASSUME TypeOK, [Next]_vars
  PROVE  swallowed \subseteq swallowed'
<1>1. ASSUME NEW w \in Workers, Work(w) PROVE swallowed \subseteq swallowed'
  BY <1>1, BeforeTheCommit, ExcuseOnTheWay DEF Work, Before, Commit, EmitWorker, ExcuseWorker,
       CountWork, CountEmitError, reports
<1>2. CASE Inject \/ Withdraw \/ UNCHANGED vars
  BY <1>2 DEF Inject, Withdraw, vars, reports
<1> QED
  BY <1>1, <1>2, HandlerCounts DEF Next

(* A lag that is allowed stays allowed, and a pipeline that fails now allows *)
(* one count more.                                                           *)
LEMMA LagGrows ==
  ASSUME TypeOK, [Next]_vars, NEW pipeline
  PROVE  /\ Lag(pipeline) \in Nat /\ Lag(pipeline)' \in Nat
         /\ Lag(pipeline) <= Lag(pipeline)'
         /\ Breaks /\ pipeline \in swallowed' => Lag(pipeline) + 1 <= Lag(pipeline)'
BY FaultsGrow, IgnoredStays DEF Lag, Breaks

(* The workers that have a stored item in hand. *)
Carried == {w \in Workers : hand[w] # Nobody /\ Stored(hand[w])}

RowGap == Cardinality(Rows) - Cardinality(Carried) - counters["worker_processed"]
RowsAccounted == RowGap \in 0 .. Lag("worker")

(* The other workers keep what they carry. *)
LEMMA OthersCarry ==
  ASSUME TypeOK, Custody, NEW w \in Workers, Work(w)
  PROVE  \A v \in Workers : v # w => (v \in Carried' <=> v \in Carried)
<1> SUFFICES ASSUME NEW v \in Workers, v # w PROVE v \in Carried' <=> v \in Carried
  OBVIOUS
<1>1. hand'[v] = hand[v]
  BY OthersKeepTheirs
<1>2. CASE table' = table
  BY <1>1, <1>2 DEF Carried, Stored
<1>3. CASE \E step : Stores(w, step)
  <2>1. workerPc[w] \in DueSteps /\ table' = [table EXCEPT ![hand[w]] = table[hand[w]] + 1]
    BY <1>3 DEF Stores, DueSteps
  <2>2. hand[w] \in Requests
    BY <2>1 DEF Custody, HandAgrees
  <2>3. hand[v] # hand[w]
    BY <2>2 DEF Custody, OnePlace
  <2>4. hand[v] # Nobody => hand[v] \in Requests
    BY DEF TypeOK
  <2>5. hand[v] # Nobody => table'[hand[v]] = table[hand[v]]
    BY <2>1, <2>3, <2>4 DEF TypeOK
  <2> QED
    BY <1>1, <2>5 DEF Carried, Stored
<1> QED
  BY <1>2, <1>3, WorkKinds DEF MovesNothing, Pops, LetsGo

(* Only the commit and the end of the loop change what a worker carries. *)
LEMMA CarriesOn ==
  ASSUME TypeOK, Custody, NEW w \in Workers, Work(w), ~CountWork(w), table' = table
  PROVE  w \in Carried' <=> w \in Carried
<1>1. CASE hand' = hand
  BY <1>1 DEF Carried, Stored
<1>2. PICK step \in WorkerSteps :
        /\ workerPc' = [workerPc EXCEPT ![w] = step] /\ UNCHANGED apiPc
        /\ MovesNothing(w, step) \/ Pops(w, step) \/ Stores(w, step) \/ LetsGo(w, step)
  BY WorkKinds
<1>3. CASE Pops(w, step)
  <2>0. PICK r : r = Head(queue)
    OBVIOUS
  <2>1. r \in Requests /\ Queued(r) /\ hand[w] = Nobody /\ hand' = [hand EXCEPT ![w] = r]
    BY <1>2, <1>3, <2>0, PopKeepsCustody DEF Pops
  <2>2. ~Stored(r)
    BY <2>1 DEF Custody, OnePlace
  <2>3. hand'[w] = r
    BY <2>1 DEF TypeOK
  <2> QED
    BY <2>1, <2>2, <2>3 DEF Carried, Stored
<1>4. ~LetsGo(w, step)
  BY DEF LetsGo, Work, CheckCrash, Register, Dequeue, MeasureWait, Lock, Commit, EmitWorker,
         ExcuseWorker, Excuses, Excuse, Emissions
<1> QED
  BY <1>1, <1>2, <1>3, <1>4 DEF MovesNothing, Stores

LEMMA WorkAccounts ==
  ASSUME TypeOK, Custody, RowsAccounted, NEW w \in Workers, Work(w)
  PROVE  RowsAccounted'
<1> DEFINE processed == counters["worker_processed"]
           rows == Cardinality(Rows)
           carried == Cardinality(Carried)
<1>0. [Next]_vars
  BY DEF Next
<1>1. /\ rows \in Nat /\ carried \in Nat /\ processed \in Nat
      /\ Lag("worker") \in Nat /\ Lag("worker")' \in Nat /\ Lag("worker") <= Lag("worker")'
      /\ Breaks /\ "worker" \in swallowed' => Lag("worker") + 1 <= Lag("worker")'
  BY <1>0, ActorsAreFinite, LagGrows DEF TypeOK, CounterNames, Rows, Carried
<1>2. carried' = carried + Indicator(w \in Carried') - Indicator(w \in Carried)
  <2>1. \A v : v # w => (v \in Carried' <=> v \in Carried)
    BY OthersCarry DEF Carried
  <2>2. IsFiniteSet(Carried) /\ IsFiniteSet(Carried')
    BY ActorsAreFinite DEF Carried
  <2> QED
    BY <2>1, <2>2, OneDiffers
<1>3. table' = table => rows' = rows
  BY DEF Rows, Stored
<1>4. /\ RowGap = rows - carried - processed
      /\ RowGap' = rows' - carried' - processed'
  BY DEF RowGap
<1>5. RowGap \in 0 .. Lag("worker")
  BY DEF RowsAccounted
<1>6. SUFFICES RowGap' \in 0 .. Lag("worker")'
  BY DEF RowsAccounted
<1>7. CASE table' = table /\ ~CountWork(w)
  <2>1. w \in Carried' <=> w \in Carried
    BY <1>7, CarriesOn
  <2>2. processed' = processed
    BY <1>7, BeforeTheCommit, CommitStores, EmissionReports, ExcuseOnTheWay, ExcuseCounts
       DEF Work, Before
  <2> HIDE DEF processed, rows, carried
  <2> QED
    BY <1>1, <1>2, <1>3, <1>4, <1>5, <1>7, <2>1, <2>2 DEF Indicator
<1>8. CASE Commit(w)
  <2>1. /\ counters' = counters /\ hand' = hand
        /\ hand[w] \in Requests /\ ~Stored(hand[w])
        /\ table' = [table EXCEPT ![hand[w]] = @ + 1] \/ table' = table
    BY <1>8, CommitStores
  <2>2. CASE table' = [table EXCEPT ![hand[w]] = @ + 1]
    <3>1. Rows' = Rows \cup {hand[w]} /\ hand[w] \notin Rows
      BY <2>1, <2>2 DEF Rows, Stored, TypeOK
    <3>2. IsFiniteSet(Rows)
      BY ActorsAreFinite DEF Rows
    <3>3. rows' = rows + 1
      BY <3>1, <3>2, FS_AddElement
    <3>4. w \notin Carried /\ w \in Carried'
      BY <2>1, <2>2, MatrixNames DEF Carried, Stored, TypeOK
    <3>5. processed' = processed
      BY <2>1
    <3> HIDE DEF processed, rows, carried
    <3> QED
      BY <1>1, <1>2, <1>4, <1>5, <3>3, <3>4, <3>5 DEF Indicator
  <2>3. CASE table' = table
    <3>1. ~CountWork(w)
      BY <1>8 DEF Commit, CountWork
    <3> QED
      BY <1>7, <2>3, <3>1
  <2> QED
    BY <2>1, <2>2, <2>3
<1>9. CASE CountWork(w)
  <2>1. /\ table' = table /\ workerPc[w] = "count" /\ hand' = [hand EXCEPT ![w] = Nobody]
        /\ \/ Tally({"worker_processed"})
           \/ counters' = counters /\ Breaks /\ "worker" \in swallowed'
    BY <1>9 DEF CountWork, MayApply, database
  <2>2. w \in Carried /\ w \notin Carried'
    BY <2>1, MatrixNames DEF Carried, Custody, HandAgrees, DoneSteps, TypeOK
  <2>3. Tally({"worker_processed"}) => processed' = processed + 1
    BY CounterTypes, TallyCounts DEF Indicator
  <2>4. counters' = counters => processed' = processed
    OBVIOUS
  <2> HIDE DEF processed, rows, carried
  <2> QED
    BY <1>1, <1>2, <1>3, <1>4, <1>5, <2>1, <2>2, <2>3, <2>4 DEF Indicator
<1>10. table' = table \/ Commit(w)
  BY BeforeTheCommit, EmissionReports, ExcuseOnTheWay, CountingEnds DEF Work, Before
<1> QED
  BY <1>7, <1>8, <1>9, <1>10

(* The counters of the API trail the handlers past their pipeline. *)
RequestGap == Cardinality(Counted) - counters["api_requests"]
ErrorGap == Cardinality(Refused) - counters["api_errors"]
CountsTrail == RequestGap \in 0 .. Lag("api") /\ ErrorGap \in 0 .. Lag("api")

(* Nothing is in the log of acceptances before its report. *)
NoneReported == \A r \in Requests :
                  apiPc[r] \in {"idle", "gate", "push", "emit"} => r \notin logs.accepted

(* What the logs owe the counters of the API: requests counted without an    *)
(* error, or about to be, less the acceptances reported.  The counted        *)
(* failures of reports are shared with the workers, hence the sum.           *)
Telling == {r \in Requests : apiPc[r] = "count" /\ status[r] = 202}
ApiDebt ==
  counters["api_requests"] - counters["api_errors"] + Cardinality(Telling)
    - Cardinality(logs.accepted)
ReportLadder == "emit" \notin swallowed => ApiDebt + Debt <= 0

(* The pipeline of a handler counts its request, or is ignored. *)
LEMMA CountingTallies ==
  ASSUME TypeOK, NEW r \in Requests, Count(r)
  PROVE  /\ apiPc[r] = "count" /\ apiPc' = [apiPc EXCEPT ![r] = "reply"]
         /\ UNCHANGED <<status, logs>>
         /\ counters'["application_log_emit_errors"] = counters["application_log_emit_errors"]
         /\ \/ /\ counters'["api_requests"] = counters["api_requests"] + 1
               /\ counters'["api_errors"] = counters["api_errors"] + Indicator(status[r] # 202)
            \/ /\ counters' = counters
               /\ Breaks /\ "api" \in swallowed'
<1>1. /\ apiPc[r] = "count" /\ apiPc' = [apiPc EXCEPT ![r] = "reply"]
      /\ UNCHANGED <<status, logs>>
      /\ \/ Tally({"api_requests"} \cup IF status[r] # 202 THEN {"api_errors"} ELSE {})
         \/ counters' = counters /\ Breaks /\ "api" \in swallowed'
  BY DEF Count, MayApply, ApiGoto
<1>2. ASSUME Tally({"api_requests"} \cup IF status[r] # 202 THEN {"api_errors"} ELSE {})
      PROVE  /\ counters'["api_requests"] = counters["api_requests"] + 1
             /\ counters'["api_errors"] = counters["api_errors"] + Indicator(status[r] # 202)
             /\ counters'["application_log_emit_errors"]
                  = counters["application_log_emit_errors"]
  BY <1>2, CounterTypes, TallyCounts DEF Indicator
<1> QED
  BY <1>1, <1>2

LEMMA HandlerKeepsTrail ==
  ASSUME TypeOK, CountsTrail, NEW r \in Requests, Send(r) \/ Handler(r)
  PROVE  CountsTrail'
<1> DEFINE requests == counters["api_requests"]
           errors == counters["api_errors"]
           tallied == Cardinality(Counted)
           refused == Cardinality(Refused)
<1>0. /\ apiPc \in [Requests -> ApiSteps] /\ status \in [Requests -> Statuses]
      /\ \A s \in Requests : s # r => apiPc'[s] = apiPc[s] /\ status'[s] = status[s]
  BY StatusType, HandlerKinds DEF TypeOK
<1>1. /\ tallied \in Nat /\ refused \in Nat /\ requests \in Nat /\ errors \in Nat
      /\ Lag("api") \in Nat /\ Lag("api")' \in Nat /\ Lag("api") <= Lag("api")'
      /\ Breaks /\ "api" \in swallowed' => Lag("api") + 1 <= Lag("api")'
  <2>1. [Next]_vars
    BY DEF Next
  <2> QED
    BY <2>1, ActorsAreFinite, LagGrows, CounterTypes DEF Counted, Refused
<1>2. /\ RequestGap = tallied - requests /\ ErrorGap = refused - errors
      /\ RequestGap' = tallied' - requests' /\ ErrorGap' = refused' - errors'
  BY DEF RequestGap, ErrorGap
<1>3. RequestGap \in 0 .. Lag("api") /\ ErrorGap \in 0 .. Lag("api")
  BY DEF CountsTrail
<1>4. SUFFICES RequestGap' \in 0 .. Lag("api")' /\ ErrorGap' \in 0 .. Lag("api")'
  BY DEF CountsTrail
<1>5. CASE Count(r)
  <2>1. r \notin Counted /\ r \in Counted' /\ r \notin Refused /\ status' = status
    BY <1>0, <1>5, CountingTallies DEF Counted, Refused
  <2>2. r \in Refused' <=> status[r] # 202
    BY <2>1 DEF Refused
  <2>3. \A y : y # r => (y \in Counted' <=> y \in Counted) /\ (y \in Refused' <=> y \in Refused)
    BY <1>0, <2>1 DEF Counted, Refused
  <2>4. /\ IsFiniteSet(Counted) /\ IsFiniteSet(Counted')
        /\ IsFiniteSet(Refused) /\ IsFiniteSet(Refused')
    BY ActorsAreFinite DEF Counted, Refused
  <2>5. tallied' = tallied + 1
    BY <2>1, <2>3, <2>4, OneDiffers DEF Indicator
  <2>6. refused' = refused + Indicator(status[r] # 202)
    BY <2>1, <2>2, <2>3, <2>4, OneDiffers DEF Indicator
  <2>7. \/ requests' = requests + 1 /\ errors' = errors + Indicator(status[r] # 202)
        \/ requests' = requests /\ errors' = errors /\ Breaks /\ "api" \in swallowed'
    BY <1>5, CountingTallies
  <2> HIDE DEF requests, errors, tallied, refused
  <2> QED
    BY <1>1, <1>2, <1>3, <2>5, <2>6, <2>7 DEF Indicator
<1>6. CASE ~Count(r)
  <2>1. Counted' = Counted /\ Refused' = Refused
    <3>1. r \in Counted' <=> r \in Counted
      BY <1>0, <1>6 DEF Handler, Send, Gate, Push, Emit, ExcuseEmit, Reply, ApiGoto, Counted
    <3>2. r \in Counted => status' = status
      BY <1>6 DEF Handler, Send, Gate, Push, Emit, ExcuseEmit, Reply, Counted
    <3> QED
      BY <1>0, <3>1, <3>2 DEF Counted, Refused
  <2>2. requests' = requests /\ errors' = errors
    <3>1. CASE ExcuseEmit(r)
      BY <3>1, ExcuseLeavesApi DEF ExcuseEmit
    <3>2. CASE ~ExcuseEmit(r)
      BY <1>6, <3>2 DEF Handler, Send, Gate, Push, Emit, Reply, reports
    <3> QED
      BY <3>1, <3>2
  <2>3. tallied' = tallied /\ refused' = refused
    BY <2>1
  <2> HIDE DEF requests, errors, tallied, refused
  <2> QED
    BY <1>1, <1>2, <1>3, <2>2, <2>3
<1> QED
  BY <1>5, <1>6

(* The steps of workers leave the requests and their counters alone. *)
LEMMA WorkLeavesApi ==
  ASSUME TypeOK, NEW w \in Workers, Work(w)
  PROVE  /\ UNCHANGED <<apiPc, status>> /\ logs'.accepted = logs.accepted
         /\ counters'["api_requests"] = counters["api_requests"]
         /\ counters'["api_errors"] = counters["api_errors"]
<1>1. UNCHANGED <<apiPc, status>> /\ logs'.accepted = logs.accepted
  BY WorkKinds, WorkerLogs
<1>2. CASE Before(w) \/ Commit(w) \/ EmitWorker(w)
  BY <1>1, <1>2, BeforeTheCommit, CommitStores, EmissionReports DEF Commit, EmitWorker, reports
<1>3. CASE ExcuseWorker(w)
  BY <1>1, <1>3, ExcuseLeavesApi DEF ExcuseWorker
<1>4. CASE CountWork(w)
  <2>1. counters' = counters \/ Tally({"worker_processed"})
    BY <1>4 DEF CountWork, MayApply
  <2> QED
    BY <1>1, <2>1, CounterTypes, TallyCounts DEF Indicator
<1> QED
  BY <1>2, <1>3, <1>4 DEF Work, Before

(* The sums are made of natural numbers. *)
LEMMA DebtTypes ==
  ASSUME TypeOK
  PROVE  /\ Cardinality(Telling) \in Nat /\ IsFiniteSet(Telling)
         /\ Cardinality(logs.accepted) \in Nat /\ IsFiniteSet(logs.accepted)
         /\ ApiDebt \in Int /\ Debt \in Int
<1>1. Cardinality(Telling) \in Nat /\ IsFiniteSet(Telling)
  BY ActorsAreFinite DEF Telling
<1>2. Cardinality(Counting) \in Nat
  BY ActorsAreFinite DEF Counting
<1>3. logs.accepted \in SUBSET Requests /\ logs.completed \in SUBSET Requests
  BY DEF TypeOK
<1>4. Cardinality(logs.accepted) \in Nat /\ IsFiniteSet(logs.accepted)
  BY <1>3, ActorsAreFinite
<1>5. Cardinality(logs.completed) \in Nat
  BY <1>3, ActorsAreFinite
<1>6. /\ counters["api_requests"] \in Nat /\ counters["api_errors"] \in Nat
      /\ counters["worker_processed"] \in Nat
      /\ counters["application_log_emit_errors"] \in Nat
  BY CounterTypes
<1> HIDE DEF Telling, Counting
<1> QED
  BY <1>1, <1>2, <1>4, <1>5, <1>6 DEF ApiDebt, Debt

LEMMA WorkKeepsReports ==
  ASSUME TypeOK, Custody, LogsAgree, CountsTrail, NoneReported, ReportLadder,
         NEW w \in Workers, Work(w)
  PROVE  CountsTrail' /\ NoneReported' /\ ReportLadder'
<1>1. [Next]_vars
  BY DEF Next
<1>2. Counted' = Counted /\ Refused' = Refused /\ Telling' = Telling
  BY WorkLeavesApi DEF Counted, Refused, Telling
<1>3. RequestGap' = RequestGap /\ ErrorGap' = ErrorGap /\ ApiDebt' = ApiDebt
  BY <1>2, WorkLeavesApi DEF RequestGap, ErrorGap, ApiDebt
<1>4. CountsTrail'
  <2>1. Lag("api") \in Nat /\ Lag("api")' \in Nat /\ Lag("api") <= Lag("api")'
    BY <1>1, LagGrows
  <2> QED
    BY <1>3, <2>1 DEF CountsTrail
<1>5. NoneReported'
  BY WorkLeavesApi DEF NoneReported
<1>6. ReportLadder'
  <2>1. ApiDebt \in Int
    BY DebtTypes
  <2> QED
    BY <1>3, <2>1, DebtDoesNotGrow DEF ReportLadder
<1> QED
  BY <1>4, <1>5, <1>6

LEMMA HandlerKeepsNoneReported ==
  ASSUME TypeOK, NoneReported, NEW r \in Requests, Send(r) \/ Handler(r)
  PROVE  NoneReported'
<1> SUFFICES ASSUME NEW s \in Requests, apiPc'[s] \in {"idle", "gate", "push", "emit"}
             PROVE  s \notin logs'.accepted
  BY DEF NoneReported
<1>1. apiPc \in [Requests -> ApiSteps] /\ logs \in LogRecords
  BY LogsType DEF TypeOK
<1>2. CASE Emit(r)
  <2>1. apiPc'[r] \in {"count", "excuse"} /\ \A q \in Requests : q # r => apiPc'[q] = apiPc[q]
    BY <1>1, <1>2 DEF Emit, ApiGoto
  <2>2. logs' = logs \/ Logged("accepted", IF status[r] = 202 THEN {r} ELSE {}, seen[r])
    BY <1>2 DEF Emit, MayApply
  <2>3. logs'.accepted \subseteq logs.accepted \cup {r}
    BY <1>1, <2>2, LoggedAccepts
  <2> QED
    BY <2>1, <2>3 DEF NoneReported
<1>3. CASE ~Emit(r)
  <2>1. logs' = logs
    BY <1>3 DEF Send, Handler, Gate, Push, ExcuseEmit, CountEmitError, Count, Reply, reports
  <2>2. apiPc[s] \in {"idle", "gate", "push", "emit"}
    BY <1>1, <1>3 DEF Send, Handler, Gate, Push, ExcuseEmit, Count, Reply, ApiGoto
  <2> QED
    BY <2>1, <2>2 DEF NoneReported
<1> QED
  BY <1>2, <1>3

(* A handler that reports an acceptance owes nothing, one whose report failed *)
(* owes what it then counts, and one that counts pays what it owed.          *)
LEMMA HandlerKeepsReports ==
  ASSUME TypeOK, NoneReported, ReportLadder, NEW r \in Requests, Send(r) \/ Handler(r)
  PROVE  ReportLadder'
<1> DEFINE requests == counters["api_requests"]
           errors == counters["api_errors"]
           excused == counters["application_log_emit_errors"]
           telling == Cardinality(Telling)
           accepted == Cardinality(logs.accepted)
<1>0. /\ apiPc \in [Requests -> ApiSteps] /\ status \in [Requests -> Statuses]
      /\ logs \in LogRecords /\ logs.accepted \in SUBSET Requests
      /\ \A s \in Requests : s # r => apiPc'[s] = apiPc[s] /\ status'[s] = status[s]
  BY StatusType, HandlerKinds, LogsType DEF TypeOK
<1>1. /\ telling \in Nat /\ accepted \in Nat /\ Debt \in Int
      /\ requests \in Nat /\ errors \in Nat /\ excused \in Nat
  BY DebtTypes, CounterTypes
<1>2. telling' = telling + Indicator(r \in Telling') - Indicator(r \in Telling)
  <2>1. \A s : s # r => (s \in Telling' <=> s \in Telling)
    BY <1>0 DEF Telling
  <2>2. IsFiniteSet(Telling) /\ IsFiniteSet(Telling')
    BY ActorsAreFinite DEF Telling
  <2> HIDE DEF Telling
  <2> QED
    BY <2>1, <2>2, OneDiffers
<1>3. /\ ApiDebt = requests - errors + telling - accepted
      /\ ApiDebt' = requests' - errors' + telling' - accepted'
  BY DEF ApiDebt
<1>4. /\ excused' \in Nat /\ swallowed \subseteq swallowed'
      /\ Debt' = Debt + excused - excused'
  <2>1. Counting' = Counting
    BY HandlerKinds DEF Counting
  <2>2. /\ counters'["worker_processed"] = counters["worker_processed"]
        /\ logs'.completed = logs.completed
        /\ excused' \in Nat /\ swallowed \subseteq swallowed'
    BY HandlerCounts
  <2>3. /\ Cardinality(Counting) \in Nat /\ Cardinality(logs.completed) \in Nat
        /\ counters["worker_processed"] \in Nat
    BY ActorsAreFinite, CounterTypes DEF Counting, TypeOK
  <2> HIDE DEF Counting
  <2> QED
    BY <1>1, <2>1, <2>2, <2>3 DEF Debt
<1>5. CASE Send(r) \/ Gate(r) \/ Push(r) \/ Reply(r)
  <2>1. UNCHANGED <<counters, swallowed, logs>> /\ r \notin Telling /\ r \notin Telling'
    BY <1>0, <1>5 DEF Send, Gate, Push, Reply, ApiGoto, reports, Telling
  <2>2. /\ requests' = requests /\ errors' = errors /\ excused' = excused
        /\ accepted' = accepted
    BY <2>1
  <2> HIDE DEF requests, errors, excused, telling, accepted
  <2> QED
    BY <1>1, <1>2, <1>3, <1>4, <2>1, <2>2 DEF ReportLadder, Indicator
<1>6. CASE Emit(r)
  <2>1. UNCHANGED <<counters, swallowed, status>> /\ r \notin Telling /\ r \notin logs.accepted
    BY <1>0, <1>6 DEF Emit, Telling, NoneReported
  <2>2. /\ logs'.accepted \in {logs.accepted, logs.accepted \cup {r}}
        /\ r \in Telling' => logs'.accepted = logs.accepted \cup {r}
    <3> DEFINE log == Logged("accepted", IF status[r] = 202 THEN {r} ELSE {}, seen[r])
    <3>1. log \/ (logs' = logs /\ apiPc'[r] = "excuse")
      BY <1>0, <1>6 DEF Emit, MayApply, ApiGoto
    <3>2. log => logs'.accepted = logs.accepted \cup (IF status[r] = 202 THEN {r} ELSE {})
      BY <1>0, LoggedAccepts
    <3> HIDE DEF log
    <3> QED
      BY <2>1, <3>1, <3>2 DEF Telling
  <2>3. Cardinality(logs.accepted \cup {r}) = accepted + 1
    BY <1>0, <2>1, ActorsAreFinite, FS_AddElement
  <2>4. /\ requests' = requests /\ errors' = errors /\ excused' = excused
        /\ accepted' \in {accepted, accepted + 1}
        /\ r \in Telling' => accepted' = accepted + 1
    BY <2>1, <2>2, <2>3
  <2> HIDE DEF requests, errors, excused, telling, accepted
  <2> QED
    BY <1>1, <1>2, <1>3, <1>4, <2>1, <2>4 DEF ReportLadder, Indicator
<1>7. CASE ExcuseEmit(r)
  <2>1. CountEmitError /\ r \notin Telling
    BY <1>7 DEF ExcuseEmit, Telling
  <2>2. /\ requests' = requests /\ errors' = errors /\ accepted' = accepted
        /\ \/ "emit" \in swallowed'
           \/ "emit" \notin swallowed /\ excused' = excused + 1
    BY <2>1, ExcuseLeavesApi, ExcuseCounts
  <2>3. telling' = telling \/ telling' = telling + 1
    BY <1>1, <1>2, <2>1 DEF Indicator
  <2> HIDE DEF requests, errors, excused, telling, accepted
  <2>5. CASE "emit" \notin swallowed /\ excused' = excused + 1
    <3>1. Debt' = Debt - 1
      BY <1>1, <1>4, <2>5
    <3>2. ApiDebt \in Int /\ (ApiDebt' = ApiDebt \/ ApiDebt' = ApiDebt + 1)
      BY <1>1, <1>3, <2>2, <2>3
    <3> QED
      BY <1>1, <2>5, <3>1, <3>2 DEF ReportLadder
  <2>6. CASE "emit" \in swallowed'
    BY <2>6 DEF ReportLadder
  <2> QED
    BY <2>2, <2>5, <2>6
<1>8. CASE Count(r)
  <2>1. r \notin Telling' /\ (r \in Telling <=> status[r] = 202)
    BY <1>0, <1>8, CountingTallies DEF Telling
  <2>2. /\ accepted' = accepted /\ excused' = excused
        /\ \/ requests' = requests + 1 /\ errors' = errors + Indicator(status[r] # 202)
           \/ requests' = requests /\ errors' = errors
    BY <1>8, CountingTallies
  <2> HIDE DEF requests, errors, excused, telling, accepted
  <2> QED
    BY <1>1, <1>2, <1>3, <1>4, <2>1, <2>2 DEF ReportLadder, Indicator
<1> QED
  BY <1>5, <1>6, <1>7, <1>8 DEF Handler

(* A handler leaves the rows, the workers and their counter alone. *)
LEMMA HandlerKeepsRowGap ==
  ASSUME TypeOK, RowsAccounted, NEW r \in Requests, Send(r) \/ Handler(r)
  PROVE  RowsAccounted'
<1>1. [Next]_vars
  BY DEF Next
<1>2. /\ UNCHANGED <<hand, table>>
      /\ counters'["worker_processed"] = counters["worker_processed"]
  BY HandlerKinds, HandlerCounts
<1>3. Rows' = Rows /\ Carried' = Carried
  BY <1>2 DEF Rows, Carried, Stored
<1>4. RowGap' = RowGap
  BY <1>2, <1>3 DEF RowGap
<1>5. Lag("worker") \in Nat /\ Lag("worker")' \in Nat /\ Lag("worker") <= Lag("worker")'
  BY <1>1, LagGrows
<1> QED
  BY <1>4, <1>5 DEF RowsAccounted

(* In the beginning all counters, rows and logs are empty.                   *)
LEMMA TrailStarts ==
  ASSUME Init
  PROVE  RowsAccounted /\ CountsTrail /\ NoneReported /\ ReportLadder
<1>1. /\ \A c \in CounterNames : counters[c] = 0
      /\ logs.accepted = {} /\ logs.completed = {} /\ swallowed = {}
  BY DEF Init, NoCounts, NoLogs
<1>2. /\ Rows = {} /\ Carried = {} /\ Counted = {} /\ Refused = {} /\ Telling = {}
      /\ Counting = {}
  BY DEF Init, Rows, Carried, Counted, Refused, Telling, Counting, Stored
<1>3. Cardinality({}) = 0 /\ 0 \in 0 .. 0
  BY FS_EmptySet
<1>4. RowGap = 0 /\ RequestGap = 0 /\ ErrorGap = 0 /\ ApiDebt = 0 /\ Debt = 0
  BY <1>1, <1>2, <1>3 DEF RowGap, RequestGap, ErrorGap, ApiDebt, Debt, CounterNames
<1>5. Lag("worker") = 0 /\ Lag("api") = 0
  BY <1>1 DEF Lag
<1> QED
  BY <1>1, <1>3, <1>4, <1>5 DEF RowsAccounted, CountsTrail, NoneReported, ReportLadder

LEMMA NextKeepsTrail ==
  ASSUME TypeOK, Custody, LogsAgree, RowsAccounted, CountsTrail, NoneReported, ReportLadder,
         [Next]_vars
  PROVE  RowsAccounted' /\ CountsTrail' /\ NoneReported' /\ ReportLadder'
<1>1. CASE \E w \in Workers : Work(w)
  BY <1>1, WorkAccounts, WorkKeepsReports
<1>2. CASE \E r \in Requests : Send(r) \/ Handler(r)
  BY <1>2, HandlerKeepsRowGap, HandlerKeepsTrail, HandlerKeepsNoneReported, HandlerKeepsReports
<1>3. CASE Inject \/ Withdraw \/ UNCHANGED vars
  <2>1. UNCHANGED <<table, hand, workerPc, counters, logs, swallowed, apiPc, status, faults>>
    BY <1>3 DEF Inject, Withdraw, vars, reports, apiVars, workerVars, database
  <2>2. /\ RowGap' = RowGap /\ RequestGap' = RequestGap /\ ErrorGap' = ErrorGap
        /\ ApiDebt' = ApiDebt /\ Debt' = Debt
        /\ Lag("worker")' = Lag("worker") /\ Lag("api")' = Lag("api")
    BY <2>1 DEF RowGap, RequestGap, ErrorGap, ApiDebt, Debt, Lag, Rows, Carried, Counted,
                Refused, Telling, Counting, Stored
  <2> QED
    BY <2>1, <2>2 DEF RowsAccounted, CountsTrail, NoneReported, ReportLadder
<1> QED
  BY <1>1, <1>2, <1>3 DEF Next

(* Against the rows, the requests past their pipeline and those of them with *)
(* an error, the counters worker_processed, api_requests and api_errors       *)
(* never run ahead, and lack no more than what a worker has in hand and what *)
(* pipelines that failed have lost (service.py swallows their RedisError);    *)
(* and every request counted without an error and every item counted as      *)
(* processed has its report in the logs, or its failure counted, unless such *)
(* a count was itself lost.                                                  *)
THEOREM CountersTrailLogs == Spec => []CountersTrailTheLogs
<1>1. TypeOK /\ RowsAccounted /\ CountsTrail /\ ReportLadder => CountersTrailTheLogs
  <2> SUFFICES ASSUME TypeOK, RowsAccounted, CountsTrail, ReportLadder
               PROVE  CountersTrailTheLogs
    OBVIOUS
  <2>1. /\ Cardinality(Telling) \in Nat /\ Cardinality(Counting) \in Nat
        /\ Cardinality(logs.completed) \in Nat /\ Cardinality(logs.accepted) \in Nat
        /\ \A c \in CounterNames : counters[c] \in Nat
    BY ActorsAreFinite, CounterTypes DEF Telling, Counting, TypeOK
  <2>2. "emit" \notin swallowed =>
          counters["api_requests"] - counters["api_errors"] + counters["worker_processed"]
            <= Cardinality(logs.accepted) + Cardinality(logs.completed)
                 + counters["application_log_emit_errors"]
    BY <2>1 DEF ReportLadder, ApiDebt, Debt, CounterNames
  <2>3. /\ Cardinality(Rows) - Cardinality(Carried) - counters["worker_processed"]
             \in 0 .. Lag("worker")
        /\ Cardinality(Counted) - counters["api_requests"] \in 0 .. Lag("api")
        /\ Cardinality(Refused) - counters["api_errors"] \in 0 .. Lag("api")
    BY DEF RowsAccounted, RowGap, CountsTrail, RequestGap, ErrorGap
  <2> QED
    BY <2>2, <2>3 DEF CountersTrailTheLogs, Rows, Carried, Counted, Refused
<1>2. Init => RowsAccounted /\ CountsTrail /\ NoneReported /\ ReportLadder
  BY TrailStarts
<1>3. /\ TypeOK /\ Custody /\ LogsAgree
      /\ RowsAccounted /\ CountsTrail /\ NoneReported /\ ReportLadder /\ [Next]_vars
      => RowsAccounted' /\ CountsTrail' /\ NoneReported' /\ ReportLadder'
  BY NextKeepsTrail
<1> QED
  BY <1>1, <1>2, <1>3, CustodyHolds, LaddersHold, PTL DEF Spec

=============================================================================
