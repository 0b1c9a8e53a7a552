------------------------- MODULE CheckoutPipelineProofs -------------------------
(***************************************************************************)
(* Theorems about CheckoutPipeline, for any number of requests and workers *)
(* and any number of failed calls and interventions: types, the custody of *)
(* items, the refinement of CheckoutPromise, and the numbers a sampler     *)
(* reads; and about TraceAudit, for any number of requests, workers and    *)
(* failed calls: what the traces of the same application tell.             *)
(***************************************************************************)
EXTENDS CheckoutPipeline, FiniteSetTheorems, TLAPS

-----------------------------------------------------------------------------
(* The helpers keep the types of what they change. *)

(* Counting an operation keeps the counters natural numbers. *)
LEMMA TallyType ==
  ASSUME counters \in [CounterNames -> Nat], NEW names, Tally(names)
  PROVE  counters' \in [CounterNames -> Nat]
BY DEF Tally

(* INFLIGHT_SCRIPT keeps the gauge and its peak natural numbers, because it *)
(* clamps the gauge at zero.                                                *)
LEMMA AddInflightType ==
  ASSUME inflight \in Nat, peak \in Nat, NEW delta \in Int, AddInflight(delta)
  PROVE  inflight' \in Nat /\ peak' \in Nat
BY DEF AddInflight

(* The budget of failed calls is never exceeded. *)
LEMMA FaultType ==
  ASSUME faults \in 0 .. MaxFaults, Works \/ Breaks \/ BreaksTwice
  PROVE  faults' \in 0 .. MaxFaults
BY BoundsAssumption DEF Works, Breaks, BreaksTwice

(* A handler thread only moves to steps of do_POST. *)
LEMMA ApiType ==
  ASSUME TypeOK, NEW r \in Requests, NEW step \in ApiSteps, ApiGoto(r, step)
  PROVE  apiPc' \in [Requests -> ApiSteps]
BY DEF TypeOK, ApiGoto

(* A worker only moves to steps of run_worker. *)
LEMMA WorkerType ==
  ASSUME TypeOK, NEW w \in Workers, NEW step \in WorkerSteps, WorkerGoto(w, step)
  PROVE  workerPc' \in [Workers -> WorkerSteps]
BY DEF TypeOK, WorkerGoto

(* LPOP moves a request from the list into a hand, and counts a paused take. *)
LEMMA TakeType ==
  ASSUME TypeOK, NEW w \in Workers, Take(w)
  PROVE  /\ hand' \in [Workers -> Requests \cup {Nobody}]
         /\ queue' \in Seq(Requests)
         /\ pausedTakes' \in [Workers -> Nat]
BY DEF TypeOK, Take

(* The HTTP statuses that do_POST assigns are statuses. *)
LEMMA StatusValues == 202 \in Statuses /\ 500 \in Statuses /\ 503 \in Statuses
BY DEF Statuses

(* A step of a handler keeps the types. *)
LEMMA HandlerType ==
  ASSUME TypeOK, NEW r \in Requests, Send(r) \/ Handler(r)
  PROVE  TypeOK'
<1> USE DEF redisVars, controlVars, apiVars, workerVars, MayApply
<1>0. status \in [Requests -> Statuses] /\ queue \in Seq(Requests)
  BY DEF TypeOK
<1>1. CASE Send(r)
  BY <1>1, ApiType DEF Send, TypeOK, ApiSteps
<1>2. CASE Enter(r)
  BY <1>2, ApiType, FaultType, AddInflightType DEF Enter, TypeOK, ApiSteps
<1>3. CASE Gate(r)
  <2>1. apiPc' \in [Requests -> ApiSteps]
    BY <1>3, ApiType DEF Gate, ApiSteps
  <2>2. status' \in [Requests -> Statuses]
    BY <1>3, <1>0, StatusValues DEF Gate, Fails
  <2> QED
    BY <1>3, <2>1, <2>2, FaultType DEF Gate, TypeOK
<1>4. CASE Push(r)
  <2>1. apiPc' \in [Requests -> ApiSteps]
    BY <1>4, ApiType DEF Push, ApiSteps
  <2>2. status' \in [Requests -> Statuses]
    BY <1>4, <1>0, StatusValues DEF Push, Fails
  <2>3. queue' \in Seq(Requests)
    BY <1>0, <1>4 DEF Push
  <2> QED
    BY <1>4, <2>1, <2>2, <2>3, FaultType DEF Push, TypeOK
<1>5. CASE Stamp(r)
  <2>1. apiPc' \in [Requests -> ApiSteps]
    BY <1>5, ApiType DEF Stamp, ApiSteps
  <2>2. status' \in [Requests -> Statuses]
    BY <1>5, <1>0, StatusValues DEF Stamp, Fails
  <2> QED
    BY <1>5, <2>1, <2>2, FaultType DEF Stamp, TypeOK
<1>6. CASE TallyEnqueue(r)
  <2>1. apiPc' \in [Requests -> ApiSteps]
    BY <1>6, ApiType DEF TallyEnqueue, ApiSteps
  <2>2. status' \in [Requests -> Statuses]
    BY <1>6, <1>0, StatusValues DEF TallyEnqueue, Fails
  <2> QED
    BY <1>6, <2>1, <2>2, FaultType, TallyType DEF TallyEnqueue, TypeOK
<1>7. CASE Leave(r)
  BY <1>7, ApiType, FaultType, AddInflightType DEF Leave, TypeOK, ApiSteps
<1>8. CASE Record(r)
  BY <1>8, ApiType, FaultType, TallyType DEF Record, TypeOK, ApiSteps
<1>9. CASE Emit(r)
  BY <1>9, ApiType, FaultType, TallyType DEF Emit, TypeOK, ApiSteps
<1>10. CASE Reply(r)
  BY <1>10, ApiType, FaultType DEF Reply, TypeOK, ApiSteps
<1> QED
  BY <1>1, <1>2, <1>3, <1>4, <1>5, <1>6, <1>7, <1>8, <1>9, <1>10 DEF Handler

(* A step of a worker keeps the types. *)
LEMMA WorkType ==
  ASSUME TypeOK, NEW w \in Workers, Work(w)
  PROVE  TypeOK'
<1> USE DEF redisVars, controlVars, apiVars, workerVars, MayApply, Dies
<1>1. CASE Register(w)
  BY <1>1, WorkerType, FaultType DEF Register, TypeOK, WorkerSteps
<1>2. CASE Check(w)
  BY <1>2, WorkerType, FaultType DEF Check, TypeOK, WorkerSteps
<1>3. CASE Pop(w)
  BY <1>3, WorkerType, FaultType, TakeType DEF Pop, TypeOK, WorkerSteps
<1>4. CASE Fetch(w)
  BY <1>4, WorkerType, FaultType DEF Fetch, TypeOK, WorkerSteps
<1>5. CASE TallyDequeue(w)
  BY <1>5, WorkerType, FaultType, TallyType DEF TallyDequeue, TypeOK, WorkerSteps
<1>6. CASE Claim(w)
  BY <1>6, WorkerType, FaultType, TallyType DEF Claim, TypeOK, WorkerSteps
<1>7. CASE Mark(w)
  BY <1>7, WorkerType, FaultType DEF Mark, TypeOK, WorkerSteps
<1>8. CASE Lock(w)
  BY <1>8, WorkerType, FaultType DEF Lock, TransactionRaises, TypeOK, WorkerSteps
<1>9. CASE Insert(w)
  BY <1>9, WorkerType, FaultType DEF Insert, TransactionRaises, TypeOK, WorkerSteps
<1>10. CASE Unmark(w)
  BY <1>10, WorkerType, FaultType DEF Unmark, TypeOK, WorkerSteps
<1>11. CASE RecordWrite(w)
  <2>1. workerPc' \in [Workers -> WorkerSteps]
    BY <1>11, WorkerType DEF RecordWrite, WorkerSteps
  <2> QED
    BY <1>11, <2>1, FaultType, TallyType DEF RecordWrite, TypeOK
<1>12. CASE Release(w)
  <2>1. workerPc' \in [Workers -> WorkerSteps]
    BY <1>12, WorkerType DEF Release, WorkerSteps
  <2>2. busy' \in SUBSET Workers /\ hand' \in [Workers -> Requests \cup {Nobody}]
    <3>1. busy' = busy \/ busy' = busy \ {w}
      BY <1>12 DEF Release
    <3>2. hand' = hand \/ hand' = [hand EXCEPT ![w] = Nobody]
      BY <1>12 DEF Release
    <3> QED
      BY <3>1, <3>2 DEF TypeOK
  <2> QED
    BY <1>12, <2>1, <2>2, FaultType, TallyType DEF Release, TypeOK
<1>13. CASE EmitCompletion(w)
  BY <1>13, WorkerType, FaultType, TallyType DEF EmitCompletion, TypeOK, WorkerSteps
<1> QED
  BY <1>1, <1>2, <1>3, <1>4, <1>5, <1>6, <1>7, <1>8, <1>9, <1>10, <1>11, <1>12, <1>13
     DEF Work

(* A step of the controller keeps the types. *)
LEMMA EnvironmentType ==
  ASSUME TypeOK, Environment
  PROVE  TypeOK'
<1> USE DEF redisVars, controlVars, apiVars, workerVars, TypeOK
<1>1. ASSUME Intervene PROVE interventions' \in 0 .. MaxInterventions
  BY <1>1, BoundsAssumption DEF Intervene
<1>2. CASE StartPause
  BY <1>1, <1>2 DEF StartPause
<1>3. CASE StartRejection
  BY <1>1, <1>3 DEF StartRejection
<1>4. CASE StartLock
  BY <1>1, <1>4 DEF StartLock
<1>5. CASE StopPause
  BY <1>5 DEF StopPause
<1>6. CASE StopRejection
  BY <1>6 DEF StopRejection
<1>7. CASE StopLock
  BY <1>7 DEF StopLock
<1> QED
  BY <1>2, <1>3, <1>4, <1>5, <1>6, <1>7 DEF Environment

(* Every reachable state is well typed: no counter goes negative, no step  *)
(* leads nowhere, the budgets are kept.                                    *)
THEOREM TypeCorrect == Spec => []TypeOK
<1>1. Init => TypeOK
  BY BoundsAssumption, NamesAssumption, StatusValues
     DEF Init, TypeOK, ApiSteps, WorkerSteps, CounterNames
<1>2. TypeOK /\ [Next]_vars => TypeOK'
  <2> SUFFICES ASSUME TypeOK, [Next]_vars PROVE TypeOK'
    OBVIOUS
  <2>1. CASE Next
    BY <2>1, HandlerType, WorkType, EnvironmentType DEF Next
  <2>2. CASE UNCHANGED vars
    BY <2>2 DEF vars, redisVars, controlVars, apiVars, workerVars, TypeOK
  <2> QED
    BY <2>1, <2>2
<1> QED
  BY <1>1, <1>2, PTL DEF Spec

-----------------------------------------------------------------------------
(* Sequences without repetitions. *)

Distinct(s) == \A i, j \in 1 .. Len(s) : s[i] = s[j] => i = j
Occurs(e, s) == \E i \in 1 .. Len(s) : s[i] = e

(* Appending a new element keeps a sequence free of repetitions. *)
LEMMA AppendDistinct ==
  ASSUME NEW S, NEW s \in Seq(S), NEW e \in S, Distinct(s), ~Occurs(e, s)
  PROVE  /\ Distinct(Append(s, e))
         /\ \A x : Occurs(x, Append(s, e)) <=> Occurs(x, s) \/ x = e
<1>1. /\ Append(s, e) \in Seq(S) /\ Len(Append(s, e)) = Len(s) + 1 /\ Len(s) \in Nat
      /\ \A i \in 1 .. Len(s) : Append(s, e)[i] = s[i]
      /\ Append(s, e)[Len(s) + 1] = e
  OBVIOUS
<1>. HIDE DEF Occurs
<1>. DEFINE t == Append(s, e)
<1>. HIDE DEF t
<1>2. Distinct(t)
  BY <1>1 DEF Distinct, Occurs, t
<1>3. \A x : Occurs(x, t) <=> Occurs(x, s) \/ x = e
  BY <1>1 DEF Occurs, t
<1> QED BY <1>2, <1>3 DEF t

(* The tail of such a sequence has lost its head for good. *)
LEMMA TailDistinct ==
  ASSUME NEW S, NEW s \in Seq(S), s # <<>>, Distinct(s)
  PROVE  /\ Tail(s) \in Seq(S) /\ Head(s) \in S /\ Occurs(Head(s), s)
         /\ Distinct(Tail(s))
         /\ \A x : Occurs(x, Tail(s)) <=> Occurs(x, s) /\ x # Head(s)
<1>1. /\ Tail(s) \in Seq(S) /\ Head(s) \in S /\ Len(Tail(s)) = Len(s) - 1 /\ Len(s) \in Nat \ {0}
      /\ \A i \in 1 .. Len(s) - 1 : Tail(s)[i] = s[i + 1]
      /\ Head(s) = s[1]
  OBVIOUS
<1>2. Occurs(Head(s), s)
  BY <1>1 DEF Occurs
<1>3. Distinct(Tail(s))
  BY <1>1 DEF Distinct
<1>4. ASSUME NEW x PROVE Occurs(x, Tail(s)) <=> Occurs(x, s) /\ x # Head(s)
  <2>1. ASSUME Occurs(x, Tail(s)) PROVE Occurs(x, s) /\ x # Head(s)
    <3>1. PICK i \in 1 .. Len(s) - 1 : s[i + 1] = x
      BY <1>1, <2>1 DEF Occurs
    <3>2. i + 1 \in 1 .. Len(s) /\ 1 \in 1 .. Len(s) /\ i + 1 # 1
      BY <1>1
    <3> QED
      BY <1>1, <3>1, <3>2 DEF Distinct, Occurs
  <2>2. ASSUME Occurs(x, s), x # Head(s) PROVE Occurs(x, Tail(s))
    <3>1. PICK i \in 1 .. Len(s) : s[i] = x
      BY <2>2 DEF Occurs
    <3>2. i # 1 /\ i - 1 \in 1 .. Len(s) - 1 /\ (i - 1) + 1 = i
      BY <1>1, <2>2, <3>1
    <3>3. Tail(s)[i - 1] = x
      BY <1>1, <3>1, <3>2
    <3> QED
      BY <1>1, <3>2, <3>3 DEF Occurs
  <2> QED
    BY <2>1, <2>2
<1> QED BY <1>1, <1>2, <1>3, <1>4
-----------------------------------------------------------------------------
(* Custody of an item.  The queue, the hands and the table agree with the    *)
(* program counters; this is the inductive form of ExclusiveCustody.         *)

Early == {"idle", "enter", "gate", "push"}
FreeSteps == {"register", "check", "pop", "emit"}
HoldingSteps == {"fetch", "tally", "claim", "mark", "lock", "insert", "unmark",
                 "record", "release"}
WrittenSteps == {"unmark", "record", "release", "dead"}

(* Before the push an item is nowhere. *)
NotYet(r) == apiPc[r] \in Early => ~Queued(r) /\ Holders(r) = {} /\ table[r] = 0

(* A queued item is nowhere else; a stored item is held by its writer only. *)
OnePlace(r) ==
  /\ \A v, w \in Workers : hand[v] = r /\ hand[w] = r => v = w
  /\ Queued(r) => Holders(r) = {} /\ table[r] = 0
  /\ table[r] \in {0, 1}
  /\ table[r] = 1 => \A w \in Workers : hand[w] = r => workerPc[w] \in WrittenSteps

HandAgrees(w) ==
  /\ workerPc[w] \in FreeSteps => hand[w] = Nobody
  /\ workerPc[w] \in HoldingSteps => hand[w] \in Requests

Custody ==
  /\ Distinct(queue)
  /\ \A r \in Requests : NotYet(r) /\ OnePlace(r)
  /\ \A w \in Workers : HandAgrees(w)

(* Most steps of a worker move nothing: only its program counter changes,  *)
(* from one holding step to the next or from one free step to the next.    *)
MovesNothing(w) ==
  /\ UNCHANGED <<queue, hand, table, apiPc>>
  /\ \E step \in WorkerSteps :
       /\ WorkerGoto(w, step)
       /\ \/ step = "dead"
          \/ workerPc[w] \in FreeSteps /\ step \in FreeSteps
          \/ /\ workerPc[w] \in HoldingSteps /\ step \in HoldingSteps
             /\ workerPc[w] \in WrittenSteps => step \in WrittenSteps

(* A step that moves no item keeps the invariant, as long as no worker gets *)
(* back to a step before the commit with an item in hand.                   *)
LEMMA MovesNothingKeepsCustody ==
  ASSUME TypeOK, Custody, NEW w \in Workers, MovesNothing(w)
  PROVE  Custody'
<1>1. PICK step \in WorkerSteps :
        /\ WorkerGoto(w, step)
        /\ \/ step = "dead"
           \/ workerPc[w] \in FreeSteps /\ step \in FreeSteps
           \/ /\ workerPc[w] \in HoldingSteps /\ step \in HoldingSteps
              /\ workerPc[w] \in WrittenSteps => step \in WrittenSteps
  BY DEF MovesNothing
<1>2. UNCHANGED <<queue, hand, table, apiPc>>
  BY DEF MovesNothing
<1>3. /\ workerPc' = [workerPc EXCEPT ![w] = step]
      /\ workerPc \in [Workers -> WorkerSteps]
  BY <1>1 DEF WorkerGoto, TypeOK
<1>4. \A v \in Workers : workerPc[v] \in WrittenSteps => workerPc'[v] \in WrittenSteps
  <2> SUFFICES ASSUME workerPc[w] \in WrittenSteps PROVE step \in WrittenSteps
    BY <1>3
  <2> QED
    BY <1>1 DEF WrittenSteps, FreeSteps
<1>5. \A r \in Requests : NotYet(r)' /\ OnePlace(r)'
  BY <1>2, <1>4 DEF Custody, NotYet, OnePlace, Queued, Holders
<1>6. \A v \in Workers : HandAgrees(v)'
  <2> TAKE v \in Workers
  <2>1. CASE v # w
    BY <1>2, <1>3, <2>1 DEF Custody, HandAgrees
  <2>2. CASE v = w
    BY <1>1, <1>2, <1>3, <2>2 DEF Custody, HandAgrees, FreeSteps, HoldingSteps
  <2> QED
    BY <2>1, <2>2
<1> QED
  BY <1>2, <1>5, <1>6 DEF Custody, Distinct

(* Only the push changes where an item is when a handler runs. *)
LEMMA HandlerKeepsCustody ==
  ASSUME TypeOK, Custody, NEW r \in Requests, Send(r) \/ Handler(r)
  PROVE  Custody'
<1> USE DEF redisVars, controlVars, apiVars, workerVars, MayApply
<1>1. UNCHANGED <<hand, table, workerPc>>
  BY DEF Send, Handler, Enter, Gate, Push, Stamp, TallyEnqueue, Leave, Record, Emit, Reply
<1>2. apiPc \in [Requests -> ApiSteps] /\ queue \in Seq(Requests)
  BY DEF TypeOK
<1>3. \A s \in Requests : apiPc'[s] \in Early => apiPc[s] \in Early
  BY <1>2 DEF Send, Handler, Enter, Gate, Push, Stamp, TallyEnqueue, Leave, Record, Emit,
              Reply, ApiGoto, Early
<1>4. CASE queue' = queue
  <2>1. \A s \in Requests : NotYet(s)' /\ OnePlace(s)'
    BY <1>1, <1>3, <1>4 DEF Custody, NotYet, OnePlace, Queued, Holders
  <2> QED
    BY <1>1, <1>4, <2>1 DEF Custody, HandAgrees, Distinct
<1>5. CASE queue' = Append(queue, r) /\ apiPc[r] = "push" /\ apiPc'[r] \notin Early
  <2>1. ~Queued(r) /\ Holders(r) = {} /\ table[r] = 0
    BY <1>5 DEF Custody, NotYet, Early
  <2>2. /\ Distinct(queue')
        /\ \A s : Occurs(s, queue') <=> Occurs(s, queue) \/ s = r
    BY <1>2, <1>5, <2>1, AppendDistinct DEF Custody, Queued, Occurs
  <2>3. \A s \in Requests : Queued(s)' <=> Queued(s) \/ s = r
    BY <2>2 DEF Queued, Occurs
  <2>4. \A s \in Requests : Holders(s)' = Holders(s)
    BY <1>1 DEF Holders
  <2>5. \A s \in Requests : NotYet(s)' /\ OnePlace(s)'
    BY <1>1, <1>3, <1>5, <2>1, <2>3, <2>4 DEF Custody, NotYet, OnePlace
  <2> QED
    BY <1>1, <2>2, <2>5 DEF Custody, HandAgrees
<1>6. queue' = queue \/ (queue' = Append(queue, r) /\ apiPc[r] = "push" /\ apiPc'[r] \notin Early)
  BY <1>2 DEF Send, Handler, Enter, Gate, Push, Stamp, TallyEnqueue, Leave, Record, Emit,
              Reply, ApiGoto, Early
<1> QED
  BY <1>4, <1>5, <1>6

(* The LPOP moves the head of the list into one pair of hands. *)
LEMMA TakeKeepsCustody ==
  ASSUME TypeOK, Custody, NEW w \in Workers, Take(w), workerPc[w] = "pop",
         NEW step \in {"fetch", "dead"}, WorkerGoto(w, step), UNCHANGED <<table, apiPc>>
  PROVE  Custody'
<1> DEFINE r == Head(queue)
<1>1. /\ queue \in Seq(Requests) /\ queue # <<>> /\ queue' = Tail(queue)
      /\ hand \in [Workers -> Requests \cup {Nobody}] /\ hand' = [hand EXCEPT ![w] = r]
      /\ workerPc \in [Workers -> WorkerSteps] /\ workerPc' = [workerPc EXCEPT ![w] = step]
  BY DEF Take, TypeOK, WorkerGoto
<1>2. /\ r \in Requests /\ Occurs(r, queue) /\ Distinct(queue')
      /\ \A x : Occurs(x, queue') <=> Occurs(x, queue) /\ x # r
  BY <1>1, TailDistinct DEF Custody
<1>3. \A s \in Requests : Queued(s)' <=> Queued(s) /\ s # r
  BY <1>2 DEF Queued, Occurs
<1>4. Queued(r) /\ Holders(r) = {} /\ table[r] = 0
  BY <1>2 DEF Custody, OnePlace, Queued, Occurs
<1>5. hand[w] = Nobody /\ Nobody \notin Requests
  BY NamesAssumption DEF Custody, HandAgrees, FreeSteps
<1>6. \A s \in Requests : NotYet(s)'
  <2> SUFFICES ASSUME NEW s \in Requests, apiPc[s] \in Early
               PROVE  ~Queued(s)' /\ Holders(s)' = {} /\ table[s] = 0
    BY DEF NotYet
  <2>1. ~Queued(s) /\ Holders(s) = {} /\ table[s] = 0
    BY DEF Custody, NotYet
  <2>2. s # r
    BY <1>4, <2>1
  <2> QED
    BY <1>1, <1>3, <2>1, <2>2 DEF Holders
<1>7. \A s \in Requests : OnePlace(s)'
  <2> TAKE s \in Requests
  <2>1. CASE s = r
    BY <1>1, <1>3, <1>4, <2>1 DEF OnePlace, Holders
  <2>2. CASE s # r
    <3>1. OnePlace(s)
      BY DEF Custody
    <3>2. \A v \in Workers : hand'[v] = s <=> hand[v] = s
      BY <1>1, <1>5, <2>2
    <3>3. \A v \in Workers : hand[v] = s => workerPc'[v] = workerPc[v]
      BY <1>1, <1>5
    <3> QED
      BY <1>3, <2>2, <3>1, <3>2, <3>3 DEF OnePlace, Holders
  <2> QED
    BY <2>1, <2>2
<1>8. \A v \in Workers : HandAgrees(v)'
  BY <1>1, <1>2 DEF Custody, HandAgrees, FreeSteps, HoldingSteps
<1> QED
  BY <1>2, <1>6, <1>7, <1>8 DEF Custody

(* The commit writes the row of the item in hand, once. *)
LEMMA InsertKeepsCustody ==
  ASSUME TypeOK, Custody, NEW w \in Workers, Insert(w)
  PROVE  Custody'
<1> DEFINE r == hand[w]
<1>1. /\ workerPc[w] = "insert" /\ UNCHANGED <<queue, hand, apiPc>>
      /\ workerPc' = [workerPc EXCEPT ![w] = "unmark"]
      /\ table' = table \/ table' = [table EXCEPT ![r] = @ + 1]
  BY DEF Insert, TransactionRaises, WorkerGoto, MayApply, redisVars, apiVars
<1>2. /\ workerPc \in [Workers -> WorkerSteps] /\ table \in [Requests -> Nat]
  BY DEF TypeOK
<1>3. r \in Requests
  BY <1>1 DEF Custody, HandAgrees, HoldingSteps
<1>4. table[r] = 0 /\ ~Queued(r) /\ \A v \in Workers : hand[v] = r => v = w
  <2>1. table[r] # 1
    BY <1>1, <1>3 DEF Custody, OnePlace, WrittenSteps
  <2> QED
    BY <1>3, <2>1 DEF Custody, OnePlace, Holders
<1>5. \A s \in Requests : s # r => table'[s] = table[s]
  BY <1>1, <1>2, <1>3
<1>6. table'[r] \in {0, 1}
  BY <1>1, <1>2, <1>3, <1>4
<1>7. \A v \in Workers : workerPc[v] \in WrittenSteps => workerPc'[v] \in WrittenSteps
  BY <1>1, <1>2 DEF WrittenSteps
<1>8. \A s \in Requests : NotYet(s)'
  <2> SUFFICES ASSUME NEW s \in Requests, apiPc[s] \in Early
               PROVE  ~Queued(s)' /\ Holders(s)' = {} /\ table'[s] = 0
    BY <1>1 DEF NotYet
  <2>1. ~Queued(s) /\ Holders(s) = {} /\ table[s] = 0
    BY DEF Custody, NotYet
  <2>2. s # r
    BY <2>1 DEF Holders
  <2> QED
    BY <1>1, <1>5, <2>1, <2>2 DEF Queued, Holders
<1>9. \A s \in Requests : OnePlace(s)'
  <2> TAKE s \in Requests
  <2>1. CASE s = r
    BY <1>1, <1>2, <1>4, <1>6, <2>1 DEF OnePlace, Queued, Holders, WrittenSteps
  <2>2. CASE s # r
    BY <1>1, <1>5, <1>7, <2>2 DEF Custody, OnePlace, Queued, Holders
  <2> QED
    BY <2>1, <2>2
<1>10. \A v \in Workers : HandAgrees(v)'
  BY <1>1, <1>2, <1>3 DEF Custody, HandAgrees, FreeSteps, HoldingSteps
<1> QED
  BY <1>1, <1>8, <1>9, <1>10 DEF Custody, Distinct

(* A worker that is done with its item has empty hands again. *)
LEMMA ReleaseKeepsCustody ==
  ASSUME TypeOK, Custody, NEW w \in Workers, WorkerGoto(w, "emit"),
         workerPc[w] = "release", hand' = [hand EXCEPT ![w] = Nobody],
         UNCHANGED <<queue, table, apiPc>>
  PROVE  Custody'
<1>1. /\ workerPc \in [Workers -> WorkerSteps] /\ workerPc' = [workerPc EXCEPT ![w] = "emit"]
      /\ hand \in [Workers -> Requests \cup {Nobody}] /\ Nobody \notin Requests
  BY NamesAssumption DEF WorkerGoto, TypeOK
<1>2. \A s \in Requests, v \in Workers :
        hand'[v] = s => hand[v] = s /\ workerPc'[v] = workerPc[v]
  BY <1>1
<1>3. \A s \in Requests : NotYet(s)'
  BY <1>2 DEF Custody, NotYet, Queued, Holders
<1>4. \A s \in Requests : OnePlace(s)'
  BY <1>2 DEF Custody, OnePlace, Queued, Holders
<1>5. \A v \in Workers : HandAgrees(v)'
  BY <1>1 DEF Custody, HandAgrees, FreeSteps, HoldingSteps
<1> QED
  BY <1>3, <1>4, <1>5 DEF Custody, Distinct

(* The LPOP, the insert and the release aside, no step moves an item. *)
LEMMA OtherWorkMovesNothing ==
  ASSUME NEW w \in Workers, Work(w), ~Pop(w), ~Insert(w), ~Release(w)
  PROVE  MovesNothing(w)
BY DEF Work, MovesNothing, Register, Check, Fetch, TallyDequeue, Claim, Mark, Lock,
       TransactionRaises, Unmark, RecordWrite, EmitCompletion, FreeSteps, HoldingSteps,
       WrittenSteps, WorkerSteps, redisVars, apiVars, workerVars, Dies

(* So every step of a worker keeps the invariant. *)
LEMMA WorkKeepsCustody ==
  ASSUME TypeOK, Custody, NEW w \in Workers, Work(w)
  PROVE  Custody'
<1> USE DEF redisVars, controlVars, apiVars, workerVars, MayApply, Dies
<1>1. CASE Pop(w)
  <2>1. workerPc[w] = "pop" /\ UNCHANGED <<table, apiPc>>
    BY <1>1 DEF Pop
  <2>2. CASE Take(w) /\ WorkerGoto(w, "fetch")
    BY <2>1, <2>2, TakeKeepsCustody
  <2>3. CASE Take(w) /\ WorkerGoto(w, "dead")
    BY <2>1, <2>3, TakeKeepsCustody
  <2>4. CASE UNCHANGED <<queue, hand>> /\ WorkerGoto(w, "register")
    BY <2>1, <2>4, MovesNothingKeepsCustody DEF MovesNothing, FreeSteps, WorkerSteps
  <2>5. CASE UNCHANGED <<queue, hand>> /\ WorkerGoto(w, "dead")
    BY <2>1, <2>5, MovesNothingKeepsCustody DEF MovesNothing, WorkerSteps
  <2> QED
    BY <1>1, <2>2, <2>3, <2>4, <2>5 DEF Pop
<1>2. CASE Insert(w)
  BY <1>2, InsertKeepsCustody
<1>3. CASE Release(w)
  BY <1>3, ReleaseKeepsCustody, MovesNothingKeepsCustody
     DEF Release, MovesNothing, WorkerSteps
<1>4. CASE ~Pop(w) /\ ~Insert(w) /\ ~Release(w)
  BY <1>4, OtherWorkMovesNothing, MovesNothingKeepsCustody
<1> QED
  BY <1>1, <1>2, <1>3, <1>4

(* Interventions touch no item. *)
LEMMA EnvironmentKeepsCustody ==
  ASSUME Custody, UNCHANGED <<queue, hand, table, apiPc, workerPc>>
  PROVE  Custody'
BY DEF Custody, NotYet, OnePlace, HandAgrees, Queued, Holders, Distinct

(* Every step keeps the invariant. *)
LEMMA NextKeepsCustody ==
  ASSUME TypeOK, Custody, [Next]_vars
  PROVE  Custody'
<1>1. CASE Environment
  BY <1>1, EnvironmentKeepsCustody
     DEF Environment, StartPause, StartRejection, StartLock, StopPause, StopRejection,
         StopLock, redisVars, apiVars, workerVars
<1>2. CASE UNCHANGED vars
  BY <1>2, EnvironmentKeepsCustody DEF vars, redisVars, apiVars, workerVars
<1> QED
  BY <1>1, <1>2, HandlerKeepsCustody, WorkKeepsCustody DEF Next

(* The inductive invariant holds in every reachable state. *)
THEOREM CustodyHolds == Spec => []Custody
<1>1. Init => Custody
  BY NamesAssumption
     DEF Init, Custody, NotYet, OnePlace, HandAgrees, Queued, Holders, Distinct, HoldingSteps
<1>2. TypeOK /\ Custody /\ [Next]_vars => Custody'
  BY NextKeepsCustody
<1> QED
  BY <1>1, <1>2, TypeCorrect, PTL DEF Spec

(* No item is duplicated, and no row is written twice or by a worker that    *)
(* does not hold the item, whatever calls fail and whichever workers die.    *)
(* The queue, the hands and the rows alone do not carry this: a handler must *)
(* also not push what is already under way, hence Custody.                   *)
THEOREM CustodyIsExclusive == Spec => []ExclusiveCustody
<1>1. TypeOK /\ Custody => ExclusiveCustody
  <2> SUFFICES ASSUME TypeOK, Custody PROVE ExclusiveCustody
    OBVIOUS
  <2>1. \A r \in Requests : table[r] \in {0, 1} /\ (Stored(r) <=> table[r] = 1)
    BY DEF Custody, OnePlace, Stored
  <2> QED
    BY <2>1 DEF ExclusiveCustody, Custody, OnePlace, Distinct, Holders, HasWritten,
                WrittenSteps
<1> QED
  BY <1>1, TypeCorrect, CustodyHolds, PTL

-----------------------------------------------------------------------------
(* The advisory lock. *)

(* A worker that is about to insert owns the lock. *)
InserterOwnsLock == \A w \in Workers : workerPc[w] = "insert" => lockOwner = w

(* A worker between the advisory lock and the commit owns the lock: nobody *)
(* takes it from its owner.                                                *)
LEMMA InserterKeepsLock ==
  ASSUME TypeOK, InserterOwnsLock, [Next]_vars
  PROVE  InserterOwnsLock'
<1> USE NamesAssumption DEF redisVars, controlVars, apiVars, workerVars, MayApply, Dies
<1>1. workerPc \in [Workers -> WorkerSteps]
  BY DEF TypeOK
<1>2. ASSUME NEW r \in Requests, Send(r) \/ Handler(r)
      PROVE  UNCHANGED <<workerPc, lockOwner>>
  BY <1>2 DEF Send, Handler, Enter, Gate, Push, Stamp, TallyEnqueue, Leave, Record, Emit,
              Reply
<1>3. ASSUME NEW w \in Workers, Work(w)
      PROVE  InserterOwnsLock'
  <2>1. CASE Lock(w)
    BY <1>1, <2>1 DEF Lock, TransactionRaises, WorkerGoto, InserterOwnsLock
  <2>2. CASE Insert(w)
    BY <1>1, <2>2 DEF Insert, TransactionRaises, WorkerGoto, InserterOwnsLock
  <2>3. CASE ~Lock(w) /\ ~Insert(w)
    <3>1. lockOwner' = lockOwner /\ workerPc[w] # "insert"
      BY <1>3, <2>3 DEF Work, Register, Check, Pop, Fetch, TallyDequeue, Claim, Mark, Unmark,
                        RecordWrite, Release, EmitCompletion
    <3>2. \A v \in Workers : workerPc'[v] = "insert" => workerPc[v] = "insert"
      BY <1>1, <1>3, <2>3
         DEF Work, Register, Check, Pop, Fetch, TallyDequeue, Claim, Mark, Unmark,
             RecordWrite, Release, EmitCompletion, WorkerGoto
    <3> QED
      BY <3>1, <3>2 DEF InserterOwnsLock
  <2> QED
    BY <2>1, <2>2, <2>3
<1>4. CASE Environment
  BY <1>4 DEF Environment, StartPause, StartRejection, StartLock, StopPause, StopRejection,
              StopLock, InserterOwnsLock
<1>5. CASE UNCHANGED vars
  BY <1>5 DEF vars, InserterOwnsLock
<1> QED
  BY <1>2, <1>3, <1>4, <1>5 DEF Next, InserterOwnsLock

(* While the controller keeps the lock the table does not change: the only   *)
(* step that writes is the insert, and the inserter owns the lock itself.    *)
THEOREM LockIsRespected == Spec => LockFreezesTable
<1>1. Init => InserterOwnsLock
  BY DEF Init, InserterOwnsLock
<1>2. TypeOK /\ InserterOwnsLock /\ [Next]_vars =>
        (lockOwner = Controller /\ lockOwner' = Controller => table' = table)
  <2> SUFFICES ASSUME InserterOwnsLock, lockOwner = Controller, [Next]_vars
               PROVE  table' = table
    OBVIOUS
  <2> USE DEF redisVars, controlVars, apiVars, workerVars
  <2>1. ASSUME NEW r \in Requests, Send(r) \/ Handler(r) PROVE table' = table
    BY <2>1 DEF Send, Handler, Enter, Gate, Push, Stamp, TallyEnqueue, Leave, Record, Emit,
                Reply
  <2>2. ASSUME NEW w \in Workers, Work(w) PROVE table' = table
    <3>1. ~Insert(w)
      BY NamesAssumption DEF Insert, InserterOwnsLock
    <3> QED
      BY <2>2, <3>1 DEF Work, Register, Check, Pop, Fetch, TallyDequeue, Claim, Mark, Lock,
                        Unmark, RecordWrite, Release, EmitCompletion
  <2>3. CASE Environment
    BY <2>3 DEF Environment, StartPause, StartRejection, StartLock, StopPause,
                StopRejection, StopLock
  <2> QED
    BY <2>1, <2>2, <2>3 DEF Next, vars
<1> QED
  BY <1>1, <1>2, InserterKeepsLock, TypeCorrect, PTL DEF Spec, LockFreezesTable

-----------------------------------------------------------------------------
(* worker_pause *)

(* A worker that is about to pop has taken nothing since it was last seen *)
(* unpaused.                                                              *)
PausedTakesBounded ==
  \A w \in Workers :
    /\ pausedTakes[w] <= 1
    /\ workerPc[w] = "pop" => pausedTakes[w] = 0

(* The race between the check and the LPOP costs one item and no more: a     *)
(* worker whose pause began between the two takes one, then sees the pause.  *)
THEOREM PauseCostsOneItem == Spec => []PauseAllowsOneTake
<1>1. Init => PausedTakesBounded
  BY DEF Init, PausedTakesBounded
<1>2. TypeOK /\ PausedTakesBounded /\ [Next]_vars => PausedTakesBounded'
  <2> SUFFICES ASSUME TypeOK, PausedTakesBounded, [Next]_vars PROVE PausedTakesBounded'
    OBVIOUS
  <2> USE DEF redisVars, controlVars, apiVars, workerVars, MayApply, Dies
  <2>1. workerPc \in [Workers -> WorkerSteps] /\ pausedTakes \in [Workers -> Nat]
    BY DEF TypeOK
  <2>2. ASSUME NEW r \in Requests, Send(r) \/ Handler(r)
        PROVE  UNCHANGED <<workerPc, pausedTakes>>
    BY <2>2 DEF Send, Handler, Enter, Gate, Push, Stamp, TallyEnqueue, Leave, Record, Emit,
                Reply
  <2>3. ASSUME NEW w \in Workers, Work(w)
        PROVE  PausedTakesBounded'
    <3>1. CASE Check(w)
      BY <2>1, <3>1 DEF Check, WorkerGoto, PausedTakesBounded
    <3>2. CASE Pop(w)
      BY <2>1, <3>2 DEF Pop, Take, WorkerGoto, PausedTakesBounded
    <3>3. CASE ~Check(w) /\ ~Pop(w)
      <4>1. pausedTakes' = pausedTakes
        BY <2>3, <3>3 DEF Work, Register, Fetch, TallyDequeue, Claim, Mark, Lock, Insert,
                          Unmark, RecordWrite, Release, EmitCompletion
      <4>2. \A v \in Workers : workerPc'[v] = "pop" => workerPc[v] = "pop"
        BY <2>1, <2>3, <3>3
           DEF Work, Register, Fetch, TallyDequeue, Claim, Mark, Lock, TransactionRaises,
               Insert, Unmark, RecordWrite, Release, EmitCompletion, WorkerGoto
      <4> QED
        BY <4>1, <4>2 DEF PausedTakesBounded
    <3> QED
      BY <3>1, <3>2, <3>3
  <2>4. CASE Environment \/ UNCHANGED vars
    BY <2>4 DEF Environment, StartPause, StartRejection, StartLock, StopPause,
                StopRejection, StopLock, vars, PausedTakesBounded
  <2> QED
    BY <2>2, <2>3, <2>4 DEF Next, PausedTakesBounded
<1>3. PausedTakesBounded => PauseAllowsOneTake
  BY DEF PausedTakesBounded, PauseAllowsOneTake
<1> QED
  BY <1>1, <1>2, <1>3, TypeCorrect, PTL DEF Spec
-----------------------------------------------------------------------------
(* The busy hashes. *)

BusySteps == {"mark", "lock", "insert", "unmark", "record", "release"}

(* The hashes agree with the step the worker is at; a dead worker may have   *)
(* left its marks behind, but only with its item still in hand.              *)
MarksAgree(w) ==
  /\ workerPc[w] \in {"lock", "insert"} => w \in writeBusy
  /\ workerPc[w] \in BusySteps => w \in busy
  /\ w \in busy => hand[w] # Nobody /\ workerPc[w] \in BusySteps \cup {"dead"}
  /\ w \in writeBusy => w \in busy /\ workerPc[w] \in {"lock", "insert", "unmark", "dead"}

(* A worker marks and unmarks only itself. *)
LEMMA WorkMarksItself ==
  ASSUME TypeOK, NEW w \in Workers, Work(w), NEW v \in Workers, v # w
  PROVE  /\ workerPc'[v] = workerPc[v] /\ hand'[v] = hand[v]
         /\ v \in busy' <=> v \in busy
         /\ v \in writeBusy' <=> v \in writeBusy
<1>1. /\ workerPc \in [Workers -> WorkerSteps]
      /\ hand \in [Workers -> Requests \cup {Nobody}]
  BY DEF TypeOK
<1> QED
  BY <1>1 DEF Work, Register, Check, Pop, Take, Fetch, TallyDequeue, Claim, Mark, Lock,
              TransactionRaises, Insert, Unmark, RecordWrite, Release, EmitCompletion,
              WorkerGoto, Dies, MayApply, redisVars

(* The worker that steps keeps its marks in agreement with its step. *)
LEMMA WorkKeepsItsMarks ==
  ASSUME TypeOK, Custody, NEW w \in Workers, MarksAgree(w), Work(w)
  PROVE  MarksAgree(w)'
<1>1. /\ workerPc \in [Workers -> WorkerSteps]
      /\ hand \in [Workers -> Requests \cup {Nobody}]
  BY DEF TypeOK
<1> USE <1>1 DEF WorkerGoto, Dies, MayApply, redisVars, MarksAgree, BusySteps
<1>2. CASE Register(w) \/ Check(w) \/ Fetch(w) \/ TallyDequeue(w) \/ EmitCompletion(w)
  BY <1>2 DEF Register, Check, Fetch, TallyDequeue, EmitCompletion
<1>3. CASE Pop(w)
  BY <1>3 DEF Pop, Take
<1>4. CASE Claim(w)
  <2>1. hand[w] # Nobody
    BY <1>4, NamesAssumption DEF Claim, Custody, HandAgrees, HoldingSteps
  <2> QED
    BY <1>4, <2>1 DEF Claim
<1>5. CASE Mark(w) \/ Unmark(w)
  BY <1>5 DEF Mark, Unmark
<1>6. CASE Lock(w) \/ Insert(w)
  BY <1>6 DEF Lock, Insert, TransactionRaises
<1>7. CASE RecordWrite(w) \/ Release(w)
  BY <1>7 DEF RecordWrite, Release
<1> QED
  BY <1>2, <1>3, <1>4, <1>5, <1>6, <1>7 DEF Work

(* A sampler that reads the two hashes at any moment sees a worker inside    *)
(* its transaction in both, and never counts a worker without an item.       *)
THEOREM MarksAreTrue == Spec => []BusyMarksWork
<1> DEFINE Marks == \A w \in Workers : MarksAgree(w)
<1>1. Init => Marks
  BY DEF Init, MarksAgree, BusySteps
<1>2. TypeOK /\ Custody /\ Marks /\ [Next]_vars => Marks'
  <2> SUFFICES ASSUME TypeOK, Custody, Marks, [Next]_vars, NEW v \in Workers
               PROVE  MarksAgree(v)'
    OBVIOUS
  <2>1. ASSUME UNCHANGED <<workerPc, hand, busy, writeBusy>> PROVE MarksAgree(v)'
    BY <2>1 DEF MarksAgree
  <2>2. ASSUME NEW r \in Requests, Send(r) \/ Handler(r)
        PROVE  UNCHANGED <<workerPc, hand, busy, writeBusy>>
    BY <2>2 DEF Send, Handler, Enter, Gate, Push, Stamp, TallyEnqueue, Leave, Record, Emit,
                Reply, redisVars, workerVars
  <2>3. ASSUME NEW w \in Workers, Work(w) PROVE MarksAgree(v)'
    <3>1. CASE v = w
      BY <2>3, <3>1, WorkKeepsItsMarks
    <3>2. CASE v # w
      BY <2>3, <3>2, WorkMarksItself DEF MarksAgree
    <3> QED
      BY <3>1, <3>2
  <2>4. CASE Environment \/ UNCHANGED vars
    BY <2>1, <2>4 DEF Environment, StartPause, StartRejection, StartLock, StopPause,
                      StopRejection, StopLock, vars, redisVars, workerVars
  <2> QED
    BY <2>1, <2>2, <2>3, <2>4 DEF Next
<1>3. TypeOK /\ Marks => BusyMarksWork
  BY DEF TypeOK, MarksAgree, BusyMarksWork
<1> QED
  BY <1>1, <1>2, <1>3, TypeCorrect, CustodyHolds, PTL DEF Spec

-----------------------------------------------------------------------------
(* CheckoutPipeline implements CheckoutPromise: every step moves at most one *)
(* item, forward, or answers one request, and what it answers is true.       *)

(* What custody says about the place of an item. *)

(* An item in some worker's hands is stored, held or lost with that worker. *)
PlaceOfHeld ==
  \A w \in Workers, r \in Requests : hand[w] = r =>
    Place(r) = IF Stored(r) THEN "stored"
               ELSE IF workerPc[w] = "dead" THEN "lost" ELSE "held"

(* An item in nobody's hands is stored, queued or outside. *)
PlaceOfFree ==
  \A r \in Requests : Holders(r) = {} =>
    Place(r) = IF Stored(r) THEN "stored" ELSE IF Queued(r) THEN "queued" ELSE "outside"

(* The place of an item is read off its holder, if it has one, and off the *)
(* queue and the table otherwise.                                          *)
LEMMA PlaceReading == Custody => PlaceOfHeld /\ PlaceOfFree
<1> SUFFICES ASSUME Custody PROVE PlaceOfHeld /\ PlaceOfFree
  OBVIOUS
<1>1. PlaceOfHeld
  <2> SUFFICES ASSUME NEW w \in Workers, NEW r \in Requests, hand[w] = r
               PROVE  Place(r) = IF Stored(r) THEN "stored"
                                 ELSE IF workerPc[w] = "dead" THEN "lost" ELSE "held"
    BY DEF PlaceOfHeld
  <2>1. ~Queued(r) /\ Holders(r) # {} /\ \A v \in Holders(r) : v = w
    BY DEF Custody, OnePlace, Holders
  <2>2. w \in Holders(r)
    BY DEF Holders
  <2> QED
    BY <2>1, <2>2 DEF Place
<1>2. PlaceOfFree
  BY DEF PlaceOfFree, Place
<1> QED
  BY <1>1, <1>2

(* An item whose queue entry, row and holder are untouched stays where it is. *)
LEMMA SamePlace ==
  ASSUME NEW r \in Requests,
         Queued(r)' <=> Queued(r), table'[r] = table[r],
         \A v \in Workers : hand'[v] = r <=> hand[v] = r,
         \A v \in Workers : hand[v] = r => (workerPc'[v] = "dead" <=> workerPc[v] = "dead")
  PROVE  Place(r)' = Place(r)
<1>1. Holders(r)' = Holders(r)
  BY DEF Holders
<1>2. Stored(r)' <=> Stored(r)
  BY DEF Stored
<1>3. (\E w \in Holders(r)' : workerPc'[w] # "dead")
        <=> (\E w \in Holders(r) : workerPc[w] # "dead")
  BY <1>1 DEF Holders
<1> QED
  BY <1>1, <1>2, <1>3 DEF Place

-----------------------------------------------------------------------------
(* The steps of the promise, in the terms of the pipeline. *)

(* Item r alone moves, and nobody is answered. *)
Moves(r, from, to) ==
  /\ Place(r) \in from
  /\ Place(r)' = to
  /\ \A s \in Requests : s # r => Place(s)' = Place(s)

StaysPut == \A s \in Requests : Place(s)' = Place(s)

(* Every worker step moves at most the item in its hands, forward. *)
MovesForward ==
  \/ StaysPut
  \/ \E r \in Requests :
       Moves(r, {"queued"}, "held") \/ Moves(r, {"held"}, "stored")
         \/ Moves(r, {"queued", "held"}, "lost")

(* A worker that will let go of its item without raising has stored it. *)
WriteAgrees(w) ==
  /\ workerPc[w] \in {"unmark", "record"} /\ w \notin writeFailed => Stored(hand[w])
  /\ workerPc[w] = "release" => Stored(hand[w])

(* The LPOP moves the head of the list to the hands of the worker, or loses *)
(* it with the worker that does not see the answer.                         *)
LEMMA TakeMovesForward ==
  ASSUME TypeOK, Custody, Custody', NEW w \in Workers, workerPc[w] = "pop", Take(w),
         NEW step \in {"fetch", "dead"}, WorkerGoto(w, step), UNCHANGED table
  PROVE  MovesForward
<1>0. PICK r : r = Head(queue)
  OBVIOUS
<1>1. /\ queue \in Seq(Requests) /\ queue # <<>> /\ queue' = Tail(queue)
      /\ hand \in [Workers -> Requests \cup {Nobody}] /\ hand' = [hand EXCEPT ![w] = r]
      /\ workerPc \in [Workers -> WorkerSteps] /\ workerPc' = [workerPc EXCEPT ![w] = step]
  BY <1>0 DEF Take, TypeOK, WorkerGoto
<1>2. /\ r \in Requests /\ Occurs(r, queue)
      /\ \A x : Occurs(x, queue') <=> Occurs(x, queue) /\ x # r
  BY <1>0, <1>1, TailDistinct DEF Custody
<1>3. \A s \in Requests : Queued(s)' <=> Queued(s) /\ s # r
  BY <1>2 DEF Queued, Occurs
<1>4. Queued(r) /\ Holders(r) = {} /\ ~Stored(r)
  BY <1>2 DEF Custody, OnePlace, Queued, Occurs, Stored
<1>5. hand[w] = Nobody /\ Nobody \notin Requests
  BY NamesAssumption DEF Custody, HandAgrees, FreeSteps
<1>6. Place(r) = "queued"
  BY <1>2, <1>4, PlaceReading DEF PlaceOfFree
<1>7. Place(r)' = IF step = "dead" THEN "lost" ELSE "held"
  <2>1. ~Stored(r)'
    BY <1>4 DEF Stored
  <2>2. hand'[w] = r /\ workerPc'[w] = step
    BY <1>1
  <2>3. PlaceOfHeld'
    BY PlaceReading, PTL
  <2> QED
    BY <1>2, <2>1, <2>2, <2>3 DEF PlaceOfHeld
<1>8. ASSUME NEW s \in Requests, s # r PROVE Place(s)' = Place(s)
  <2>1. \A v \in Workers : hand'[v] = s <=> hand[v] = s
    BY <1>1, <1>5, <1>8
  <2>2. \A v \in Workers : hand[v] = s => workerPc'[v] = workerPc[v]
    BY <1>1, <1>5
  <2> QED
    BY <1>3, <1>8, <2>1, <2>2, SamePlace
<1> QED
  BY <1>2, <1>6, <1>7, <1>8 DEF MovesForward, Moves

(* The commit stores the item in hand. *)
LEMMA InsertMovesForward ==
  ASSUME TypeOK, Custody, Custody', NEW w \in Workers, Insert(w)
  PROVE  MovesForward /\ (w \notin writeFailed' => Stored(hand[w])')
<1>0. PICK r : r = hand[w]
  OBVIOUS
<1>1. /\ workerPc[w] = "insert" /\ UNCHANGED <<queue, hand>>
      /\ workerPc' = [workerPc EXCEPT ![w] = "unmark"]
      /\ \/ table' = table /\ w \in writeFailed'
         \/ table' = [table EXCEPT ![r] = @ + 1]
  BY <1>0 DEF Insert, TransactionRaises, WorkerGoto, MayApply, redisVars
<1>2. /\ workerPc \in [Workers -> WorkerSteps] /\ table \in [Requests -> Nat]
  BY DEF TypeOK
<1>3. r \in Requests
  BY <1>0, <1>1 DEF Custody, HandAgrees, HoldingSteps
<1>4. ~Stored(r) /\ Place(r) = "held"
  <2>1. table[r] # 1
    BY <1>0, <1>1, <1>3 DEF Custody, OnePlace, WrittenSteps
  <2>2. ~Stored(r)
    BY <1>3, <2>1 DEF Custody, OnePlace, Stored
  <2> QED
    BY <1>0, <1>1, <1>3, <2>2, PlaceReading DEF PlaceOfHeld
<1>5. \A s \in Requests : Queued(s)' <=> Queued(s)
  BY <1>1 DEF Queued
<1>6. \A s \in Requests : s # r => table'[s] = table[s]
  BY <1>1, <1>2, <1>3
<1>7. \A v \in Workers : workerPc'[v] = "dead" <=> workerPc[v] = "dead"
  BY <1>1, <1>2
<1>8. \A s \in Requests : s # r => Place(s)' = Place(s)
  BY <1>0, <1>1, <1>5, <1>6, <1>7, SamePlace
<1>9. CASE table' = table /\ w \in writeFailed'
  BY <1>1, <1>3, <1>5, <1>7, <1>9, SamePlace DEF MovesForward, StaysPut
<1>10. CASE table' = [table EXCEPT ![r] = @ + 1]
  <2>1. Stored(hand[w])'
    BY <1>0, <1>1, <1>2, <1>3, <1>10 DEF Stored
  <2>2. Place(r)' = "stored"
    BY <1>0, <1>1, <2>1 DEF Place
  <2> QED
    BY <1>3, <1>4, <1>8, <2>1, <2>2 DEF MovesForward, Moves
<1> QED
  BY <1>1, <1>9, <1>10

(* Any other step leaves the item in the hands, and loses it only when the *)
(* worker dies.                                                            *)
LEMMA CarryMovesForward ==
  ASSUME TypeOK, Custody, Custody', NEW w \in Workers, MovesNothing(w),
         workerPc[w] # "dead"
  PROVE  MovesForward
<1>1. PICK step \in WorkerSteps : WorkerGoto(w, step)
  BY DEF MovesNothing
<1>2. /\ UNCHANGED <<queue, hand, table>>
      /\ workerPc' = [workerPc EXCEPT ![w] = step]
      /\ workerPc \in [Workers -> WorkerSteps]
      /\ hand \in [Workers -> Requests \cup {Nobody}]
  BY <1>1 DEF MovesNothing, WorkerGoto, TypeOK
<1>3. \A s \in Requests : Queued(s)' <=> Queued(s)
  BY <1>2 DEF Queued
<1>4. \A s \in Requests : s # hand[w] => Place(s)' = Place(s)
  BY <1>2, <1>3, SamePlace
<1>5. CASE step # "dead" \/ hand[w] \notin Requests
  <2>1. \A s \in Requests, v \in Workers :
          hand[v] = s => (workerPc'[v] = "dead" <=> workerPc[v] = "dead")
    BY <1>2, <1>5
  <2> QED
    BY <1>2, <1>3, <2>1, SamePlace DEF MovesForward, StaysPut
<1>6. CASE step = "dead" /\ hand[w] \in Requests
  <2>0. PICK r \in Requests : r = hand[w]
    BY <1>6
  <2>1. Stored(r)' <=> Stored(r)
    BY <1>2 DEF Stored
  <2>2. Place(r) = IF Stored(r) THEN "stored" ELSE "held"
    BY <1>6, <2>0, PlaceReading DEF PlaceOfHeld
  <2>3. Place(r)' = IF Stored(r) THEN "stored" ELSE "lost"
    <3>1. PlaceOfHeld'
      BY PlaceReading, PTL
    <3>2. hand'[w] = r /\ workerPc'[w] = "dead"
      BY <1>2, <1>6, <2>0
    <3> QED
      BY <2>1, <3>1, <3>2 DEF PlaceOfHeld
  <2> QED
    BY <1>4, <2>0, <2>2, <2>3 DEF MovesForward, StaysPut, Moves
<1> QED
  BY <1>5, <1>6

(* A worker lets go of an item only when its row is in the table. *)
LEMMA ReleaseMovesForward ==
  ASSUME TypeOK, Custody, Custody', NEW w \in Workers, WriteAgrees(w),
         WorkerGoto(w, "emit"), workerPc[w] = "release",
         hand' = [hand EXCEPT ![w] = Nobody], UNCHANGED <<queue, table>>
  PROVE  MovesForward
<1>0. PICK r : r = hand[w]
  OBVIOUS
<1>1. /\ workerPc \in [Workers -> WorkerSteps] /\ workerPc' = [workerPc EXCEPT ![w] = "emit"]
      /\ hand \in [Workers -> Requests \cup {Nobody}] /\ Nobody \notin Requests
  BY NamesAssumption DEF WorkerGoto, TypeOK
<1>2. Stored(r) /\ Stored(r)'
  BY <1>0 DEF WriteAgrees, Stored
<1>3. Place(r)' = Place(r)
  BY <1>2 DEF Place
<1>4. \A s \in Requests : Queued(s)' <=> Queued(s)
  BY DEF Queued
<1>5. \A s \in Requests : s # r => Place(s)' = Place(s)
  BY <1>0, <1>1, <1>4, SamePlace
<1> QED
  BY <1>3, <1>5 DEF MovesForward, StaysPut

(* So every step of a worker moves at most one item, forward. *)
LEMMA WorkMovesForward ==
  ASSUME TypeOK, Custody, Custody', NEW w \in Workers, WriteAgrees(w), Work(w)
  PROVE  MovesForward
<1>1. workerPc[w] # "dead"
  BY DEF Work, Register, Check, Pop, Fetch, TallyDequeue, Claim, Mark, Lock, Insert, Unmark,
         RecordWrite, Release, EmitCompletion
<1> USE DEF redisVars, controlVars, apiVars, workerVars, MayApply, Dies
<1>2. CASE Pop(w)
  <2>1. workerPc[w] = "pop" /\ UNCHANGED <<table, apiPc>>
    BY <1>2 DEF Pop
  <2>2. CASE Take(w) /\ (WorkerGoto(w, "fetch") \/ WorkerGoto(w, "dead"))
    BY <2>1, <2>2, TakeMovesForward
  <2>3. CASE UNCHANGED <<queue, hand>> /\ (WorkerGoto(w, "register") \/ WorkerGoto(w, "dead"))
    <3>1. MovesNothing(w)
      BY <2>1, <2>3 DEF MovesNothing, FreeSteps, WorkerSteps
    <3> QED
      BY <1>1, <3>1, CarryMovesForward
  <2> QED
    BY <1>2, <2>2, <2>3 DEF Pop
<1>3. CASE Insert(w)
  BY <1>3, InsertMovesForward
<1>4. CASE Release(w)
  <2>1. workerPc[w] = "release" /\ UNCHANGED <<queue, table, apiPc>>
    BY <1>4 DEF Release
  <2>2. CASE WorkerGoto(w, "emit") /\ hand' = [hand EXCEPT ![w] = Nobody]
    BY <2>1, <2>2, ReleaseMovesForward
  <2>3. CASE WorkerGoto(w, "dead") /\ hand' = hand
    <3>1. MovesNothing(w)
      BY <2>1, <2>3 DEF MovesNothing, WorkerSteps
    <3> QED
      BY <1>1, <3>1, CarryMovesForward
  <2> QED
    BY <1>4, <2>2, <2>3 DEF Release
<1>5. CASE ~Pop(w) /\ ~Insert(w) /\ ~Release(w)
  BY <1>1, <1>5, OtherWorkMovesNothing, CarryMovesForward
<1> QED
  BY <1>2, <1>3, <1>4, <1>5

-----------------------------------------------------------------------------
(* A worker that lets go of its item has stored it. *)

(* A row, once written, stays. *)
LEMMA RowsStay ==
  ASSUME TypeOK, [Next]_vars, NEW r \in Requests, Stored(r)
  PROVE  Stored(r)'
<1>1. table \in [Requests -> Nat]
  BY DEF TypeOK
<1>2. table' = table \/ \E w \in Workers : table' = [table EXCEPT ![hand[w]] = @ + 1]
  <2> USE DEF redisVars, controlVars, apiVars, workerVars
  <2>1. ASSUME NEW q \in Requests, Send(q) \/ Handler(q) PROVE table' = table
    BY <2>1 DEF Send, Handler, Enter, Gate, Push, Stamp, TallyEnqueue, Leave, Record, Emit,
                Reply
  <2>2. ASSUME NEW w \in Workers, Work(w)
        PROVE  table' = table \/ table' = [table EXCEPT ![hand[w]] = @ + 1]
    BY <2>2 DEF Work, Register, Check, Pop, Fetch, TallyDequeue, Claim, Mark, Lock, Insert,
                MayApply, Unmark, RecordWrite, Release, EmitCompletion
  <2>3. CASE Environment \/ UNCHANGED vars
    BY <2>3 DEF Environment, StartPause, StartRejection, StartLock, StopPause,
                StopRejection, StopLock, vars
  <2> QED
    BY <2>1, <2>2, <2>3 DEF Next
<1> QED
  BY <1>1, <1>2 DEF Stored

(* Only a commit that was acknowledged leads a worker to the release. *)
LEMMA WriteStaysAgreed ==
  ASSUME TypeOK, Custody, Custody', NEW v \in Workers, WriteAgrees(v), [Next]_vars
  PROVE  WriteAgrees(v)'
<1>1. /\ workerPc \in [Workers -> WorkerSteps]
      /\ hand \in [Workers -> Requests \cup {Nobody}]
  BY DEF TypeOK
<1>2. workerPc[v] \in {"unmark", "record", "release"} => hand[v] \in Requests
  BY DEF Custody, HandAgrees, HoldingSteps
<1>3. ASSUME workerPc'[v] = workerPc[v], hand'[v] = hand[v],
             v \in writeFailed => v \in writeFailed'
      PROVE  WriteAgrees(v)'
  BY <1>2, <1>3, RowsStay DEF WriteAgrees
<1>4. ASSUME NEW r \in Requests, Send(r) \/ Handler(r) PROVE WriteAgrees(v)'
  BY <1>3, <1>4 DEF Send, Handler, Enter, Gate, Push, Stamp, TallyEnqueue, Leave, Record,
                    Emit, Reply, workerVars
<1>5. ASSUME NEW w \in Workers, w # v, Work(w) PROVE WriteAgrees(v)'
  <2>1. v \in writeFailed => v \in writeFailed'
    BY <1>5 DEF Work, Register, Check, Pop, Fetch, TallyDequeue, Claim, Mark, Lock,
                TransactionRaises, Insert, Unmark, RecordWrite, Release, EmitCompletion
  <2> QED
    BY <1>3, <1>5, <2>1, WorkMarksItself
<1>6. ASSUME Work(v) PROVE WriteAgrees(v)'
  <2> USE <1>1 DEF WorkerGoto, Dies, WriteAgrees
  <2>1. CASE Insert(v)
    <3>1. v \notin writeFailed' => Stored(hand[v])'
      BY <2>1, InsertMovesForward
    <3>2. workerPc'[v] = "unmark"
      BY <2>1 DEF Insert, TransactionRaises
    <3> QED
      BY <3>1, <3>2
  <2>2. CASE Unmark(v)
    <3>1. workerPc[v] = "unmark" /\ workerPc'[v] \in {"record", "dead"}
          /\ UNCHANGED <<hand, writeFailed>>
      BY <2>2 DEF Unmark
    <3> QED
      BY <1>2, <3>1, RowsStay
  <2>3. CASE RecordWrite(v)
    <3>1. workerPc[v] = "record" /\ UNCHANGED hand
          /\ (workerPc'[v] = "dead" \/ (workerPc'[v] = "release" /\ v \notin writeFailed))
      BY <2>3 DEF RecordWrite
    <3> QED
      BY <1>2, <3>1, RowsStay
  <2>4. CASE Lock(v)
    <3>1. workerPc'[v] = "insert" \/ (workerPc'[v] = "unmark" /\ v \in writeFailed')
      BY <2>4 DEF Lock, TransactionRaises
    <3> QED
      BY <3>1
  <2>5. CASE ~Insert(v) /\ ~Unmark(v) /\ ~RecordWrite(v) /\ ~Lock(v)
    <3>1. workerPc'[v] \notin {"unmark", "record", "release"}
      BY <1>6, <2>5 DEF Work, Register, Check, Pop, Fetch, TallyDequeue, Claim, Mark,
                        Release, EmitCompletion
    <3> QED
      BY <3>1
  <2> QED
    BY <2>1, <2>2, <2>3, <2>4, <2>5
<1>7. CASE Environment \/ UNCHANGED vars
  BY <1>3, <1>7 DEF Environment, StartPause, StartRejection, StartLock, StopPause,
                    StopRejection, StopLock, vars, workerVars
<1> QED
  BY <1>4, <1>5, <1>6, <1>7 DEF Next

-----------------------------------------------------------------------------
(* The HTTP status a handler thread carries agrees with where its item is. *)

StatusAgrees(r) ==
  /\ apiPc[r] \in Early => status[r] = 202
  /\ status[r] = 202 /\ apiPc[r] \notin Early \cup {"dropped"} => Place(r) # "outside"
  /\ status[r] = 503 => Place(r) = "outside"

(* A handler thread changes its own step and status only. *)
LEMMA HandlerMindsItself ==
  ASSUME TypeOK, NEW r \in Requests, Send(r) \/ Handler(r), NEW s \in Requests, s # r
  PROVE  apiPc'[s] = apiPc[s] /\ status'[s] = status[s]
<1>1. /\ apiPc \in [Requests -> ApiSteps]
      /\ status \in [Requests -> Statuses]
  BY DEF TypeOK
<1> QED
  BY <1>1 DEF Send, Handler, Enter, Gate, Push, Stamp, TallyEnqueue, Leave, Record, Emit,
              Reply, ApiGoto, Fails, apiVars

(* Before it pushes an item a handler knows it is outside, and the push is *)
(* the only thing a handler does to the place of an item.                  *)
LEMMA HandlerMoves ==
  ASSUME TypeOK, Custody, NEW r \in Requests, Send(r) \/ Handler(r)
  PROVE  \/ StaysPut /\ queue' = queue
         \/ Moves(r, {"outside"}, "queued") /\ Push(r)
<1> USE DEF redisVars, controlVars, apiVars, workerVars, MayApply
<1>1. UNCHANGED <<hand, table, workerPc>>
  BY DEF Send, Handler, Enter, Gate, Push, Stamp, TallyEnqueue, Leave, Record, Emit, Reply
<1>2. apiPc \in [Requests -> ApiSteps] /\ queue \in Seq(Requests)
  BY DEF TypeOK
<1>3. CASE queue' = queue
  <2>1. \A s \in Requests : Queued(s)' <=> Queued(s)
    BY <1>3 DEF Queued
  <2> QED
    BY <1>1, <1>3, <2>1, SamePlace DEF StaysPut
<1>4. CASE queue' = Append(queue, r) /\ Push(r)
  <2>1. ~Queued(r) /\ Holders(r) = {} /\ table[r] = 0
    BY <1>4 DEF Push, Custody, NotYet, Early
  <2>2. \A x : Occurs(x, queue') <=> Occurs(x, queue) \/ x = r
    BY <1>2, <1>4, <2>1, AppendDistinct DEF Custody, Queued, Occurs
  <2>3. \A s \in Requests : Queued(s)' <=> Queued(s) \/ s = r
    BY <2>2 DEF Queued, Occurs
  <2>4. \A s \in Requests : s # r => Place(s)' = Place(s)
    BY <1>1, <2>3, SamePlace
  <2>5. Place(r) = "outside" /\ Place(r)' = "queued"
    BY <1>1, <2>1, <2>3 DEF Place, Stored, Holders
  <2> QED
    BY <1>4, <2>4, <2>5 DEF Moves
<1>5. queue' = queue \/ (queue' = Append(queue, r) /\ Push(r))
  BY DEF Send, Handler, Enter, Gate, Push, Stamp, TallyEnqueue, Leave, Record, Emit, Reply
<1> QED
  BY <1>3, <1>4, <1>5

(* A handler thread keeps its status in agreement with its item. *)
LEMMA HandlerKeepsStatus ==
  ASSUME TypeOK, Custody, NEW r \in Requests, StatusAgrees(r), Send(r) \/ Handler(r)
  PROVE  StatusAgrees(r)'
<1>1. /\ apiPc \in [Requests -> ApiSteps]
      /\ status \in [Requests -> Statuses]
  BY DEF TypeOK
<1>2. ~Push(r) => Place(r)' = Place(r)
  BY HandlerMoves DEF StaysPut
<1>3. apiPc[r] \in Early => Place(r) = "outside"
  BY DEF Custody, NotYet, Place, Stored
<1> USE <1>1 DEF ApiGoto, Fails, StatusAgrees, Early, apiVars
<1>4. CASE Push(r)
  <2>1. status[r] = 202 /\ apiPc'[r] \in {"stamp", "tally"}
    BY <1>4 DEF Push
  <2>2. status'[r] # 202 \/ (status'[r] = 202 /\ queue' = Append(queue, r))
    BY <1>4, <2>1 DEF Push
  <2>3. queue' = Append(queue, r) => Place(r)' # "outside"
    <3>1. SUFFICES ASSUME queue' = Append(queue, r) PROVE Queued(r)'
      BY DEF Place
    <3>2. queue \in Seq(Requests)
      BY DEF TypeOK
    <3>3. Len(queue') \in 1 .. Len(queue') /\ queue'[Len(queue')] = r
      BY <3>1, <3>2
    <3> QED
      BY <3>3 DEF Queued
  <2>4. status'[r] # 503
    BY <1>4, <2>1 DEF Push
  <2> QED
    BY <2>1, <2>2, <2>3, <2>4
<1>5. CASE Gate(r)
  BY <1>2, <1>3, <1>5 DEF Gate, Push
<1>6. CASE Stamp(r) \/ TallyEnqueue(r)
  BY <1>2, <1>6 DEF Stamp, TallyEnqueue, Push
<1>7. CASE Send(r) \/ Enter(r)
  BY <1>2, <1>7 DEF Send, Enter, Push
<1>8. CASE Leave(r) \/ Record(r) \/ Emit(r) \/ Reply(r)
  BY <1>2, <1>8 DEF Leave, Record, Emit, Reply, Push
<1> QED
  BY <1>4, <1>5, <1>6, <1>7, <1>8 DEF Handler

(* The inductive invariant of the refinement, on top of Custody. *)
Agreement ==
  /\ \A w \in Workers : WriteAgrees(w)
  /\ \A r \in Requests : StatusAgrees(r)

(* The controller and the stuttering step touch no item and no answer. *)
LEMMA OthersStayPut ==
  ASSUME Environment \/ UNCHANGED vars
  PROVE  StaysPut /\ UNCHANGED <<apiPc, status>>
<1>1. UNCHANGED <<queue, hand, table, workerPc, apiPc, status>>
  BY DEF Environment, StartPause, StartRejection, StartLock, StopPause, StopRejection,
         StopLock, vars, redisVars, apiVars, workerVars
<1>2. \A s \in Requests : Queued(s)' <=> Queued(s)
  BY <1>1 DEF Queued
<1> QED
  BY <1>1, <1>2, SamePlace DEF StaysPut

(* A worker answers nobody. *)
LEMMA WorkersDoNotAnswer ==
  ASSUME NEW w \in Workers, Work(w)
  PROVE  UNCHANGED <<apiPc, status>>
BY DEF Work, Register, Check, Pop, Fetch, TallyDequeue, Claim, Mark, Lock, Insert, Unmark,
       RecordWrite, Release, EmitCompletion, apiVars

(* Every step keeps the agreement. *)
LEMMA NextKeepsAgreement ==
  ASSUME TypeOK, Custody, Custody', Agreement, [Next]_vars
  PROVE  Agreement'
<1>1. \A w \in Workers : WriteAgrees(w)'
  BY WriteStaysAgreed DEF Agreement
<1>2. ASSUME NEW s \in Requests,
             apiPc'[s] = apiPc[s], status'[s] = status[s],
             Place(s)' = "outside" <=> Place(s) = "outside"
      PROVE  StatusAgrees(s)'
  BY <1>2 DEF Agreement, StatusAgrees
<1>3. ASSUME NEW r \in Requests, Send(r) \/ Handler(r), NEW s \in Requests
      PROVE  StatusAgrees(s)'
  <2>1. CASE s = r
    BY <1>3, <2>1, HandlerKeepsStatus DEF Agreement
  <2>2. CASE s # r
    <3>1. Place(s)' = Place(s)
      BY <1>3, <2>2, HandlerMoves DEF StaysPut, Moves
    <3> QED
      BY <1>2, <1>3, <2>2, <3>1, HandlerMindsItself
  <2> QED
    BY <2>1, <2>2
<1>4. ASSUME NEW w \in Workers, Work(w), NEW s \in Requests
      PROVE  StatusAgrees(s)'
  <2>1. MovesForward
    BY <1>4, WorkMovesForward DEF Agreement
  <2>2. Place(s)' = "outside" <=> Place(s) = "outside"
    BY <2>1 DEF MovesForward, StaysPut, Moves
  <2> QED
    BY <1>2, <1>4, <2>2, WorkersDoNotAnswer
<1>5. ASSUME Environment \/ UNCHANGED vars, NEW s \in Requests
      PROVE  StatusAgrees(s)'
  BY <1>2, <1>5, OthersStayPut DEF StaysPut
<1> QED
  BY <1>1, <1>3, <1>4, <1>5 DEF Agreement, Next

(* The agreement holds in every reachable state. *)
THEOREM AgreementHolds == Spec => []Agreement
<1>1. Init => Agreement
  <2> SUFFICES ASSUME Init PROVE Agreement
    OBVIOUS
  <2>1. \A r \in Requests : StatusAgrees(r)
    BY DEF Init, StatusAgrees, Early
  <2>2. \A w \in Workers : WriteAgrees(w)
    BY DEF Init, WriteAgrees
  <2> QED
    BY <2>1, <2>2 DEF Agreement
<1>2. TypeOK /\ Custody /\ Custody' /\ Agreement /\ [Next]_vars => Agreement'
  BY NextKeepsAgreement
<1> QED
  BY <1>1, <1>2, TypeCorrect, CustodyHolds, PTL DEF Spec

(* A client that is told 202 has its item in the system, and one that is    *)
(* told 503 has not: no handler pushes after it was rejected, and no worker *)
(* drops an item it popped.                                                 *)
THEOREM AnswersAreTrue == Spec => []AnswersAreTruthful
<1>1. Agreement => AnswersAreTruthful
  BY DEF Agreement, StatusAgrees, AnswersAreTruthful, Early
<1> QED
  BY <1>1, AgreementHolds, PTL

-----------------------------------------------------------------------------
(* Refinement. *)

(* An item that moves while nobody is answered moves in the promise. *)
LEMMA MovesArePromised ==
  ASSUME NEW r \in Requests, NEW from, NEW to, Moves(r, from, to),
         \A s \in Requests : AnswerOf(s)' = AnswerOf(s)
  PROVE  Promise!Move(r, from, to)
BY DEF Moves, Promise!Move

(* An answer of the API is one the promise allows. *)
LEMMA HandlerIsPromised ==
  ASSUME TypeOK, Custody, Agreement, NEW r \in Requests, Send(r) \/ Handler(r)
  PROVE  [Promise!Next]_Promise!vars
<1>1. /\ apiPc \in [Requests -> ApiSteps]
      /\ status \in [Requests -> Statuses]
  BY DEF TypeOK
<1>2. AnswerOf(r) = "none"
  BY DEF Send, Handler, Enter, Gate, Push, Stamp, TallyEnqueue, Leave, Record, Emit, Reply,
         AnswerOf
<1>3. ASSUME NEW s \in Requests, s # r PROVE AnswerOf(s)' = AnswerOf(s)
  <2>1. apiPc'[s] = apiPc[s] /\ status'[s] = status[s]
    BY <1>3, HandlerMindsItself
  <2> QED
    BY <2>1 DEF AnswerOf
<1>4. CASE apiPc'[r] # "answered"
  <2>1. \A s \in Requests : AnswerOf(s)' = AnswerOf(s)
    <3>1. AnswerOf(r)' = "none"
      BY <1>4 DEF AnswerOf
    <3> QED
      BY <1>2, <1>3, <3>1
  <2>2. CASE Moves(r, {"outside"}, "queued")
    BY <1>2, <2>1, <2>2, MovesArePromised DEF Promise!Next, Promise!Enqueue
  <2>3. CASE StaysPut
    BY <2>1, <2>3 DEF StaysPut, Promise!vars
  <2> QED
    BY <2>2, <2>3, HandlerMoves
<1>5. CASE apiPc'[r] = "answered"
  <2>1. Reply(r) /\ status' = status /\ apiPc[r] = "reply"
    BY <1>1, <1>5 DEF Send, Handler, Enter, Gate, Push, Stamp, TallyEnqueue, Leave, Record,
                      Emit, Reply, ApiGoto, apiVars
  <2>2. StaysPut
    BY <2>1, HandlerMoves DEF Reply, Push
  <2>3. /\ status[r] \in {202, 500, 503}
        /\ status[r] = 202 => Place(r) # "outside"
        /\ status[r] = 503 => Place(r) = "outside"
    BY <1>1, <2>1 DEF Agreement, StatusAgrees, Early, Statuses
  <2>4. AnswerOf(r)' = IF status[r] = 202 THEN "accepted"
                       ELSE IF status[r] = 503 THEN "rejected" ELSE "failed"
    BY <1>5, <2>1, <2>3 DEF AnswerOf
  <2>5. \/ AnswerOf(r)' = "accepted" /\ Place(r) # "outside"
        \/ AnswerOf(r)' = "rejected" /\ Place(r) = "outside"
        \/ AnswerOf(r)' = "failed"
    BY <2>3, <2>4
  <2> QED
    BY <1>2, <1>3, <2>2, <2>5 DEF StaysPut, Promise!Next, Promise!Accept, Promise!Reject,
                                  Promise!Fail
<1> QED
  BY <1>4, <1>5

(* The pipeline implements the promise: whatever calls fail, whichever       *)
(* workers die and whatever the controller does, an item only moves forward, *)
(* one at a time, is lost only with the worker that held it, and the answers *)
(* agree with it.                                                            *)
THEOREM PipelineKeepsItsPromise == Spec => ImplementsPromise
<1>1. Init => Promise!Init
  <2> SUFFICES ASSUME Init, NEW r \in Requests
               PROVE  Place(r) = "outside" /\ AnswerOf(r) = "none"
    BY DEF Promise!Init
  <2> QED
    BY NamesAssumption DEF Init, Place, Stored, Queued, Holders, AnswerOf
<1>2. TypeOK /\ Custody /\ Custody' /\ Agreement /\ [Next]_vars
        => [Promise!Next]_Promise!vars
  <2> SUFFICES ASSUME TypeOK, Custody, Custody', Agreement, [Next]_vars
               PROVE  [Promise!Next]_Promise!vars
    OBVIOUS
  <2>1. ASSUME StaysPut, UNCHANGED <<apiPc, status>> PROVE UNCHANGED Promise!vars
    BY <2>1 DEF StaysPut, AnswerOf, Promise!vars
  <2>2. ASSUME NEW w \in Workers, Work(w) PROVE [Promise!Next]_Promise!vars
    <3>1. MovesForward /\ UNCHANGED <<apiPc, status>>
      BY <2>2, WorkMovesForward, WorkersDoNotAnswer DEF Agreement
    <3>2. \A s \in Requests : AnswerOf(s)' = AnswerOf(s)
      BY <3>1 DEF AnswerOf
    <3>3. ASSUME NEW r \in Requests,
                 Moves(r, {"queued"}, "held") \/ Moves(r, {"held"}, "stored")
                   \/ Moves(r, {"queued", "held"}, "lost")
          PROVE  Promise!Next
      BY <3>2, <3>3, MovesArePromised
         DEF Promise!Next, Promise!Take, Promise!Store, Promise!Lose
    <3> QED
      BY <2>1, <3>1, <3>3 DEF MovesForward
  <2> QED
    BY <2>1, <2>2, HandlerIsPromised, OthersStayPut DEF Next
<1> QED
  BY <1>1, <1>2, TypeCorrect, CustodyHolds, AgreementHolds, PTL
     DEF Spec, ImplementsPromise, Promise!Spec

-----------------------------------------------------------------------------
(* The numbers a sampler reads: the in-flight gauge and the counters of the *)
(* COUNTERS hash, which are incremented before or after the work they       *)
(* count, in a call of their own that may fail.                             *)

(* Counting the members of a set that gains or loses one. *)

Indicator(b) == IF b THEN 1 ELSE 0

(* Two finite sets that agree on everything but x have sizes that differ by *)
(* what x contributes.                                                      *)
LEMMA OneDiffers ==
  ASSUME NEW S, NEW T, NEW x, IsFiniteSet(S), IsFiniteSet(T),
         \A y : y # x => (y \in T <=> y \in S)
  PROVE  /\ Cardinality(S) \in Nat /\ Cardinality(T) \in Nat
         /\ Cardinality(T) = Cardinality(S) + Indicator(x \in T) - Indicator(x \in S)
<1>1. Cardinality(S) \in Nat /\ Cardinality(T) \in Nat
  BY FS_CardinalityType
<1>2. CASE x \in T /\ x \notin S
  <2>1. T = S \cup {x}
    BY <1>2
  <2> QED
    BY <1>1, <1>2, <2>1, FS_AddElement DEF Indicator
<1>3. CASE x \notin T /\ x \in S
  <2>1. T = S \ {x}
    BY <1>3
  <2> QED
    BY <1>1, <1>3, <2>1, FS_RemoveElement DEF Indicator
<1>4. CASE x \in T <=> x \in S
  <2>1. T = S
    BY <1>4
  <2> QED
    BY <1>1, <1>4, <2>1 DEF Indicator
<1> QED
  BY <1>1, <1>2, <1>3, <1>4

(* A set of requests or of workers is finite. *)
LEMMA ActorsAreFinite ==
  /\ \A S \in SUBSET Requests : IsFiniteSet(S) /\ Cardinality(S) \in Nat
  /\ \A S \in SUBSET Workers : IsFiniteSet(S) /\ Cardinality(S) \in Nat
BY ActorsAssumption, FS_Subset, FS_CardinalityType

-----------------------------------------------------------------------------
(* The in-flight gauge. *)

(* The handlers between the increment and the decrement. *)
Inside ==
  {r \in Requests : apiPc[r] \in {"gate", "push", "stamp", "tally", "leave"}}

(* A step of the handler of r changes the number of handlers inside by at  *)
(* most one, by what r does.                                               *)
LEMMA InsideCounts ==
  ASSUME TypeOK, NEW r \in Requests, Send(r) \/ Handler(r)
  PROVE  /\ Cardinality(Inside) \in Nat /\ Cardinality(Inside') \in Nat
         /\ Cardinality(Inside') = Cardinality(Inside) + Indicator(r \in Inside')
                                                       - Indicator(r \in Inside)
<1>1. \A y : y # r => (y \in Inside' <=> y \in Inside)
  BY HandlerMindsItself DEF Inside
<1>2. IsFiniteSet(Inside) /\ IsFiniteSet(Inside')
  BY ActorsAreFinite DEF Inside
<1> QED
  BY <1>1, <1>2, OneDiffers

(* A step of a handler keeps the gauge between the handlers inside and those *)
(* plus the failed calls.                                                    *)
LEMMA HandlerKeepsGauge ==
  ASSUME TypeOK, InflightCoversHandlers, NEW r \in Requests, Send(r) \/ Handler(r)
  PROVE  InflightCoversHandlers'
<1> DEFINE n == Cardinality(Inside)
           m == Cardinality(Inside')
<1>1. /\ n \in Nat /\ m \in Nat
      /\ m = n + Indicator(r \in Inside') - Indicator(r \in Inside)
  BY InsideCounts
<1>2. n <= inflight /\ inflight <= n + faults /\ inflight <= peak
  BY DEF InflightCoversHandlers, Inside
<1>3. inflight \in Nat /\ peak \in Nat /\ faults \in Nat /\ apiPc \in [Requests -> ApiSteps]
  BY BoundsAssumption DEF TypeOK
<1>4. SUFFICES m <= inflight' /\ inflight' <= m + faults' /\ inflight' <= peak'
  BY DEF InflightCoversHandlers, Inside
<1> HIDE DEF n, m
<1>5. CASE Enter(r)
  <2>1. r \notin Inside
    BY <1>5 DEF Enter, Inside
  <2>2. CASE Works /\ AddInflight(1) /\ ApiGoto(r, "gate")
    <3>1. r \in Inside'
      BY <1>3, <2>2 DEF ApiGoto, Inside
    <3> QED
      BY <1>1, <1>2, <1>3, <2>1, <2>2, <3>1 DEF Works, AddInflight, Indicator
  <2>3. CASE Breaks /\ MayApply(AddInflight(1), <<inflight, peak>>) /\ ApiGoto(r, "dropped")
    <3>1. r \notin Inside'
      BY <1>3, <2>3 DEF ApiGoto, Inside
    <3> QED
      BY <1>1, <1>2, <1>3, <2>1, <2>3, <3>1 DEF Breaks, MayApply, AddInflight, Indicator
  <2> QED
    BY <1>5, <2>2, <2>3 DEF Enter
<1>6. CASE Leave(r)
  <2>1. r \in Inside /\ r \notin Inside'
    BY <1>3, <1>6 DEF Leave, ApiGoto, Inside
  <2>2. \/ Works /\ AddInflight(-1)
        \/ Breaks /\ MayApply(AddInflight(-1), <<inflight, peak>>)
    BY <1>6 DEF Leave
  <2> QED
    BY <1>1, <1>2, <1>3, <2>1, <2>2 DEF Works, Breaks, MayApply, AddInflight, Indicator
<1>7. CASE ~Enter(r) /\ ~Leave(r)
  <2>1. r \in Inside' <=> r \in Inside
    BY <1>3, <1>7 DEF Send, Handler, Gate, Push, Stamp, TallyEnqueue, Record, Emit, Reply,
                      ApiGoto, Inside
  <2>2. UNCHANGED <<inflight, peak>>
    BY <1>7 DEF Send, Handler, Gate, Push, Stamp, TallyEnqueue, Record, Emit, Reply,
                redisVars
  <2>3. faults <= faults' /\ faults' \in Nat
    BY <1>3, <1>7 DEF Send, Handler, Gate, Push, Stamp, TallyEnqueue, Record, Emit, Reply,
                      Works, Breaks, BreaksTwice
  <2>4. m = n
    <3>1. CASE r \in Inside
      BY <1>1, <2>1, <3>1 DEF Indicator
    <3>2. CASE r \notin Inside
      BY <1>1, <2>1, <3>2 DEF Indicator
    <3> QED
      BY <3>1, <3>2
  <2> QED
    BY <1>1, <1>2, <1>3, <2>2, <2>3, <2>4
<1> QED
  BY <1>5, <1>6, <1>7

(* The gauge a sampler reads never misses a handler that is between its     *)
(* increment and its decrement, and drifts up by no more than one for each  *)
(* failed call; the peak has seen it.  The clamp at zero of INFLIGHT_SCRIPT *)
(* never hides a handler.                                                   *)
THEOREM GaugeCoversHandlers == Spec => []InflightCoversHandlers
<1>1. Init => InflightCoversHandlers
  <2> SUFFICES ASSUME Init PROVE InflightCoversHandlers
    OBVIOUS
  <2>1. Inside = {}
    BY DEF Init, Inside
  <2>2. Cardinality(Inside) = 0
    BY <2>1, FS_EmptySet
  <2>3. inflight = 0 /\ peak = 0 /\ faults = 0
    BY DEF Init
  <2> QED
    BY <2>2, <2>3 DEF InflightCoversHandlers, Inside
<1>2. TypeOK /\ InflightCoversHandlers /\ [Next]_vars => InflightCoversHandlers'
  <2> SUFFICES ASSUME TypeOK, InflightCoversHandlers, [Next]_vars
               PROVE  InflightCoversHandlers'
    OBVIOUS
  <2>1. ASSUME UNCHANGED <<apiPc, inflight, peak>>, faults <= faults', faults' \in Nat
        PROVE  InflightCoversHandlers'
    <3>1. Inside' = Inside /\ Cardinality(Inside) \in Nat
      BY <2>1, ActorsAreFinite DEF Inside
    <3>2. inflight \in Nat /\ faults \in Nat
      BY BoundsAssumption DEF TypeOK
    <3> QED
      BY <2>1, <3>1, <3>2 DEF InflightCoversHandlers, Inside
  <2>2. ASSUME NEW w \in Workers, Work(w) PROVE InflightCoversHandlers'
    <3>1. UNCHANGED <<apiPc, inflight, peak>>
      BY <2>2 DEF Work, Register, Check, Pop, Fetch, TallyDequeue, Claim, Mark, Lock, Insert,
                  Unmark, RecordWrite, Release, EmitCompletion, apiVars, redisVars
    <3>2. faults <= faults' /\ faults' \in Nat
      BY <2>2, BoundsAssumption
         DEF TypeOK, Work, Register, Check, Pop, Fetch, TallyDequeue, Claim, Mark, Lock,
             Insert, Unmark, RecordWrite, Release, EmitCompletion, Works, Breaks, BreaksTwice
    <3> QED
      BY <2>1, <3>1, <3>2
  <2>3. CASE Environment \/ UNCHANGED vars
    <3>1. UNCHANGED <<apiPc, inflight, peak, faults>>
      BY <2>3 DEF Environment, StartPause, StartRejection, StartLock, StopPause,
                  StopRejection, StopLock, vars, apiVars, redisVars
    <3> QED
      BY <2>1, <3>1, BoundsAssumption DEF TypeOK
  <2> QED
    BY <2>2, <2>3, HandlerKeepsGauge DEF Next
<1> QED
  BY <1>1, <1>2, TypeCorrect, PTL DEF Spec

-----------------------------------------------------------------------------
(* The counters and the rows. *)

(* The workers whose next call counts something they have already done, by  *)
(* the counter that is due.  A worker that dies leaves its set and takes its *)
(* slack with it, counted or not.                                            *)
Fetching == {w \in Workers : workerPc[w] \in {"fetch", "tally"}}
Claiming == {w \in Workers : workerPc[w] = "claim"}
Writing == {w \in Workers : workerPc[w] \in {"mark", "lock", "insert"}}
Committed == {w \in Workers : workerPc[w] \in {"unmark", "record"} /\ w \notin writeFailed}
Releasing == {w \in Workers : workerPc[w] = "release"}

(* The handlers that have pushed their item and not counted it. *)
Pushed == {r \in Requests : apiPc[r] \in {"stamp", "tally"} /\ status[r] # 500}

(* The items that are in the system, that left the list, that have a row. *)
Accepted == {r \in Requests : Place(r) # "outside"}
Popped == {r \in Requests : Place(r) \in {"held", "lost", "stored"}}
Rows == {r \in Requests : Stored(r)}

Successes == counters["postgresql_write_count"] - counters["postgresql_write_errors"]
Enqueues == counters["redis_enqueue_count"] - counters["redis_enqueue_errors"]

(* The inductive form of CountersTrailTheWork: a counter and the workers that *)
(* are on their way to it do not exceed the counter or the items before it.   *)
WorkLadder ==
  /\ counters["worker_processed"] + Cardinality(Releasing) <= Successes
  /\ Successes + Cardinality(Committed) <= Cardinality(Rows)
  /\ Cardinality(Rows) + Cardinality(Writing) <= counters["queue_residence_count"]
  /\ counters["queue_residence_count"] + Cardinality(Claiming)
       <= counters["redis_dequeue_count"]
  /\ counters["redis_dequeue_count"] + Cardinality(Fetching) <= Cardinality(Popped)

EnqueueLadder == Enqueues + Cardinality(Pushed) <= Cardinality(Accepted)

(* What a step of worker w does to the number of workers on their way to a  *)
(* counter: only w comes or goes.                                           *)
LEMMA WorkersOnTheWay ==
  ASSUME TypeOK, NEW w \in Workers, Work(w)
  PROVE  /\ Cardinality(Fetching) \in Nat /\ Cardinality(Fetching') \in Nat
         /\ Cardinality(Fetching') = Cardinality(Fetching)
              + Indicator(w \in Fetching') - Indicator(w \in Fetching)
         /\ Cardinality(Claiming) \in Nat /\ Cardinality(Claiming') \in Nat
         /\ Cardinality(Claiming') = Cardinality(Claiming)
              + Indicator(w \in Claiming') - Indicator(w \in Claiming)
         /\ Cardinality(Writing) \in Nat /\ Cardinality(Writing') \in Nat
         /\ Cardinality(Writing') = Cardinality(Writing)
              + Indicator(w \in Writing') - Indicator(w \in Writing)
         /\ Cardinality(Committed) \in Nat /\ Cardinality(Committed') \in Nat
         /\ Cardinality(Committed') = Cardinality(Committed)
              + Indicator(w \in Committed') - Indicator(w \in Committed)
         /\ Cardinality(Releasing) \in Nat /\ Cardinality(Releasing') \in Nat
         /\ Cardinality(Releasing') = Cardinality(Releasing)
              + Indicator(w \in Releasing') - Indicator(w \in Releasing)
<1>1. ASSUME NEW v \in Workers, v # w
      PROVE  workerPc'[v] = workerPc[v] /\ (v \in writeFailed' <=> v \in writeFailed)
  <2>1. workerPc'[v] = workerPc[v]
    BY <1>1, WorkMarksItself
  <2>2. writeFailed' = writeFailed \/ writeFailed' = writeFailed \cup {w}
    BY DEF Work, Register, Check, Pop, Fetch, TallyDequeue, Claim, Mark, Lock,
           TransactionRaises, Insert, Unmark, RecordWrite, Release, EmitCompletion, workerVars
  <2> QED
    BY <1>1, <2>1, <2>2
<1>2. \A y : y # w => /\ y \in Fetching' <=> y \in Fetching
                      /\ y \in Claiming' <=> y \in Claiming
                      /\ y \in Writing' <=> y \in Writing
                      /\ y \in Committed' <=> y \in Committed
                      /\ y \in Releasing' <=> y \in Releasing
  BY <1>1 DEF Fetching, Claiming, Writing, Committed, Releasing
<1>3. /\ IsFiniteSet(Fetching) /\ IsFiniteSet(Fetching')
      /\ IsFiniteSet(Claiming) /\ IsFiniteSet(Claiming')
      /\ IsFiniteSet(Writing) /\ IsFiniteSet(Writing')
      /\ IsFiniteSet(Committed) /\ IsFiniteSet(Committed')
      /\ IsFiniteSet(Releasing) /\ IsFiniteSet(Releasing')
  BY ActorsAreFinite DEF Fetching, Claiming, Writing, Committed, Releasing
<1> QED
  BY <1>2, <1>3, OneDiffers

(* Only the commit adds a row, and only one. *)
LEMMA WorkAddsRows ==
  ASSUME TypeOK, Custody, NEW w \in Workers, Work(w)
  PROVE  /\ Cardinality(Rows) \in Nat /\ Cardinality(Rows') \in Nat
         /\ \/ Cardinality(Rows') = Cardinality(Rows)
            \/ Insert(w) /\ Cardinality(Rows') = Cardinality(Rows) + 1
         /\ Insert(w) /\ w \notin writeFailed' => Cardinality(Rows') = Cardinality(Rows) + 1
<1>1. /\ IsFiniteSet(Rows) /\ IsFiniteSet(Rows')
      /\ Cardinality(Rows) \in Nat /\ Cardinality(Rows') \in Nat
  BY ActorsAreFinite DEF Rows
<1>2. CASE table' = table /\ (Insert(w) => w \in writeFailed')
  <2>1. Rows' = Rows
    BY <1>2 DEF Rows, Stored
  <2> QED
    BY <1>1, <1>2, <2>1
<1>3. CASE Insert(w) /\ table' = [table EXCEPT ![hand[w]] = @ + 1]
  <2>1. workerPc[w] = "insert"
    BY <1>3 DEF Insert
  <2>2. hand[w] \in Requests
    BY <2>1 DEF Custody, HandAgrees, HoldingSteps
  <2>3. table \in [Requests -> Nat] /\ table[hand[w]] # 1 /\ table[hand[w]] \in {0, 1}
    BY <2>1, <2>2 DEF TypeOK, Custody, OnePlace, WrittenSteps
  <2>4. Rows' = Rows \cup {hand[w]} /\ hand[w] \notin Rows
    BY <1>3, <2>2, <2>3 DEF Rows, Stored
  <2> QED
    BY <1>1, <1>3, <2>4, FS_AddElement
<1>4. CASE ~Insert(w)
  <2>1. table' = table
    BY <1>4 DEF Work, Register, Check, Pop, Fetch, TallyDequeue, Claim, Mark, Lock, Unmark,
                RecordWrite, Release, EmitCompletion
  <2> QED
    BY <1>2, <1>4, <2>1
<1>5. CASE Insert(w)
  <2>1. \/ table' = table /\ w \in writeFailed'
        \/ table' = [table EXCEPT ![hand[w]] = @ + 1]
    BY <1>5 DEF Insert, TransactionRaises, MayApply
  <2> QED
    BY <1>2, <1>3, <1>5, <2>1
<1> QED
  BY <1>4, <1>5

(* No step of a worker puts an item back into the list, and the LPOP takes   *)
(* one out of it.                                                            *)
LEMMA WorkAddsPopped ==
  ASSUME TypeOK, Custody, Custody', NEW w \in Workers, WriteAgrees(w), Work(w)
  PROVE  /\ Cardinality(Popped) \in Nat /\ Cardinality(Popped') \in Nat
         /\ Cardinality(Popped) <= Cardinality(Popped')
         /\ Pop(w) /\ Take(w) => Cardinality(Popped) + 1 <= Cardinality(Popped')
<1>1. /\ IsFiniteSet(Popped) /\ IsFiniteSet(Popped')
      /\ Cardinality(Popped) \in Nat /\ Cardinality(Popped') \in Nat
  BY ActorsAreFinite DEF Popped
<1>2. Popped \subseteq Popped'
  BY WorkMovesForward DEF MovesForward, StaysPut, Moves, Popped
<1>3. Cardinality(Popped) <= Cardinality(Popped')
  BY <1>1, <1>2, FS_Subset
<1>4. ASSUME Pop(w), Take(w) PROVE Cardinality(Popped) + 1 <= Cardinality(Popped')
  <2>0. PICK r : r = Head(queue)
    OBVIOUS
  <2>1. queue \in Seq(Requests) /\ queue # <<>> /\ hand \in [Workers -> Requests \cup {Nobody}]
    BY <1>4 DEF Take, TypeOK
  <2>2. r \in Requests /\ Occurs(r, queue)
    BY <2>0, <2>1, TailDistinct DEF Custody
  <2>3. Queued(r) /\ Holders(r) = {} /\ ~Stored(r)
    BY <2>2 DEF Custody, OnePlace, Queued, Occurs, Stored
  <2>4. r \notin Popped
    BY <2>2, <2>3, PlaceReading DEF PlaceOfFree, Popped
  <2>5. hand'[w] = r
    BY <1>4, <2>0, <2>1 DEF Take
  <2>6. PlaceOfHeld'
    BY PlaceReading, PTL
  <2>7. r \in Popped'
    BY <2>2, <2>5, <2>6 DEF PlaceOfHeld, Popped
  <2>8. Popped \cup {r} \subseteq Popped'
    BY <1>2, <2>7
  <2>9. IsFiniteSet(Popped \cup {r}) /\ Cardinality(Popped \cup {r}) = Cardinality(Popped) + 1
    BY <1>1, <2>4, FS_AddElement
  <2> QED
    BY <1>1, <2>8, <2>9, FS_Subset
<1> QED
  BY <1>1, <1>3, <1>4

(* A step of a worker keeps the ladder: it counts what it has done, and what *)
(* it has done only once.                                                    *)
LEMMA WorkKeepsLadder ==
  ASSUME TypeOK, Custody, Custody', WorkLadder, NEW w \in Workers, WriteAgrees(w), Work(w)
  PROVE  WorkLadder'
<1> DEFINE f == Cardinality(Fetching)
           c == Cardinality(Claiming)
           g == Cardinality(Writing)
           m == Cardinality(Committed)
           l == Cardinality(Releasing)
           rows == Cardinality(Rows)
           popped == Cardinality(Popped)
           f1 == Cardinality(Fetching')
           c1 == Cardinality(Claiming')
           g1 == Cardinality(Writing')
           m1 == Cardinality(Committed')
           l1 == Cardinality(Releasing')
           rows1 == Cardinality(Rows')
           popped1 == Cardinality(Popped')
<1>1. /\ f \in Nat /\ f1 \in Nat
      /\ f1 = f + Indicator(w \in Fetching') - Indicator(w \in Fetching)
      /\ c \in Nat /\ c1 \in Nat
      /\ c1 = c + Indicator(w \in Claiming') - Indicator(w \in Claiming)
      /\ g \in Nat /\ g1 \in Nat
      /\ g1 = g + Indicator(w \in Writing') - Indicator(w \in Writing)
      /\ m \in Nat /\ m1 \in Nat
      /\ m1 = m + Indicator(w \in Committed') - Indicator(w \in Committed)
      /\ l \in Nat /\ l1 \in Nat
      /\ l1 = l + Indicator(w \in Releasing') - Indicator(w \in Releasing)
  BY WorkersOnTheWay
<1>2. /\ rows \in Nat /\ rows1 \in Nat
      /\ rows1 = rows \/ (Insert(w) /\ rows1 = rows + 1)
      /\ Insert(w) /\ w \notin writeFailed' => rows1 = rows + 1
  BY WorkAddsRows
<1>3. /\ popped \in Nat /\ popped1 \in Nat /\ popped <= popped1
      /\ Pop(w) /\ Take(w) => popped + 1 <= popped1
  BY WorkAddsPopped
<1>4. /\ counters["worker_processed"] + l <= Successes
      /\ Successes + m <= rows
      /\ rows + g <= counters["queue_residence_count"]
      /\ counters["queue_residence_count"] + c <= counters["redis_dequeue_count"]
      /\ counters["redis_dequeue_count"] + f <= popped
  BY DEF WorkLadder
<1>5. SUFFICES /\ counters'["worker_processed"] + l1 <= Successes'
               /\ Successes' + m1 <= rows1
               /\ rows1 + g1 <= counters'["queue_residence_count"]
               /\ counters'["queue_residence_count"] + c1 <= counters'["redis_dequeue_count"]
               /\ counters'["redis_dequeue_count"] + f1 <= popped1
  BY DEF WorkLadder
<1>6. /\ counters["worker_processed"] \in Nat /\ counters["postgresql_write_count"] \in Nat
      /\ counters["postgresql_write_errors"] \in Nat
      /\ counters["queue_residence_count"] \in Nat /\ counters["redis_dequeue_count"] \in Nat
  BY DEF TypeOK, CounterNames
<1>7. workerPc \in [Workers -> WorkerSteps]
  BY DEF TypeOK
<1> HIDE DEF f, c, g, m, l, rows, popped, f1, c1, g1, m1, l1, rows1, popped1
<1>8. /\ f1 = f + (IF workerPc'[w] \in {"fetch", "tally"} THEN 1 ELSE 0)
              - (IF workerPc[w] \in {"fetch", "tally"} THEN 1 ELSE 0)
      /\ c1 = c + (IF workerPc'[w] = "claim" THEN 1 ELSE 0)
              - (IF workerPc[w] = "claim" THEN 1 ELSE 0)
      /\ g1 = g + (IF workerPc'[w] \in {"mark", "lock", "insert"} THEN 1 ELSE 0)
              - (IF workerPc[w] \in {"mark", "lock", "insert"} THEN 1 ELSE 0)
      /\ m1 = m + (IF workerPc'[w] \in {"unmark", "record"} /\ w \notin writeFailed'
                   THEN 1 ELSE 0)
              - (IF workerPc[w] \in {"unmark", "record"} /\ w \notin writeFailed
                 THEN 1 ELSE 0)
      /\ l1 = l + (IF workerPc'[w] = "release" THEN 1 ELSE 0)
              - (IF workerPc[w] = "release" THEN 1 ELSE 0)
  BY <1>1 DEF Indicator, Fetching, Claiming, Writing, Committed, Releasing
<1> USE DEF Successes
<1>9. CASE TallyDequeue(w)
  <2>1. /\ workerPc[w] = "tally" /\ writeFailed' = writeFailed /\ ~Insert(w)
        /\ \/ workerPc'[w] = "claim" /\ Tally({"redis_dequeue_count"})
           \/ workerPc'[w] = "dead" /\ (Tally({"redis_dequeue_count"}) \/ counters' = counters)
    BY <1>7, <1>9 DEF TallyDequeue, Insert, WorkerGoto, Dies, MayApply
  <2>2. \/ /\ counters'["redis_dequeue_count"] = counters["redis_dequeue_count"] + 1
           /\ \A name \in CounterNames \ {"redis_dequeue_count"} :
                counters'[name] = counters[name]
        \/ workerPc'[w] = "dead" /\ counters' = counters
    BY <2>1 DEF Tally, CounterNames
  <2> QED
    BY <1>1, <1>2, <1>3, <1>4, <1>6, <1>8, <2>1, <2>2
       DEF CounterNames
<1>10. CASE Claim(w)
  <2>1. /\ workerPc[w] = "claim" /\ writeFailed' = writeFailed /\ ~Insert(w)
        /\ \/ workerPc'[w] = "mark" /\ Tally({"queue_residence_count"})
           \/ workerPc'[w] = "dead"
              /\ (Tally({"queue_residence_count"}) \/ counters' = counters)
    BY <1>7, <1>10 DEF Claim, Insert, WorkerGoto, Dies, MayApply
  <2>2. \/ /\ counters'["queue_residence_count"] = counters["queue_residence_count"] + 1
           /\ \A name \in CounterNames \ {"queue_residence_count"} :
                counters'[name] = counters[name]
        \/ workerPc'[w] = "dead" /\ counters' = counters
    BY <2>1 DEF Tally, CounterNames
  <2> QED
    BY <1>1, <1>2, <1>3, <1>4, <1>6, <1>8, <2>1, <2>2
       DEF CounterNames
<1>11. CASE RecordWrite(w)
  <2>1. /\ workerPc[w] = "record" /\ writeFailed' = writeFailed /\ ~Insert(w)
        /\ workerPc'[w] \in {"release", "dead"}
        /\ w \in writeFailed => workerPc'[w] = "dead"
    BY <1>7, <1>11 DEF RecordWrite, Insert, WorkerGoto, Dies
  <2>2. \/ Tally({"postgresql_write_count"}
                 \cup IF w \in writeFailed THEN {"postgresql_write_errors"} ELSE {})
        \/ workerPc'[w] = "dead" /\ counters' = counters
    BY <1>7, <1>11 DEF RecordWrite, MayApply, WorkerGoto, Dies
  <2>3. \/ /\ counters'["postgresql_write_count"] = counters["postgresql_write_count"] + 1
           /\ counters'["postgresql_write_errors"] =
                counters["postgresql_write_errors"] + (IF w \in writeFailed THEN 1 ELSE 0)
           /\ \A name \in CounterNames \ {"postgresql_write_count", "postgresql_write_errors"} :
                counters'[name] = counters[name]
        \/ workerPc'[w] = "dead" /\ counters' = counters
    <3>1. CASE w \in writeFailed
      BY <1>6, <2>2, <3>1 DEF Tally, CounterNames
    <3>2. CASE w \notin writeFailed
      BY <1>6, <2>2, <3>2 DEF Tally, CounterNames
    <3> QED
      BY <3>1, <3>2
  <2> QED
    BY <1>1, <1>2, <1>3, <1>4, <1>6, <1>8, <2>1, <2>3
       DEF CounterNames
<1>12. CASE Release(w)
  <2>1. /\ workerPc[w] = "release" /\ writeFailed' = writeFailed /\ ~Insert(w)
        /\ \/ workerPc'[w] = "emit" /\ Tally({"worker_processed"})
           \/ workerPc'[w] = "dead" /\ (Tally({"worker_processed"}) \/ counters' = counters)
    BY <1>7, <1>12 DEF Release, Insert, WorkerGoto, Dies, MayApply
  <2>2. \/ /\ counters'["worker_processed"] = counters["worker_processed"] + 1
           /\ \A name \in CounterNames \ {"worker_processed"} :
                counters'[name] = counters[name]
        \/ workerPc'[w] = "dead" /\ counters' = counters
    BY <2>1 DEF Tally, CounterNames
  <2> QED
    BY <1>1, <1>2, <1>3, <1>4, <1>6, <1>8, <2>1, <2>2
       DEF CounterNames
<1>13. CASE Pop(w)
  <2>1. /\ workerPc[w] = "pop" /\ writeFailed' = writeFailed /\ ~Insert(w)
        /\ counters' = counters
        /\ \/ workerPc'[w] \in {"register", "dead"}
           \/ workerPc'[w] = "fetch" /\ Take(w)
    BY <1>7, <1>13 DEF Pop, Insert, WorkerGoto, Dies
  <2> QED
    BY <1>1, <1>2, <1>3, <1>4, <1>6, <1>8, <1>13, <2>1
<1>14. CASE Insert(w)
  <2>1. workerPc[w] = "insert" /\ workerPc'[w] = "unmark" /\ counters' = counters
    BY <1>7, <1>14 DEF Insert, TransactionRaises, WorkerGoto, redisVars
  <2> QED
    BY <1>1, <1>2, <1>3, <1>4, <1>6, <1>8, <1>14, <2>1
<1>15. CASE \/ Register(w) \/ Check(w) \/ Fetch(w) \/ Mark(w) \/ Lock(w) \/ Unmark(w)
            \/ EmitCompletion(w)
  <2>1. ~Insert(w)
    BY <1>15 DEF Register, Check, Fetch, Mark, Lock, Unmark, EmitCompletion, Insert
  <2>2. /\ workerPc'[w] \in {"fetch", "tally"} => workerPc[w] \in {"fetch", "tally"}
        /\ workerPc'[w] = "claim" => workerPc[w] = "claim"
        /\ workerPc'[w] \in {"mark", "lock", "insert"} => workerPc[w] \in {"mark", "lock", "insert"}
        /\ workerPc'[w] \in {"unmark", "record"} /\ w \notin writeFailed'
             => workerPc[w] \in {"unmark", "record"} /\ w \notin writeFailed
        /\ workerPc'[w] = "release" => workerPc[w] = "release"
    BY <1>7, <1>15 DEF Register, Check, Fetch, Mark, Lock, Unmark, EmitCompletion,
                       TransactionRaises, WorkerGoto, Dies
  <2>3. f1 <= f /\ c1 <= c /\ g1 <= g /\ m1 <= m /\ l1 <= l
    BY <1>1, <1>8, <2>2
  <2>4. \A name \in CounterNames \ {"telemetry_emit_errors"} : counters'[name] = counters[name]
    BY <1>15 DEF Register, Check, Fetch, Mark, Lock, Unmark, EmitCompletion, Tally, MayApply,
                 redisVars
  <2>5. /\ counters'["worker_processed"] = counters["worker_processed"]
        /\ counters'["postgresql_write_count"] = counters["postgresql_write_count"]
        /\ counters'["postgresql_write_errors"] = counters["postgresql_write_errors"]
        /\ counters'["queue_residence_count"] = counters["queue_residence_count"]
        /\ counters'["redis_dequeue_count"] = counters["redis_dequeue_count"]
    BY <2>4 DEF CounterNames
  <2> QED
    BY <1>1, <1>2, <1>3, <1>4, <1>6, <2>1, <2>3, <2>5
<1> QED
  BY <1>9, <1>10, <1>11, <1>12, <1>13, <1>14, <1>15 DEF Work

(* A step of a handler keeps the enqueue counters behind the accepted items, *)
(* also when the push it counts as an error had been executed.               *)
LEMMA HandlerKeepsEnqueues ==
  ASSUME TypeOK, Custody, EnqueueLadder, NEW r \in Requests, Send(r) \/ Handler(r)
  PROVE  EnqueueLadder'
<1> DEFINE n == Cardinality(Pushed)
           n1 == Cardinality(Pushed')
           a == Cardinality(Accepted)
           a1 == Cardinality(Accepted')
           count == counters["redis_enqueue_count"]
           errors == counters["redis_enqueue_errors"]
<1>1. /\ n \in Nat /\ n1 \in Nat
      /\ n1 = n + Indicator(r \in Pushed') - Indicator(r \in Pushed)
  <2>1. \A y : y # r => (y \in Pushed' <=> y \in Pushed)
    BY HandlerMindsItself DEF Pushed
  <2>2. IsFiniteSet(Pushed) /\ IsFiniteSet(Pushed')
    BY ActorsAreFinite DEF Pushed
  <2> QED
    BY <2>1, <2>2, OneDiffers
<1>2. /\ IsFiniteSet(Accepted) /\ IsFiniteSet(Accepted') /\ a \in Nat /\ a1 \in Nat
  BY ActorsAreFinite DEF Accepted
<1>3. a <= a1
  <2>1. Accepted \subseteq Accepted'
    BY HandlerMoves DEF StaysPut, Moves, Accepted
  <2> QED
    BY <1>2, <2>1, FS_Subset
<1>4. /\ count \in Nat /\ errors \in Nat /\ count - errors + n <= a
      /\ apiPc \in [Requests -> ApiSteps] /\ status \in [Requests -> Statuses]
      /\ queue \in Seq(Requests)
  BY DEF TypeOK, CounterNames, EnqueueLadder, Enqueues
<1>5. SUFFICES count' - errors' + n1 <= a1
  BY DEF EnqueueLadder, Enqueues
<1>6. n1 = n + (IF apiPc'[r] \in {"stamp", "tally"} /\ status'[r] # 500 THEN 1 ELSE 0)
             - (IF apiPc[r] \in {"stamp", "tally"} /\ status[r] # 500 THEN 1 ELSE 0)
  BY <1>1 DEF Indicator, Pushed
<1> HIDE DEF n, n1, a, a1
<1>7. CASE Push(r)
  <2>1. counters' = counters /\ apiPc[r] = "push"
    BY <1>7 DEF Push
  <2>2. CASE queue' = Append(queue, r)
    <3>1. queue' # queue
      BY <1>4, <2>2
    <3>2. r \notin Accepted /\ Accepted \cup {r} \subseteq Accepted'
      BY <3>1, HandlerMoves DEF Moves, Accepted
    <3>3. a + 1 <= a1
      BY <1>2, <3>2, FS_AddElement, FS_Subset DEF a, a1
    <3> QED
      BY <1>1, <1>2, <1>4, <1>6, <2>1, <3>3
  <2>3. CASE queue' # Append(queue, r)
    <3>1. status'[r] = 500
      BY <1>4, <1>7, <2>3 DEF Push, Fails
    <3> QED
      BY <1>1, <1>2, <1>3, <1>4, <1>6, <2>1, <3>1
  <2> QED
    BY <2>2, <2>3
<1>8. CASE Stamp(r)
  <2>1. /\ counters' = counters /\ apiPc[r] = "stamp"
        /\ status'[r] \in {status[r], 500}
    BY <1>4, <1>8 DEF Stamp, Fails, redisVars
  <2> QED
    BY <1>1, <1>2, <1>3, <1>4, <1>6, <2>1
<1>9. CASE TallyEnqueue(r)
  <2>1. /\ apiPc[r] = "tally" /\ apiPc'[r] = "leave"
        /\ \/ Tally({"redis_enqueue_count"}
                    \cup IF status[r] = 500 THEN {"redis_enqueue_errors"} ELSE {})
           \/ counters' = counters
    BY <1>4, <1>9 DEF TallyEnqueue, ApiGoto, MayApply
  <2>2. \/ /\ count' = count + 1
           /\ errors' = errors + (IF status[r] = 500 THEN 1 ELSE 0)
        \/ count' = count /\ errors' = errors
    <3>1. CASE status[r] = 500
      BY <1>4, <2>1, <3>1 DEF Tally, CounterNames
    <3>2. CASE status[r] # 500
      BY <1>4, <2>1, <3>2 DEF Tally, CounterNames
    <3> QED
      BY <3>1, <3>2
  <2> HIDE DEF count, errors
  <2> QED
    BY <1>1, <1>2, <1>3, <1>4, <1>6, <2>1, <2>2
<1>10. CASE \/ Send(r) \/ Enter(r) \/ Gate(r) \/ Leave(r) \/ Record(r) \/ Emit(r)
            \/ Reply(r)
  <2>1. apiPc'[r] \notin {"stamp", "tally"}
    BY <1>4, <1>10 DEF Send, Enter, Gate, Leave, Record, Emit, Reply, ApiGoto
  <2>2. \A name \in {"redis_enqueue_count", "redis_enqueue_errors"} :
          counters'[name] = counters[name]
    BY <1>4, <1>10 DEF Send, Enter, Gate, Leave, Record, Emit, Reply, Tally, MayApply,
                       redisVars, CounterNames
  <2>3. count' = count /\ errors' = errors
    BY <2>2
  <2> HIDE DEF count, errors
  <2> QED
    BY <1>1, <1>2, <1>3, <1>4, <1>6, <2>1, <2>3
<1> QED
  BY <1>7, <1>8, <1>9, <1>10 DEF Handler

(* A step of a handler leaves the workers' part of the ladder as it is. *)
LEMMA HandlerKeepsWork ==
  ASSUME TypeOK, Custody, WorkLadder, NEW r \in Requests, Send(r) \/ Handler(r)
  PROVE  WorkLadder'
<1>1. UNCHANGED <<table, workerPc, writeFailed>>
  BY DEF Send, Handler, Enter, Gate, Push, Stamp, TallyEnqueue, Leave, Record, Emit, Reply,
         workerVars
<1>2. /\ Fetching' = Fetching /\ Claiming' = Claiming /\ Writing' = Writing
      /\ Committed' = Committed /\ Releasing' = Releasing /\ Rows' = Rows
  BY <1>1 DEF Fetching, Claiming, Writing, Committed, Releasing, Rows, Stored
<1>3. Popped' = Popped
  BY HandlerMoves DEF StaysPut, Moves, Popped
<1>4. \A name \in {"worker_processed", "postgresql_write_count", "postgresql_write_errors",
                   "queue_residence_count", "redis_dequeue_count"} :
        counters'[name] = counters[name]
  BY DEF Send, Handler, Enter, Gate, Push, Stamp, TallyEnqueue, Leave, Record, Emit, Reply,
         Tally, MayApply, redisVars, CounterNames
<1> QED
  BY <1>2, <1>3, <1>4 DEF WorkLadder, Successes

(* A step of a worker leaves the handlers' part as it is. *)
LEMMA WorkKeepsEnqueues ==
  ASSUME TypeOK, Custody, Custody', EnqueueLadder, NEW w \in Workers, WriteAgrees(w), Work(w)
  PROVE  EnqueueLadder'
<1>1. Pushed' = Pushed
  BY WorkersDoNotAnswer DEF Pushed
<1>2. Accepted' = Accepted
  BY WorkMovesForward DEF MovesForward, StaysPut, Moves, Accepted
<1>3. \A name \in {"redis_enqueue_count", "redis_enqueue_errors"} :
        counters'[name] = counters[name]
  BY DEF Work, Register, Check, Pop, Fetch, TallyDequeue, Claim, Mark, Lock, Insert, Unmark,
         RecordWrite, Release, EmitCompletion, Tally, MayApply, redisVars, CounterNames
<1> QED
  BY <1>1, <1>2, <1>3 DEF EnqueueLadder, Enqueues

(* The ladder holds in every reachable state. *)
LEMMA LadderHolds == Spec => [](WorkLadder /\ EnqueueLadder)
<1>1. Init => WorkLadder /\ EnqueueLadder
  <2> SUFFICES ASSUME Init PROVE WorkLadder /\ EnqueueLadder
    OBVIOUS
  <2>1. /\ Fetching = {} /\ Claiming = {} /\ Writing = {} /\ Committed = {} /\ Releasing = {}
        /\ Pushed = {} /\ Rows = {}
    BY DEF Init, Fetching, Claiming, Writing, Committed, Releasing, Pushed, Rows, Stored
  <2>2. Cardinality(Popped) \in Nat /\ Cardinality(Accepted) \in Nat
    BY ActorsAreFinite DEF Popped, Accepted
  <2>3. \A name \in CounterNames : counters[name] = 0
    BY DEF Init
  <2> QED
    BY <2>1, <2>2, <2>3, FS_EmptySet
       DEF WorkLadder, EnqueueLadder, Successes, Enqueues, CounterNames
<1>2. TypeOK /\ Custody /\ Custody' /\ Agreement /\ WorkLadder /\ EnqueueLadder /\ [Next]_vars
        => (WorkLadder /\ EnqueueLadder)'
  <2> SUFFICES ASSUME TypeOK, Custody, Custody', Agreement, WorkLadder, EnqueueLadder,
                      [Next]_vars
               PROVE  WorkLadder' /\ EnqueueLadder'
    OBVIOUS
  <2>1. CASE Environment \/ UNCHANGED vars
    <3>1. UNCHANGED <<table, workerPc, writeFailed, counters>>
      BY <2>1 DEF Environment, StartPause, StartRejection, StartLock, StopPause,
                  StopRejection, StopLock, vars, redisVars, workerVars
    <3>2. /\ Fetching' = Fetching /\ Claiming' = Claiming /\ Writing' = Writing
          /\ Committed' = Committed /\ Releasing' = Releasing /\ Rows' = Rows
      BY <3>1 DEF Fetching, Claiming, Writing, Committed, Releasing, Rows, Stored
    <3>3. Popped' = Popped /\ Accepted' = Accepted /\ Pushed' = Pushed
      BY <2>1, OthersStayPut DEF StaysPut, Popped, Accepted, Pushed
    <3> QED
      BY <3>1, <3>2, <3>3 DEF WorkLadder, EnqueueLadder, Successes, Enqueues
  <2>2. ASSUME NEW r \in Requests, Send(r) \/ Handler(r)
        PROVE  WorkLadder' /\ EnqueueLadder'
    BY <2>2, HandlerKeepsWork, HandlerKeepsEnqueues
  <2>3. ASSUME NEW w \in Workers, Work(w)
        PROVE  WorkLadder' /\ EnqueueLadder'
    BY <2>3, WorkKeepsLadder, WorkKeepsEnqueues DEF Agreement
  <2> QED
    BY <2>1, <2>2, <2>3 DEF Next
<1> QED
  BY <1>1, <1>2, TypeCorrect, CustodyHolds, AgreementHolds, PTL DEF Spec

(* A reader of one snapshot of the counters followed by a row count never    *)
(* sees work that was counted but not done, whatever calls fail and whoever  *)
(* dies between the work and its count: every rung of the ladder is counted  *)
(* after the one below it, and the commit lies between two rungs.            *)
THEOREM CountersTrail == Spec => []CountersTrailTheWork
<1>1. TypeOK /\ WorkLadder /\ EnqueueLadder => CountersTrailTheWork
  <2> SUFFICES ASSUME TypeOK, WorkLadder, EnqueueLadder PROVE CountersTrailTheWork
    OBVIOUS
  <2>1. /\ Cardinality(Fetching) \in Nat /\ Cardinality(Claiming) \in Nat
        /\ Cardinality(Writing) \in Nat /\ Cardinality(Committed) \in Nat
        /\ Cardinality(Releasing) \in Nat /\ Cardinality(Pushed) \in Nat
        /\ Cardinality(Rows) \in Nat /\ Cardinality(Popped) \in Nat
        /\ Cardinality(Accepted) \in Nat
    BY ActorsAreFinite DEF Fetching, Claiming, Writing, Committed, Releasing, Pushed, Rows,
                           Popped, Accepted
  <2>2. \A name \in CounterNames : counters[name] \in Nat
    BY DEF TypeOK
  <2>3. /\ counters["worker_processed"] <= Successes
        /\ Successes <= Cardinality(Rows)
        /\ Cardinality(Rows) <= counters["queue_residence_count"]
        /\ counters["queue_residence_count"] <= counters["redis_dequeue_count"]
        /\ counters["redis_dequeue_count"] <= Cardinality(Popped)
        /\ Enqueues <= Cardinality(Accepted)
    BY <2>1, <2>2 DEF WorkLadder, EnqueueLadder, Successes, Enqueues, CounterNames
  <2> QED
    BY <2>3 DEF CountersTrailTheWork, Successes, Enqueues, Rows, Popped, Accepted
<1> QED
  BY <1>1, TypeCorrect, LadderHolds, PTL

-----------------------------------------------------------------------------
(* The traces of the same application and the gate that judges them.       *)
VARIABLES auditApi, auditStatus, enqueueSpan, auditQueue, auditWorker, auditHand, polled,
          auditTable, clock, auditStart, events, spans, auditFaults

Audit == INSTANCE TraceAudit WITH
  apiPc <- auditApi, status <- auditStatus, queue <- auditQueue, workerPc <- auditWorker,
  hand <- auditHand, table <- auditTable, start <- auditStart, faults <- auditFaults

LEMMA SpanNames ==
  /\ Audit!Names = {"api.admission", "redis.enqueue", "queue.residence", "redis.dequeue",
                    "worker.processing", "postgresql.write"}
  /\ Audit!WorkerSpans = {"queue.residence", "redis.dequeue", "worker.processing",
                          "postgresql.write"}
<1>1. DOMAIN Audit!Path = 1 .. 6
  BY DEF Audit!Path
<1>2. 1 .. 6 = {1, 2, 3, 4, 5, 6} /\ 3 .. 6 = {3, 4, 5, 6}
  OBVIOUS
<1>3. /\ Audit!Path[1] = "api.admission" /\ Audit!Path[2] = "redis.enqueue"
      /\ Audit!Path[3] = "queue.residence" /\ Audit!Path[4] = "redis.dequeue"
      /\ Audit!Path[5] = "worker.processing" /\ Audit!Path[6] = "postgresql.write"
  BY DEF Audit!Path
<1>4. Audit!Names = {Audit!Path[i] : i \in {1, 2, 3, 4, 5, 6}}
  BY <1>1, <1>2 DEF Audit!Names
<1>5. Audit!WorkerSpans = {Audit!Path[i] : i \in {3, 4, 5, 6}}
  BY <1>2 DEF Audit!WorkerSpans
<1> QED
  BY <1>3, <1>4, <1>5

(* The module is instantiated with all that it extends. *)
LEMMA AuditTimes ==
  /\ Cardinality(Requests) \in Nat
  /\ Audit!Times = 0 .. Cardinality(Requests)
<1>1. Cardinality(Requests) \in Nat
  BY ActorsAssumption, FS_CardinalityType
<1>2. Audit!Cardinality(Requests) = Cardinality(Requests)
  BY DEF Audit!Cardinality, Cardinality
<1> QED
  BY <1>1, <1>2 DEF Audit!Times

(* The clock is the number of items that were stamped, and no reading of it *)
(* is ahead of it.                                                          *)
AuditStamped == {r \in Requests : auditStart[r]["queue.residence"] > 0}

Clocked ==
  /\ clock = Cardinality(AuditStamped)
  /\ \A r \in Requests, n \in Audit!Names : auditStart[r][n] <= clock
  /\ \A w \in Workers : polled[w] <= clock

(* Restarting one span of one request changes no other reading. *)
LEMMA ReadingSet ==
  ASSUME Audit!TypeOK, NEW r \in Requests, NEW name \in Audit!Names, NEW t \in Audit!Times,
         auditStart' = [auditStart EXCEPT ![r][name] = t]
  PROVE  /\ auditStart' \in [Requests -> [Audit!Names -> Audit!Times]]
         /\ auditStart'[r][name] = t
         /\ \A q \in Requests, n \in Audit!Names :
              q # r \/ n # name => auditStart'[q][n] = auditStart[q][n]
BY DEF Audit!TypeOK

LEMMA TakenSet ==
  ASSUME Audit!TypeOK, NEW r \in Requests, NEW t \in Audit!Times,
         auditStart' = [auditStart EXCEPT ![r] = [@ EXCEPT !["worker.processing"] = t,
                                                          !["postgresql.write"] = t]]
  PROVE  /\ auditStart' \in [Requests -> [Audit!Names -> Audit!Times]]
         /\ auditStart'[r]["worker.processing"] = t /\ auditStart'[r]["postgresql.write"] = t
         /\ \A q \in Requests, n \in Audit!Names :
              q # r \/ n \notin {"worker.processing", "postgresql.write"} =>
                auditStart'[q][n] = auditStart[q][n]
BY SpanNames DEF Audit!TypeOK

(* An item is stamped once: the clock stays within the number of requests. *)
LEMMA StampTicks ==
  ASSUME Audit!TypeOK, Clocked, NEW r \in Requests,
         auditStart[r]["queue.residence"] = 0, clock' = clock + 1,
         auditStart' = [auditStart EXCEPT ![r]["queue.residence"] = clock'],
         polled' = polled
  PROVE  /\ clock' \in Audit!Times /\ clock' > 0
         /\ auditStart' \in [Requests -> [Audit!Names -> Audit!Times]]
         /\ auditStart'[r]["queue.residence"] = clock'
         /\ \A q \in Requests, n \in Audit!Names :
              q # r \/ n # "queue.residence" => auditStart'[q][n] = auditStart[q][n]
         /\ Clocked'
<1>1. /\ clock \in Nat /\ IsFiniteSet(AuditStamped) /\ r \notin AuditStamped
      /\ AuditStamped \cup {r} \subseteq Requests
  BY ActorsAssumption, AuditTimes, FS_Subset DEF Audit!TypeOK, AuditStamped
<1>2. Cardinality(AuditStamped \cup {r}) = clock + 1
  BY <1>1, FS_AddElement DEF Clocked
<1>3. Cardinality(AuditStamped \cup {r}) <= Cardinality(Requests)
  BY <1>1, ActorsAssumption, FS_Subset
<1>4. clock' \in Audit!Times /\ clock' > 0
  BY <1>1, <1>2, <1>3, AuditTimes
<1>5. /\ auditStart' \in [Requests -> [Audit!Names -> Audit!Times]]
      /\ auditStart'[r]["queue.residence"] = clock'
      /\ \A q \in Requests, n \in Audit!Names :
           q # r \/ n # "queue.residence" => auditStart'[q][n] = auditStart[q][n]
  <2>1. "queue.residence" \in Audit!Names
    BY SpanNames
  <2> HIDE DEF Clocked
  <2> QED
    BY <1>4, <2>1 DEF Audit!TypeOK
<1>6. AuditStamped' = AuditStamped \cup {r}
  BY <1>4, <1>5, SpanNames DEF AuditStamped
<1>7. \A q \in Requests, n \in Audit!Names : auditStart[q][n] \in Nat
  BY AuditTimes DEF Audit!TypeOK
<1>8. \A w \in Workers : polled'[w] <= clock'
  BY <1>1, AuditTimes DEF Clocked, Audit!TypeOK
<1>9. \A q \in Requests, n \in Audit!Names : auditStart'[q][n] <= clock'
  BY <1>1, <1>4, <1>5, <1>7 DEF Clocked
<1> QED
  BY <1>1, <1>2, <1>4, <1>5, <1>6, <1>8, <1>9 DEF Clocked

(* Where an item is: not pushed yet, in the list, in a worker's hand, or    *)
(* gone for good.                                                           *)
Unpushed == {"idle", "gate", "push"}
Waits(r) == Occurs(r, auditQueue)
InHand(r) == \E w \in Workers : auditHand[w] = r

(* An item is in the list once or in one hand, and never comes back: what a *)
(* worker has written waits nowhere, and what waits has no row.             *)
Carried ==
  /\ Distinct(auditQueue)
  /\ \A r \in Requests :
       /\ Waits(r) => /\ auditTable[r] = 0 /\ ~InHand(r)
                      /\ auditStart[r]["redis.dequeue"] = 0
       /\ Waits(r) \/ InHand(r) => /\ auditApi[r] \notin Unpushed
                                   /\ auditStart[r]["queue.residence"] > 0
       /\ auditApi[r] \in Unpushed => /\ auditTable[r] = 0
                                      /\ auditStart[r]["redis.dequeue"] = 0
  /\ \A w, v \in Workers : auditHand[w] = auditHand[v] /\ auditHand[w] # Nobody => w = v
  /\ \A w \in Workers :
       /\ auditWorker[w] \in {"poll", "pop"} => auditHand[w] = Nobody
       /\ auditWorker[w] \in {"take", "write"} =>
            auditHand[w] # Nobody /\ auditTable[auditHand[w]] = 0
       /\ auditWorker[w] \in {"finish", "logs", "spans", "missed"} =>
            auditHand[w] # Nobody /\ auditTable[auditHand[w]] = 1

(* A reading of the clock that is not of a stamp. *)
LEMMA ReadingKeepsClock ==
  ASSUME Audit!TypeOK, Clocked, NEW r \in Requests, NEW name \in Audit!Names,
         name # "queue.residence", NEW t \in Audit!Times, t <= clock,
         auditStart' = [auditStart EXCEPT ![r][name] = t], clock' = clock,
         polled' \in [Workers -> Audit!Times], \A w \in Workers : polled'[w] <= clock
  PROVE  Clocked'
<1>1. AuditStamped' = AuditStamped
  BY SpanNames, ReadingSet DEF AuditStamped
<1> QED
  BY <1>1, ReadingSet DEF Clocked

LEMMA TakenKeepsClock ==
  ASSUME Audit!TypeOK, Clocked, NEW r \in Requests, clock' = clock, polled' = polled,
         auditStart' = [auditStart EXCEPT ![r] = [@ EXCEPT !["worker.processing"] = clock,
                                                          !["postgresql.write"] = clock]]
  PROVE  Clocked'
<1>1. clock \in Audit!Times /\ clock <= clock
  BY AuditTimes DEF Audit!TypeOK
<1>2. AuditStamped' = AuditStamped
  BY <1>1, SpanNames, TakenSet DEF AuditStamped
<1>3. \A q \in Requests, n \in Audit!Names :
        auditStart'[q][n] = auditStart[q][n] \/ auditStart'[q][n] = clock
  BY <1>1, TakenSet
<1> QED
  BY <1>1, <1>2, <1>3 DEF Clocked

LEMMA UnreadKeepsClock ==
  ASSUME Clocked, auditStart' = auditStart, clock' = clock, polled' = polled
  PROVE  Clocked'
BY DEF Clocked, AuditStamped

(* The helpers keep the types of what they change. *)
LEMMA AuditFaultType ==
  ASSUME Audit!TypeOK, Audit!Works \/ Audit!Breaks
  PROVE  auditFaults' \in 0 .. MaxFaults
BY BoundsAssumption DEF Audit!TypeOK, Audit!Works, Audit!Breaks

LEMMA AuditApiType ==
  ASSUME Audit!TypeOK, NEW r, NEW step \in Audit!ApiSteps, Audit!ApiGoto(r, step)
  PROVE  auditApi' \in [Requests -> Audit!ApiSteps]
BY DEF Audit!TypeOK, Audit!ApiGoto

LEMMA AuditWorkerType ==
  ASSUME Audit!TypeOK, NEW w, NEW step \in Audit!WorkerSteps, Audit!WorkerGoto(w, step)
  PROVE  auditWorker' \in [Workers -> Audit!WorkerSteps]
BY DEF Audit!TypeOK, Audit!WorkerGoto

(* What every step of a handler and of a worker keeps. *)
LEMMA AuditHandlerBasics ==
  ASSUME Audit!TypeOK, NEW r \in Requests, Audit!Handle(r)
  PROVE  /\ auditFaults' \in 0 .. MaxFaults
         /\ auditApi' \in [Requests -> Audit!ApiSteps]
         /\ auditStatus' \in [Requests -> {202, 500, 503}]
         /\ UNCHANGED <<Audit!workerVars, auditTable>>
<1>1. Audit!Works \/ Audit!Breaks
  BY DEF Audit!Handle, Audit!Enter, Audit!Gate, Audit!Stamp, Audit!Push, Audit!TallyEnqueue,
         Audit!Leave, Audit!PostApiLogs, Audit!PostApiSpans, Audit!Answer
<1>2. \/ auditApi' = auditApi
      \/ \E step \in {"gate", "push", "tally", "leave", "logs", "spans", "missed", "reply",
                      "answered", "dropped"} : Audit!ApiGoto(r, step)
  BY DEF Audit!Handle, Audit!Enter, Audit!Gate, Audit!Stamp, Audit!Push, Audit!TallyEnqueue,
         Audit!Leave, Audit!PostApiLogs, Audit!PostApiSpans, Audit!Answer
<1>3. auditApi' \in [Requests -> Audit!ApiSteps]
  BY <1>2, AuditApiType DEF Audit!ApiSteps, Audit!TypeOK
<1>4. \/ auditStatus' = auditStatus
      \/ \E code \in {500, 503} : auditStatus' = [auditStatus EXCEPT ![r] = code]
  BY DEF Audit!Handle, Audit!Enter, Audit!Gate, Audit!Stamp, Audit!Push, Audit!TallyEnqueue,
         Audit!Leave, Audit!PostApiLogs, Audit!PostApiSpans, Audit!Answer, Audit!Fails
<1>5. auditStatus' \in [Requests -> {202, 500, 503}]
  BY <1>4 DEF Audit!TypeOK
<1>6. UNCHANGED <<Audit!workerVars, auditTable>>
  BY DEF Audit!Handle, Audit!Enter, Audit!Gate, Audit!Stamp, Audit!Push, Audit!TallyEnqueue,
         Audit!Leave, Audit!PostApiLogs, Audit!PostApiSpans, Audit!Answer
<1> QED
  BY <1>1, <1>3, <1>5, <1>6, AuditFaultType

LEMMA AuditWorkBasics ==
  ASSUME Audit!TypeOK, NEW w \in Workers, Audit!Work(w)
  PROVE  /\ auditFaults' \in 0 .. MaxFaults
         /\ auditWorker' \in [Workers -> Audit!WorkerSteps]
         /\ UNCHANGED <<Audit!apiVars, clock>>
<1>1. Audit!Works \/ Audit!Breaks
  BY DEF Audit!Work, Audit!Poll, Audit!Pop, Audit!Take, Audit!Write, Audit!Finish,
         Audit!PostCompletion, Audit!PostWorkerSpans, Audit!CountMissed
<1>2. \E step \in {"poll", "pop", "take", "write", "finish", "logs", "spans", "missed",
                   "dead"} : Audit!WorkerGoto(w, step)
  BY DEF Audit!Work, Audit!Poll, Audit!Pop, Audit!Take, Audit!Write, Audit!Finish,
         Audit!PostCompletion, Audit!PostWorkerSpans, Audit!CountMissed
<1>3. auditWorker' \in [Workers -> Audit!WorkerSteps]
  BY <1>2, AuditWorkerType DEF Audit!WorkerSteps
<1>4. UNCHANGED <<Audit!apiVars, clock>>
  BY DEF Audit!Work, Audit!Poll, Audit!Pop, Audit!Take, Audit!Write, Audit!Finish,
         Audit!PostCompletion, Audit!PostWorkerSpans, Audit!CountMissed
<1> QED
  BY <1>1, <1>3, <1>4, AuditFaultType

(* The steps keep their types and the clock. *)
LEMMA AuditHandlerType ==
  ASSUME Audit!TypeOK, Clocked, NEW r \in Requests, Audit!Handle(r)
  PROVE  Audit!TypeOK' /\ Clocked'
<1>b. /\ auditFaults' \in 0 .. MaxFaults
      /\ auditApi' \in [Requests -> Audit!ApiSteps]
      /\ auditStatus' \in [Requests -> {202, 500, 503}]
      /\ UNCHANGED <<Audit!workerVars, auditTable>>
  BY AuditHandlerBasics
<1>c. /\ polled \in [Workers -> Audit!Times] /\ \A v \in Workers : polled[v] <= clock
      /\ {"api.admission", "redis.enqueue"} \subseteq Audit!Names
  BY SpanNames DEF Audit!TypeOK, Clocked
<1> USE <1>b DEF Audit!Starts, Audit!MayApply, Audit!workerVars,
      Audit!collected
<1>0. clock \in Audit!Times /\ clock <= clock
  BY AuditTimes DEF Audit!TypeOK
<1>1. CASE Audit!Enter(r)
  <2>1. Clocked'
    <3>1. /\ auditStart' = [auditStart EXCEPT ![r]["api.admission"] = clock]
          /\ clock' = clock /\ polled' = polled
      BY <1>1 DEF Audit!Enter
    <3> HIDE <1>b
    <3> QED
      BY <1>0, <1>c, <3>1, ReadingKeepsClock
  <2>2. auditStart' \in [Requests -> [Audit!Names -> Audit!Times]]
    BY <1>0, <1>1, SpanNames, ReadingSet DEF Audit!Enter
  <2> QED
    BY <1>1, <2>1, <2>2 DEF Audit!Enter, Audit!TypeOK
<1>2. CASE Audit!Gate(r)
  <2>1. Clocked'
    BY <1>0, <1>2, <1>c, ReadingKeepsClock, UnreadKeepsClock DEF Audit!Gate
  <2>2. auditStart' \in [Requests -> [Audit!Names -> Audit!Times]]
    BY <1>0, <1>2, SpanNames, ReadingSet DEF Audit!Gate, Audit!TypeOK
  <2> QED
    BY <1>2, <2>1, <2>2 DEF Audit!Gate, Audit!TypeOK
<1>3. CASE Audit!Stamp(r)
  <2>1. CASE Audit!Works /\ clock' = clock + 1
    <3>1. auditStart' = [auditStart EXCEPT ![r]["queue.residence"] = clock']
      BY <1>0, <1>3, <2>1, AuditTimes DEF Audit!Stamp
    <3>2. /\ clock' \in Audit!Times /\ Clocked'
          /\ auditStart' \in [Requests -> [Audit!Names -> Audit!Times]]
      BY <1>3, <2>1, <3>1, StampTicks DEF Audit!Stamp
    <3> QED
      BY <1>3, <2>1, <3>2 DEF Audit!Stamp, Audit!TypeOK
  <2>2. CASE clock' = clock
    BY <1>0, <1>3, <2>2, UnreadKeepsClock, AuditTimes DEF Audit!Stamp, Audit!TypeOK
  <2> QED
    BY <1>3, <2>1, <2>2 DEF Audit!Stamp
<1>4. CASE Audit!Push(r)
  <2>1. Append(auditQueue, r) \in Seq(Requests) /\ auditQueue \in Seq(Requests)
    BY DEF Audit!TypeOK
  <2>2. auditQueue' \in Seq(Requests)
    BY <1>4, <2>1 DEF Audit!Push
  <2> QED
    BY <1>4, <2>2, UnreadKeepsClock DEF Audit!Push, Audit!TypeOK
<1>5. CASE Audit!TallyEnqueue(r) \/ Audit!Leave(r) \/ Audit!Answer(r)
  BY <1>5, UnreadKeepsClock
     DEF Audit!TallyEnqueue, Audit!Leave, Audit!Answer, Audit!TypeOK
<1>6. CASE Audit!PostApiLogs(r)
  BY <1>6, UnreadKeepsClock
     DEF Audit!PostApiLogs, Audit!EmitLog, Audit!EventNames, Audit!TypeOK
<1>7. CASE Audit!PostApiSpans(r)
  BY <1>7, UnreadKeepsClock, SpanNames DEF Audit!PostApiSpans, Audit!EmitSpans, Audit!TypeOK
<1> QED
  BY <1>1, <1>2, <1>3, <1>4, <1>5, <1>6, <1>7 DEF Audit!Handle

LEMMA AuditWorkType ==
  ASSUME Audit!TypeOK, Clocked, Carried, NEW w \in Workers, Audit!Work(w)
  PROVE  Audit!TypeOK' /\ Clocked'
<1>b. /\ auditFaults' \in 0 .. MaxFaults
      /\ auditWorker' \in [Workers -> Audit!WorkerSteps]
      /\ UNCHANGED <<Audit!apiVars, clock>>
  BY AuditWorkBasics
<1> USE <1>b DEF Audit!MayApply, Audit!apiVars, Audit!collected
<1>0. clock \in Audit!Times /\ clock <= clock /\ 0 \in Audit!Times /\ 0 <= clock
  BY AuditTimes DEF Audit!TypeOK
<1>1. CASE Audit!Poll(w)
  <2>0. polled \in [Workers -> Audit!Times] /\ \A v \in Workers : polled[v] <= clock
    BY DEF Audit!TypeOK, Clocked
  <2>1. /\ polled' \in [Workers -> Audit!Times]
        /\ \A v \in Workers : polled'[v] <= clock
    BY <1>0, <1>1, <2>0 DEF Audit!Poll
  <2>2. Clocked'
    BY <1>1, <2>1 DEF Audit!Poll, Clocked, AuditStamped
  <2> QED
    BY <1>1, <2>1, <2>2 DEF Audit!Poll, Audit!TypeOK
<1>2. CASE Audit!Pop(w)
  <2>1. /\ polled' \in [Workers -> Audit!Times]
        /\ \A v \in Workers : polled'[v] <= clock
        /\ polled[w] \in Audit!Times /\ polled[w] <= clock
    BY <1>0, <1>2 DEF Audit!Pop, Audit!TypeOK, Clocked
  <2>2. CASE /\ auditQueue # <<>> /\ auditQueue' = Tail(auditQueue)
             /\ auditHand' = [auditHand EXCEPT ![w] = Head(auditQueue)]
             /\ auditStart' = [auditStart EXCEPT ![Head(auditQueue)]["redis.dequeue"] =
                                                   polled[w]]
    <3>1. Head(auditQueue) \in Requests /\ auditQueue' \in Seq(Requests)
      BY <2>2 DEF Audit!TypeOK
    <3>2. auditStart' \in [Requests -> [Audit!Names -> Audit!Times]]
      BY <2>1, <2>2, <3>1, SpanNames, ReadingSet
    <3>3. Clocked'
      BY <1>2, <2>1, <2>2, <3>1, SpanNames, ReadingKeepsClock DEF Audit!Pop
    <3> QED
      BY <1>2, <2>1, <2>2, <3>1, <3>2, <3>3 DEF Audit!Pop, Audit!TypeOK
  <2>3. CASE auditStart' = auditStart /\ auditHand' = auditHand
    <3>1. auditQueue' \in Seq(Requests)
      <4>1. auditQueue # <<>> => Tail(auditQueue) \in Seq(Requests)
        BY DEF Audit!TypeOK
      <4> QED
        BY <1>2, <2>3, <4>1 DEF Audit!Pop, Audit!TypeOK
    <3>2. Clocked'
      BY <1>2, <2>1, <2>3 DEF Audit!Pop, Clocked, AuditStamped
    <3> QED
      BY <1>2, <2>1, <2>3, <3>1, <3>2 DEF Audit!Pop, Audit!TypeOK
  <2> QED
    BY <1>2, <2>2, <2>3 DEF Audit!Pop
<1>3. CASE Audit!Take(w)
  <2>0. auditHand[w] \in Requests
    BY <1>3 DEF Audit!Take, Carried, Audit!TypeOK
  <2>1. auditStart' \in [Requests -> [Audit!Names -> Audit!Times]]
    BY <1>0, <1>3, <2>0, TakenSet DEF Audit!Take, Audit!TypeOK
  <2>2. Clocked'
    BY <1>3, <2>0, TakenKeepsClock, UnreadKeepsClock DEF Audit!Take
  <2> QED
    BY <1>3, <2>1, <2>2 DEF Audit!Take, Audit!TypeOK
<1>4. CASE Audit!Write(w)
  <2>0. auditHand[w] \in Requests /\ auditTable[auditHand[w]] = 0
    BY <1>4 DEF Audit!Write, Carried, Audit!TypeOK
  <2>1. auditTable' \in [Requests -> {0, 1}]
    BY <1>4, <2>0 DEF Audit!Write, Audit!TypeOK
  <2> QED
    BY <1>4, <2>1, UnreadKeepsClock DEF Audit!Write, Audit!TypeOK
<1>5. CASE Audit!Finish(w) \/ Audit!CountMissed(w)
  BY <1>5, UnreadKeepsClock DEF Audit!Finish, Audit!CountMissed, Audit!TypeOK
<1>6. CASE Audit!PostCompletion(w)
  <2>0. auditHand[w] \in Requests
    BY <1>6 DEF Audit!PostCompletion, Carried, Audit!TypeOK
  <2> QED
    BY <1>6, <2>0, UnreadKeepsClock
       DEF Audit!PostCompletion, Audit!EmitLog, Audit!EventNames, Audit!TypeOK
<1>7. CASE Audit!PostWorkerSpans(w)
  <2>0. auditHand[w] \in Requests /\ Audit!WorkerSpans \subseteq Audit!Names
    BY <1>7, SpanNames DEF Audit!PostWorkerSpans, Carried, Audit!TypeOK
  <2> QED
    BY <1>7, <2>0, UnreadKeepsClock DEF Audit!PostWorkerSpans, Audit!EmitSpans, Audit!TypeOK
<1> QED
  BY <1>1, <1>2, <1>3, <1>4, <1>5, <1>6, <1>7 DEF Audit!Work

(* What a step of a handler moves: the item of its own request, once, and   *)
(* the readings of its own spans.                                           *)
HandlerReadings == {"api.admission", "redis.enqueue", "queue.residence"}

LEMMA AuditHandlerStarts ==
  ASSUME Audit!TypeOK, NEW r \in Requests, Audit!Handle(r)
  PROVE  /\ \A q \in Requests, n \in Audit!Names :
              q # r \/ n \notin HandlerReadings => auditStart'[q][n] = auditStart[q][n]
         /\ \/ auditStart'[r]["queue.residence"] = auditStart[r]["queue.residence"]
            \/ auditStart'[r]["queue.residence"] > 0 /\ Audit!Stamp(r)
<1> USE SpanNames DEF HandlerReadings, Audit!TypeOK, Audit!Starts
<1>1. CASE Audit!Enter(r) \/ Audit!Gate(r)
  BY <1>1 DEF Audit!Enter, Audit!Gate
<1>2. CASE Audit!Stamp(r)
  <2>1. clock + 1 > 0
    BY AuditTimes
  <2> QED
    BY <1>2, <2>1 DEF Audit!Stamp
<1>3. CASE UNCHANGED auditStart
  BY <1>3
<1> QED
  BY <1>1, <1>2, <1>3
     DEF Audit!Handle, Audit!Push, Audit!TallyEnqueue, Audit!Leave, Audit!PostApiLogs,
         Audit!PostApiSpans, Audit!Answer

LEMMA AuditHandlerMoves ==
  ASSUME Audit!TypeOK, NEW r \in Requests, Audit!Handle(r)
  PROVE  /\ \A q \in Requests \ {r} : auditApi'[q] = auditApi[q]
                                      /\ auditStatus'[q] = auditStatus[q]
         /\ auditApi'[r] \in Unpushed => auditApi[r] \in Unpushed
         /\ \/ auditQueue' = auditQueue
            \/ /\ auditQueue' = Append(auditQueue, r) /\ Audit!Push(r)
               /\ auditApi[r] = "push" /\ auditApi'[r] = "tally"
               /\ auditStart[r]["queue.residence"] > 0
<1> USE DEF Audit!TypeOK, Audit!ApiGoto, Audit!Fails, Unpushed
<1>1. CASE Audit!Enter(r) \/ Audit!Gate(r) \/ Audit!Stamp(r)
  BY <1>1 DEF Audit!Enter, Audit!Gate, Audit!Stamp
<1>2. CASE Audit!Push(r)
  BY <1>2 DEF Audit!Push, Audit!MayApply
<1>3. CASE Audit!TallyEnqueue(r) \/ Audit!Leave(r) \/ Audit!Answer(r)
  BY <1>3 DEF Audit!TallyEnqueue, Audit!Leave, Audit!Answer
<1>4. CASE Audit!PostApiLogs(r) \/ Audit!PostApiSpans(r)
  BY <1>4 DEF Audit!PostApiLogs, Audit!PostApiSpans
<1> QED
  BY <1>1, <1>2, <1>3, <1>4 DEF Audit!Handle

LEMMA AuditHandlerCarries ==
  ASSUME Audit!TypeOK, Carried, NEW r \in Requests, Audit!Handle(r)
  PROVE  Carried'
<1>1. /\ auditHand' = auditHand /\ auditWorker' = auditWorker /\ auditTable' = auditTable
      /\ auditQueue \in Seq(Requests)
  BY AuditHandlerBasics DEF Audit!workerVars, Audit!TypeOK
<1>2. \A q \in Requests :
        /\ auditStart'[q]["redis.dequeue"] = auditStart[q]["redis.dequeue"]
        /\ auditStart[q]["queue.residence"] > 0 => auditStart'[q]["queue.residence"] > 0
  BY SpanNames, AuditHandlerStarts DEF HandlerReadings
<1>3. \A q \in Requests : auditApi'[q] \in Unpushed => auditApi[q] \in Unpushed
  BY AuditHandlerMoves
<1>4. \A q : InHand(q)' <=> InHand(q)
  BY <1>1 DEF InHand
<1>5. /\ Distinct(auditQueue')
      /\ \A q \in Requests : Waits(q)' =>
           \/ Waits(q)
           \/ q = r /\ auditApi[r] \in Unpushed /\ auditApi'[r] = "tally"
              /\ auditStart[r]["queue.residence"] > 0
  <2>1. CASE auditQueue' = auditQueue
    BY <2>1 DEF Carried, Waits
  <2>2. CASE auditQueue' # auditQueue
    <3>1. /\ auditQueue' = Append(auditQueue, r)
          /\ auditApi[r] \in Unpushed /\ auditApi'[r] = "tally"
          /\ auditStart[r]["queue.residence"] > 0
      BY <2>2, AuditHandlerMoves DEF Unpushed
    <3>2. ~Occurs(r, auditQueue) /\ Distinct(auditQueue)
      BY <3>1 DEF Carried, Waits
    <3> QED
      BY <1>1, <3>1, <3>2, AppendDistinct DEF Waits
  <2> QED
    BY <2>1, <2>2
<1>6. "tally" \notin Unpushed
  BY DEF Unpushed
<1>7. \A q \in Requests : q # r => auditApi'[q] = auditApi[q]
  BY AuditHandlerMoves
<1>8. \A q \in Requests :
       /\ Waits(q)' => /\ auditTable[q] = 0 /\ ~InHand(q)
                       /\ auditStart[q]["redis.dequeue"] = 0
       /\ Waits(q)' \/ InHand(q)' => /\ auditApi'[q] \notin Unpushed
                                     /\ auditStart'[q]["queue.residence"] > 0
       /\ auditApi'[q] \in Unpushed => /\ auditTable[q] = 0
                                       /\ auditStart[q]["redis.dequeue"] = 0
  BY <1>2, <1>3, <1>4, <1>5, <1>6, <1>7 DEF Carried
<1> QED
  BY <1>1, <1>2, <1>4, <1>5, <1>8 DEF Carried

(* A worker that pops carries the head of the list.                         *)
LEMMA AuditPopCarries ==
  ASSUME Audit!TypeOK, Carried, NEW w \in Workers, auditWorker[w] = "pop",
         auditQueue # <<>>, auditQueue' = Tail(auditQueue),
         auditStart' = [auditStart EXCEPT ![Head(auditQueue)]["redis.dequeue"] = polled[w]],
         auditHand' = [auditHand EXCEPT ![w] = Head(auditQueue)],
         Audit!WorkerGoto(w, "take"), auditApi' = auditApi, auditTable' = auditTable
  PROVE  Carried'
<1>0. PICK r : r = Head(auditQueue)
  OBVIOUS
<1>1. /\ auditQueue \in Seq(Requests) /\ r \in Requests /\ Waits(r)
      /\ Distinct(auditQueue') /\ \A x : Waits(x)' <=> Waits(x) /\ x # r
  BY <1>0, TailDistinct DEF Carried, Waits, Audit!TypeOK
<1>2. /\ auditHand'[w] = r /\ \A v \in Workers : v # w => auditHand'[v] = auditHand[v]
      /\ auditWorker'[w] = "take"
      /\ \A v \in Workers : v # w => auditWorker'[v] = auditWorker[v]
  BY <1>0 DEF Audit!TypeOK, Audit!WorkerGoto
<1>3. \A q \in Requests :
        /\ auditStart'[q]["queue.residence"] = auditStart[q]["queue.residence"]
        /\ q # r => auditStart'[q]["redis.dequeue"] = auditStart[q]["redis.dequeue"]
  BY <1>0, <1>1, SpanNames DEF Audit!TypeOK
<1>4. auditHand[w] = Nobody /\ r # Nobody
  BY <1>1, NamesAssumption DEF Carried
<1>5. \A q \in Requests : InHand(q)' <=> InHand(q) \/ q = r
  BY <1>2, <1>4, NamesAssumption DEF InHand
<1>6. ~InHand(r) /\ auditTable[r] = 0 /\ auditApi[r] \notin Unpushed
  BY <1>1 DEF Carried
<1>7. \A q \in Requests :
       /\ Waits(q)' => /\ auditTable[q] = 0 /\ ~InHand(q)'
                       /\ auditStart'[q]["redis.dequeue"] = 0
       /\ Waits(q)' \/ InHand(q)' => /\ auditApi[q] \notin Unpushed
                                     /\ auditStart'[q]["queue.residence"] > 0
       /\ auditApi[q] \in Unpushed => /\ auditTable[q] = 0
                                      /\ auditStart'[q]["redis.dequeue"] = 0
  BY <1>1, <1>3, <1>5, <1>6 DEF Carried
<1>8. \A u, v \in Workers : auditHand'[u] = auditHand'[v] /\ auditHand'[u] # Nobody => u = v
  BY <1>2, <1>6 DEF Carried, InHand
<1>9. \A v \in Workers :
        /\ auditWorker'[v] \in {"poll", "pop"} => auditHand'[v] = Nobody
        /\ auditWorker'[v] \in {"take", "write"} =>
             auditHand'[v] # Nobody /\ auditTable[auditHand'[v]] = 0
        /\ auditWorker'[v] \in {"finish", "logs", "spans", "missed"} =>
             auditHand'[v] # Nobody /\ auditTable[auditHand'[v]] = 1
  BY <1>2, <1>4, <1>6 DEF Carried
<1> QED
  BY <1>1, <1>7, <1>8, <1>9 DEF Carried

(* A worker that goes on, lets go of its item or dies, and may lose the one *)
(* it popped.                                                               *)
LEMMA AuditRestCarries ==
  ASSUME Audit!TypeOK, Carried, NEW w \in Workers,
         \/ auditQueue' = auditQueue
         \/ auditQueue # <<>> /\ auditQueue' = Tail(auditQueue),
         \A q \in Requests :
           /\ auditStart'[q]["queue.residence"] = auditStart[q]["queue.residence"]
           /\ auditStart'[q]["redis.dequeue"] = auditStart[q]["redis.dequeue"],
         \A v \in Workers : v # w => /\ auditHand'[v] = auditHand[v]
                                     /\ auditWorker'[v] = auditWorker[v],
         \/ auditHand'[w] = Nobody /\ auditWorker'[w] \in {"poll", "pop", "dead"}
         \/ auditHand'[w] = auditHand[w] /\ auditWorker'[w] = "dead"
         \/ /\ auditHand'[w] = auditHand[w] /\ auditWorker[w] = "take"
            /\ auditWorker'[w] = "write"
         \/ /\ auditHand'[w] = auditHand[w]
            /\ auditWorker[w] \in {"finish", "logs", "spans"}
            /\ auditWorker'[w] \in {"finish", "logs", "spans", "missed"},
         auditApi' = auditApi, auditTable' = auditTable
  PROVE  Carried'
<1>0. auditQueue \in Seq(Requests) /\ Distinct(auditQueue)
  BY DEF Carried, Audit!TypeOK
<1>1. Distinct(auditQueue') /\ \A x : Waits(x)' => Waits(x)
  <2>1. CASE auditQueue' = auditQueue
    BY <1>0, <2>1 DEF Waits
  <2>2. CASE auditQueue # <<>> /\ auditQueue' = Tail(auditQueue)
    BY <1>0, <2>2, TailDistinct DEF Waits
  <2> QED
    BY <2>1, <2>2
<1>2. \A q \in Requests : InHand(q)' => InHand(q)
  BY NamesAssumption DEF InHand
<1>3. \A q \in Requests :
       /\ Waits(q)' => /\ auditTable[q] = 0 /\ ~InHand(q)'
                       /\ auditStart'[q]["redis.dequeue"] = 0
       /\ Waits(q)' \/ InHand(q)' => /\ auditApi[q] \notin Unpushed
                                     /\ auditStart'[q]["queue.residence"] > 0
       /\ auditApi[q] \in Unpushed => /\ auditTable[q] = 0
                                      /\ auditStart'[q]["redis.dequeue"] = 0
  BY <1>1, <1>2 DEF Carried
<1>4. \A u, v \in Workers : auditHand'[u] = auditHand'[v] /\ auditHand'[u] # Nobody => u = v
  BY DEF Carried
<1>5. \A v \in Workers :
        /\ auditWorker'[v] \in {"poll", "pop"} => auditHand'[v] = Nobody
        /\ auditWorker'[v] \in {"take", "write"} =>
             auditHand'[v] # Nobody /\ auditTable[auditHand'[v]] = 0
        /\ auditWorker'[v] \in {"finish", "logs", "spans", "missed"} =>
             auditHand'[v] # Nobody /\ auditTable[auditHand'[v]] = 1
  BY DEF Carried
<1> QED
  BY <1>1, <1>3, <1>4, <1>5 DEF Carried

(* A worker that writes adds the row of the item in its hand.               *)
LEMMA AuditWriteCarries ==
  ASSUME Audit!TypeOK, Carried, NEW w \in Workers, auditWorker[w] = "write",
         auditTable' = [auditTable EXCEPT ![auditHand[w]] = @ + 1],
         Audit!WorkerGoto(w, "finish") \/ Audit!WorkerGoto(w, "dead"),
         UNCHANGED <<auditApi, auditQueue, auditHand, auditStart>>
  PROVE  Carried'
<1>0. PICK r : r = auditHand[w]
  OBVIOUS
<1>1. r \in Requests /\ InHand(r) /\ auditTable[r] = 0
  BY <1>0 DEF Carried, InHand, Audit!TypeOK
<1>2. /\ auditTable'[r] = 1
      /\ \A q \in Requests : q # r => auditTable'[q] = auditTable[q]
  BY <1>0, <1>1 DEF Audit!TypeOK
<1>3. /\ auditWorker'[w] \in {"finish", "dead"}
      /\ \A v \in Workers : v # w => auditWorker'[v] = auditWorker[v]
  BY DEF Audit!TypeOK, Audit!WorkerGoto
<1>4. \A q : (Waits(q)' <=> Waits(q)) /\ (InHand(q)' <=> InHand(q))
  BY DEF Waits, InHand
<1>5. \A q \in Requests :
       /\ Waits(q) => q # r
       /\ auditApi[q] \in Unpushed => q # r
  BY <1>1 DEF Carried
<1>6. \A q \in Requests :
       /\ Waits(q) => /\ auditTable'[q] = 0 /\ ~InHand(q)
                       /\ auditStart[q]["redis.dequeue"] = 0
       /\ Waits(q) \/ InHand(q) => /\ auditApi[q] \notin Unpushed
                                     /\ auditStart[q]["queue.residence"] > 0
       /\ auditApi[q] \in Unpushed => /\ auditTable'[q] = 0
                                      /\ auditStart[q]["redis.dequeue"] = 0
  BY <1>2, <1>5 DEF Carried
<1>7. \A v \in Workers : v # w => auditHand[v] # r
  BY <1>0, <1>1, NamesAssumption DEF Carried
<1>8. \A v \in Workers : auditHand[v] # Nobody => auditHand[v] \in Requests
  BY DEF Audit!TypeOK
<1>9. \A v \in Workers :
        /\ auditWorker'[v] \in {"poll", "pop"} => auditHand[v] = Nobody
        /\ auditWorker'[v] \in {"take", "write"} =>
             auditHand[v] # Nobody /\ auditTable'[auditHand[v]] = 0
        /\ auditWorker'[v] \in {"finish", "logs", "spans", "missed"} =>
             auditHand[v] # Nobody /\ auditTable'[auditHand[v]] = 1
  <2> TAKE v \in Workers
  <2>1. CASE v = w
    BY <1>0, <1>1, <1>2, <1>3, <2>1, NamesAssumption
  <2>2. CASE v # w
    BY <1>2, <1>3, <1>7, <1>8, <2>2 DEF Carried
  <2> QED
    BY <2>1, <2>2
<1> QED
  BY <1>4, <1>6, <1>9 DEF Carried

LEMMA AuditWorkCarries ==
  ASSUME Audit!TypeOK, Carried, NEW w \in Workers, Audit!Work(w)
  PROVE  Carried'
<1> USE DEF Audit!MayApply
<1>1. auditApi' = auditApi
  BY AuditWorkBasics DEF Audit!apiVars
<1>2. \A v \in Workers : \A step :
        Audit!WorkerGoto(w, step) =>
          auditWorker'[w] = step /\ (v # w => auditWorker'[v] = auditWorker[v])
  BY DEF Audit!WorkerGoto, Audit!TypeOK
<1>3. CASE Audit!Poll(w)
  BY <1>1, <1>2, <1>3, AuditRestCarries DEF Audit!Poll, Carried
<1>4. CASE Audit!Pop(w)
  <2>1. CASE auditStart' = auditStart /\ auditHand' = auditHand
    <3>1. /\ auditHand[w] = Nobody /\ auditTable' = auditTable
          /\ Audit!WorkerGoto(w, "poll") \/ Audit!WorkerGoto(w, "dead")
                                         \/ Audit!WorkerGoto(w, "take")
          /\ Audit!WorkerGoto(w, "take") => auditHand' # auditHand
      <4>1. auditHand[w] = Nobody
        BY <1>4 DEF Audit!Pop, Carried
      <4>2. auditQueue # <<>> => Head(auditQueue) # Nobody
        BY NamesAssumption DEF Audit!TypeOK
      <4> QED
        BY <1>2, <1>4, <4>1, <4>2 DEF Audit!Pop, Audit!TypeOK
    <3>2. \/ auditQueue' = auditQueue
          \/ auditQueue # <<>> /\ auditQueue' = Tail(auditQueue)
      BY <1>4 DEF Audit!Pop
    <3> QED
      BY <1>1, <1>2, <2>1, <3>1, <3>2, AuditRestCarries
  <2>2. CASE ~(auditStart' = auditStart /\ auditHand' = auditHand)
    BY <1>1, <1>4, <2>2, AuditPopCarries DEF Audit!Pop
  <2> QED
    BY <2>1, <2>2
<1>5. CASE Audit!Take(w)
  <2>1. \A q \in Requests :
           /\ auditStart'[q]["queue.residence"] = auditStart[q]["queue.residence"]
           /\ auditStart'[q]["redis.dequeue"] = auditStart[q]["redis.dequeue"]
    BY <1>5, SpanNames DEF Audit!Take, Audit!TypeOK
  <2>2. /\ auditQueue' = auditQueue /\ auditHand' = auditHand /\ auditTable' = auditTable
        /\ auditWorker[w] = "take"
        /\ Audit!WorkerGoto(w, "write") \/ Audit!WorkerGoto(w, "dead")
    BY <1>5 DEF Audit!Take
  <2> QED
    BY <1>1, <1>2, <2>1, <2>2, AuditRestCarries
<1>6. CASE Audit!Write(w)
  <2>1. CASE auditTable' = auditTable /\ Audit!WorkerGoto(w, "dead")
    BY <1>1, <1>2, <1>6, <2>1, AuditRestCarries DEF Audit!Write
  <2>2. CASE auditTable' = [auditTable EXCEPT ![auditHand[w]] = @ + 1]
    BY <1>1, <1>6, <2>2, AuditWriteCarries DEF Audit!Write
  <2> QED
    BY <1>6, <2>1, <2>2 DEF Audit!Write
<1>7. CASE Audit!Finish(w) \/ Audit!PostCompletion(w)
  BY <1>1, <1>2, <1>7, AuditRestCarries DEF Audit!Finish, Audit!PostCompletion
<1>8. CASE Audit!PostWorkerSpans(w) \/ Audit!CountMissed(w)
  <2>1. \A v \in Workers : v # w => auditHand'[v] = auditHand[v]
    BY <1>8 DEF Audit!PostWorkerSpans, Audit!CountMissed, Audit!TypeOK
  <2>2. \/ auditHand'[w] = Nobody /\ auditWorker'[w] \in {"poll", "dead"}
        \/ /\ auditHand'[w] = auditHand[w]
           /\ auditWorker[w] = "spans" /\ auditWorker'[w] = "missed"
    BY <1>2, <1>8 DEF Audit!PostWorkerSpans, Audit!CountMissed, Audit!TypeOK
  <2>3. auditQueue' = auditQueue /\ auditStart' = auditStart /\ auditTable' = auditTable
    BY <1>8 DEF Audit!PostWorkerSpans, Audit!CountMissed
  <2> QED
    BY <1>1, <1>2, <1>8, <2>1, <2>2, <2>3, AuditRestCarries
       DEF Audit!PostWorkerSpans, Audit!CountMissed
<1> QED
  BY <1>3, <1>4, <1>5, <1>6, <1>7, <1>8 DEF Audit!Work

(* What the events say is so.                                               *)
IsAccepted(r) == <<r, "checkout.accepted">> \in events
IsCompleted(r) == <<r, "checkout.completed">> \in events
Posted == {"spans", "missed", "reply", "answered", "dropped"}

Claims ==
  \A r \in Requests :
    /\ IsAccepted(r) => auditStatus[r] = 202 /\ auditApi[r] \in Posted
    /\ IsCompleted(r) => auditTable[r] = 1

LEMMA AuditHandlerClaims ==
  ASSUME Audit!TypeOK, Claims, NEW r \in Requests, Audit!Handle(r)
  PROVE  /\ \A q \in Requests : IsCompleted(q)' <=> IsCompleted(q)
         /\ Claims'
<1> USE DEF Audit!TypeOK, Audit!ApiGoto
<1>1. \A q \in Requests : IsCompleted(q)' <=> IsCompleted(q)
  BY DEF IsCompleted, Audit!Handle, Audit!Enter, Audit!Gate, Audit!Stamp, Audit!Push,
         Audit!TallyEnqueue, Audit!Leave, Audit!PostApiLogs, Audit!PostApiSpans,
         Audit!Answer, Audit!EmitLog, Audit!EmitSpans, Audit!MayApply, Audit!collected
<1>2. \A q \in Requests \ {r} : IsAccepted(q)' => IsAccepted(q)
  BY DEF IsAccepted, Audit!Handle, Audit!Enter, Audit!Gate, Audit!Stamp, Audit!Push,
         Audit!TallyEnqueue, Audit!Leave, Audit!PostApiLogs, Audit!PostApiSpans,
         Audit!Answer, Audit!EmitLog, Audit!EmitSpans, Audit!MayApply, Audit!collected
<1>3. IsAccepted(r)' => auditStatus'[r] = 202 /\ auditApi'[r] \in Posted
  <2>1. CASE Audit!Enter(r) \/ Audit!Gate(r) \/ Audit!Stamp(r) \/ Audit!Push(r)
    BY <2>1 DEF Claims, IsAccepted, Posted, Audit!Enter, Audit!Gate, Audit!Stamp, Audit!Push,
         Audit!collected
  <2>2. CASE Audit!TallyEnqueue(r) \/ Audit!Leave(r) \/ Audit!Answer(r)
    BY <2>2 DEF Claims, IsAccepted, Posted, Audit!TallyEnqueue, Audit!Leave, Audit!Answer,
         Audit!collected
  <2>3. CASE Audit!PostApiLogs(r)
    BY <2>3 DEF Claims, IsAccepted, Posted, Audit!PostApiLogs, Audit!EmitLog,
         Audit!MayApply, Audit!collected
  <2>4. CASE Audit!PostApiSpans(r)
    BY <2>4 DEF Claims, IsAccepted, Posted, Audit!PostApiSpans, Audit!EmitSpans,
         Audit!MayApply, Audit!collected
  <2> QED
    BY <2>1, <2>2, <2>3, <2>4 DEF Audit!Handle
<1>4. auditTable' = auditTable
  BY AuditHandlerBasics
<1>5. \A q \in Requests \ {r} : auditApi'[q] = auditApi[q] /\ auditStatus'[q] = auditStatus[q]
  BY AuditHandlerMoves
<1> QED
  BY <1>1, <1>2, <1>3, <1>4, <1>5 DEF Claims

(* A worker adds to the events the completion of what it has written.       *)
LEMMA AuditWorkEvents ==
  ASSUME Audit!TypeOK, Carried, NEW w \in Workers, Audit!Work(w)
  PROVE  /\ \A q \in Requests : IsAccepted(q)' <=> IsAccepted(q)
         /\ \A q \in Requests : IsCompleted(q) => IsCompleted(q)'
         /\ \A q \in Requests : IsCompleted(q)' =>
              \/ IsCompleted(q)
              \/ auditWorker[w] = "logs" /\ q = auditHand[w] /\ UNCHANGED auditStart
         /\ \A q \in Requests : auditTable[q] = 1 => auditTable'[q] = 1
<1>1. CASE Audit!PostCompletion(w)
  BY <1>1 DEF Audit!PostCompletion, Audit!EmitLog, Audit!MayApply, Audit!collected,
              IsAccepted, IsCompleted
<1>2. CASE Audit!Write(w)
  <2>1. auditTable[auditHand[w]] = 0 /\ UNCHANGED events
    BY <1>2 DEF Audit!Write, Carried, Audit!collected
  <2> QED
    BY <1>2, <2>1 DEF Audit!Write, Audit!MayApply, Audit!TypeOK, IsAccepted, IsCompleted
<1>3. CASE \/ Audit!Poll(w) \/ Audit!Pop(w) \/ Audit!Take(w) \/ Audit!Finish(w)
           \/ Audit!PostWorkerSpans(w) \/ Audit!CountMissed(w)
  <2>1. UNCHANGED <<events, auditTable>>
    BY <1>3 DEF Audit!Poll, Audit!Pop, Audit!Take, Audit!Finish, Audit!PostWorkerSpans,
         Audit!CountMissed, Audit!EmitSpans, Audit!MayApply, Audit!collected
  <2> QED
    BY <2>1 DEF IsAccepted, IsCompleted
<1> QED
  BY <1>1, <1>2, <1>3 DEF Audit!Work

LEMMA AuditWorkClaims ==
  ASSUME Audit!TypeOK, Carried, Claims, NEW w \in Workers, Audit!Work(w)
  PROVE  Claims'
<1>1. UNCHANGED <<auditApi, auditStatus>>
  BY AuditWorkBasics DEF Audit!apiVars
<1>2. auditWorker[w] = "logs" => auditTable[auditHand[w]] = 1
  BY DEF Carried
<1> QED
  BY <1>1, <1>2, AuditWorkEvents DEF Claims

(* The readings of the clock are in the order of the path, but for the one  *)
(* a worker takes before it pops.                                           *)
Served(r) ==
  /\ auditStart[r]["redis.dequeue"] <= auditStart[r]["worker.processing"]
  /\ auditStart[r]["worker.processing"] <= auditStart[r]["postgresql.write"]

Sent(r) ==
  /\ auditStart[r]["api.admission"] <= auditStart[r]["redis.enqueue"]
  /\ auditStart[r]["redis.enqueue"] <= auditStart[r]["queue.residence"]

Ordered ==
  /\ \A r \in Requests :
       /\ auditApi[r] \in {"idle", "gate"} => auditStart[r]["queue.residence"] = 0
       /\ auditApi[r] = "push" =>
            auditStart[r]["api.admission"] <= auditStart[r]["redis.enqueue"]
       /\ auditStart[r]["queue.residence"] > 0 => Sent(r)
       /\ IsCompleted(r) => auditStart[r]["queue.residence"] > 0 /\ Served(r)
  /\ \A w \in Workers :
       auditWorker[w] \in {"write", "finish", "logs", "spans", "missed"} =>
         Served(auditHand[w])

LEMMA AuditReadings ==
  ASSUME Audit!TypeOK, Clocked
  PROVE  /\ clock \in Nat
         /\ \A r \in Requests, n \in Audit!Names :
              auditStart[r][n] \in Nat /\ auditStart[r][n] <= clock
BY AuditTimes DEF Audit!TypeOK, Clocked

LEMMA AuditHandlerOrders ==
  ASSUME Audit!TypeOK, Clocked, Carried, Claims, Ordered, NEW r \in Requests,
         Audit!Handle(r)
  PROVE  Ordered'
<1>1. /\ auditHand' = auditHand /\ auditWorker' = auditWorker
      /\ \A w \in Workers : auditHand[w] \in Requests \cup {Nobody}
  BY AuditHandlerBasics DEF Audit!workerVars, Audit!TypeOK
<1>2. \A q \in Requests \ {r} : \A n \in Audit!Names :
         auditStart'[q][n] = auditStart[q][n] /\ auditApi'[q] = auditApi[q]
  BY AuditHandlerStarts, AuditHandlerMoves
<1>3. \A q \in Requests : Served(q)' <=> Served(q)
  BY SpanNames, AuditHandlerStarts DEF Served, HandlerReadings
<1>4. \A w \in Workers :
        auditWorker[w] \in {"write", "finish", "logs", "spans", "missed"} =>
          auditHand[w] \in Requests
  BY <1>1 DEF Carried
<1>5. \A w \in Workers :
       auditWorker'[w] \in {"write", "finish", "logs", "spans", "missed"} =>
         Served(auditHand[w])'
  <2> TAKE w \in Workers
  <2>1. auditHand[w] \in Requests => (Served(auditHand[w])' <=> Served(auditHand[w]))
    BY <1>1, <1>3 DEF Served
  <2> QED
    BY <1>1, <1>4, <2>1 DEF Ordered
<1>6. \A q \in Requests : IsCompleted(q)' <=> IsCompleted(q)
  BY AuditHandlerClaims
<1>7. /\ auditApi'[r] \in {"idle", "gate"} => auditStart'[r]["queue.residence"] = 0
      /\ auditApi'[r] = "push" =>
           auditStart'[r]["api.admission"] <= auditStart'[r]["redis.enqueue"]
      /\ auditStart'[r]["queue.residence"] > 0 => Sent(r)'
  <2> USE SpanNames, AuditReadings DEF Audit!TypeOK, Audit!ApiGoto, Audit!Starts, Sent
  <2>1. CASE Audit!Enter(r)
    BY <2>1 DEF Audit!Enter, Ordered
  <2>2. CASE Audit!Gate(r)
    <3>1. /\ auditApi[r] = "gate" /\ auditApi'[r] \in {"push", "leave"}
          /\ auditApi'[r] = "push" => auditStart'[r]["redis.enqueue"] = clock
          /\ auditStart'[r]["queue.residence"] = auditStart[r]["queue.residence"]
          /\ auditStart'[r]["api.admission"] = auditStart[r]["api.admission"]
      BY <2>2 DEF Audit!Gate
    <3>2. auditStart[r]["api.admission"] <= clock /\ auditStart[r]["queue.residence"] = 0
      BY <3>1 DEF Ordered
    <3> QED
      BY <3>1, <3>2
  <2>3. CASE Audit!Stamp(r)
    <3>1. /\ auditApi[r] = "push" /\ auditApi'[r] \in {"push", "tally"}
          /\ \/ auditStart'[r]["queue.residence"] = clock + 1
             \/ auditStart' = auditStart
          /\ auditStart'[r]["redis.enqueue"] = auditStart[r]["redis.enqueue"]
          /\ auditStart'[r]["api.admission"] = auditStart[r]["api.admission"]
      BY <2>3 DEF Audit!Stamp
    <3>2. auditStart[r]["redis.enqueue"] \in Nat /\ auditStart[r]["redis.enqueue"] <= clock
      BY <3>1
    <3>3. auditStart[r]["api.admission"] <= auditStart[r]["redis.enqueue"]
      BY <3>1 DEF Ordered
    <3>4. clock \in Nat
      BY AuditReadings
    <3>5. auditStart[r]["queue.residence"] > 0 => Sent(r)
      BY DEF Ordered
    <3> HIDE DEF Audit!TypeOK, Audit!ApiGoto, Audit!Starts
    <3>6. CASE auditStart'[r]["queue.residence"] = clock + 1
      BY <3>1, <3>2, <3>3, <3>4, <3>6
    <3>7. CASE auditStart' = auditStart
      BY <3>1, <3>3, <3>5, <3>7
    <3> QED
      BY <3>1, <3>6, <3>7
  <2>4. CASE \/ Audit!Push(r) \/ Audit!TallyEnqueue(r) \/ Audit!Leave(r) \/ Audit!Answer(r)
             \/ Audit!PostApiLogs(r) \/ Audit!PostApiSpans(r)
    <3>1. /\ auditStart' = auditStart
          /\ auditApi'[r] \notin {"idle", "gate", "push"}
      BY <2>4 DEF Audit!Push, Audit!TallyEnqueue, Audit!Leave, Audit!Answer,
           Audit!PostApiLogs, Audit!PostApiSpans
    <3> QED
      BY <3>1 DEF Ordered
  <2> QED
    BY <2>1, <2>2, <2>3, <2>4 DEF Audit!Handle
<1>8. auditStart[r]["queue.residence"] > 0 => auditStart'[r]["queue.residence"] > 0
  BY AuditHandlerStarts
<1>9. \A q \in Requests :
       /\ auditApi'[q] \in {"idle", "gate"} => auditStart'[q]["queue.residence"] = 0
       /\ auditApi'[q] = "push" =>
            auditStart'[q]["api.admission"] <= auditStart'[q]["redis.enqueue"]
       /\ auditStart'[q]["queue.residence"] > 0 => Sent(q)'
       /\ IsCompleted(q)' => auditStart'[q]["queue.residence"] > 0 /\ Served(q)'
  <2> TAKE q \in Requests
  <2>1. CASE q = r
    BY <1>3, <1>6, <1>7, <1>8, <2>1 DEF Ordered
  <2>2. CASE q # r
    BY <1>2, <1>3, <1>6, <2>2, SpanNames DEF Ordered, Sent
  <2> QED
    BY <2>1, <2>2
<1> QED
  BY <1>5, <1>9 DEF Ordered

(* A worker that takes its item reads the clock after it polled.            *)
LEMMA AuditTakeServes ==
  ASSUME Audit!TypeOK, Clocked, Carried, NEW w \in Workers, Audit!Take(w),
         NEW r, r = auditHand[w]
  PROVE  /\ auditWorker[w] = "take" /\ r \in Requests /\ auditHand' = auditHand
         /\ \A q \in Requests, n \in Audit!Names :
              q # r \/ n \notin {"worker.processing", "postgresql.write"} =>
                auditStart'[q][n] = auditStart[q][n]
         /\ \/ auditStart' = auditStart /\ auditWorker'[w] = "dead"
            \/ Served(r)'
<1>1. auditWorker[w] = "take" /\ r \in Requests /\ auditHand' = auditHand
  BY DEF Audit!Take, Carried, Audit!TypeOK
<1>2. CASE auditStart' = auditStart /\ auditWorker'[w] = "dead"
  BY <1>1, <1>2
<1>3. CASE auditStart' = [auditStart EXCEPT ![r] = [@ EXCEPT !["worker.processing"] = clock,
                                                            !["postgresql.write"] = clock]]
  <2>1. clock \in Audit!Times
    BY DEF Audit!TypeOK
  <2>2. /\ auditStart'[r]["worker.processing"] = clock
        /\ auditStart'[r]["postgresql.write"] = clock
        /\ \A q \in Requests, n \in Audit!Names :
             q # r \/ n \notin {"worker.processing", "postgresql.write"} =>
               auditStart'[q][n] = auditStart[q][n]
    BY <1>1, <1>3, <2>1, TakenSet
  <2>3. Served(r)'
    BY <1>1, <2>2, AuditReadings, SpanNames DEF Served
  <2> QED
    BY <1>1, <2>2, <2>3
<1> QED
  BY <1>2, <1>3 DEF Audit!Take, Audit!WorkerGoto, Audit!TypeOK

(* What a worker reads again is of an item that is in no other hand and was *)
(* not served yet.                                                          *)
LEMMA AuditWorkOrders ==
  ASSUME Audit!TypeOK, Clocked, Carried, Claims, Ordered, NEW w \in Workers,
         Audit!Work(w)
  PROVE  Ordered'
<1> USE DEF Audit!MayApply
<1>0. Carried' /\ Audit!TypeOK'
  BY AuditWorkCarries, AuditWorkType
<1>1. auditApi' = auditApi
  BY AuditWorkBasics DEF Audit!apiVars
<1>2. /\ \A q \in Requests : \A n \in HandlerReadings :
           auditStart'[q][n] = auditStart[q][n]
      /\ \E r : \A q \in Requests : \A n \in Audit!Names :
           /\ q # r => auditStart'[q][n] = auditStart[q][n]
           /\ \/ auditStart' = auditStart
              \/ auditWorker[w] = "pop" /\ r \in Requests /\ Waits(r)
              \/ /\ auditWorker[w] = "take" /\ r \in Requests /\ r = auditHand[w]
                 /\ Served(r)'
  <2> USE SpanNames DEF HandlerReadings
  <2>1. CASE Audit!Pop(w)
    <3>1. CASE auditStart' = auditStart
      BY <3>1
    <3>2. CASE auditStart' # auditStart
      <4>1. /\ auditWorker[w] = "pop" /\ Head(auditQueue) \in Requests
            /\ Waits(Head(auditQueue))
            /\ auditStart' = [auditStart EXCEPT ![Head(auditQueue)]["redis.dequeue"] =
                                                  polled[w]]
        BY <2>1, <3>2, TailDistinct DEF Audit!Pop, Carried, Waits, Audit!TypeOK
      <4>2. \A q \in Requests : \A n \in Audit!Names :
              q # Head(auditQueue) \/ n # "redis.dequeue" =>
                auditStart'[q][n] = auditStart[q][n]
        BY <4>1 DEF Audit!TypeOK
      <4> QED
        BY <4>1, <4>2
    <3> QED
      BY <3>1, <3>2
  <2>2. CASE Audit!Take(w)
    <3>1. PICK r : r = auditHand[w]
      OBVIOUS
    <3> QED
      BY <2>2, <3>1, AuditTakeServes
  <2>3. CASE \/ Audit!Poll(w) \/ Audit!Write(w) \/ Audit!Finish(w) \/ Audit!PostCompletion(w)
             \/ Audit!PostWorkerSpans(w) \/ Audit!CountMissed(w)
    <3>1. auditStart' = auditStart
      BY <2>3 DEF Audit!Poll, Audit!Write, Audit!Finish, Audit!PostCompletion,
           Audit!PostWorkerSpans, Audit!CountMissed
    <3> QED
      BY <3>1
  <2> QED
    BY <2>1, <2>2, <2>3 DEF Audit!Work
<1>3. PICK r : \A q \in Requests : \A n \in Audit!Names :
           /\ q # r => auditStart'[q][n] = auditStart[q][n]
           /\ \/ auditStart' = auditStart
              \/ auditWorker[w] = "pop" /\ r \in Requests /\ Waits(r)
              \/ /\ auditWorker[w] = "take" /\ r \in Requests /\ r = auditHand[w]
                 /\ Served(r)'
  BY <1>2
<1>4. \A q \in Requests : IsCompleted(q) => (Served(q)' <=> Served(q))
  <2> TAKE q \in Requests
  <2> HAVE IsCompleted(q)
  <2>1. auditTable[q] = 1
    BY DEF Claims
  <2>2. q # r \/ auditStart' = auditStart
    BY <1>3, <2>1, SpanNames DEF Carried
  <2> QED
    BY <1>3, <2>2, SpanNames DEF Served
<1>5. \A v \in Workers : \A q \in Requests :
        v # w /\ q = auditHand[v] => (Served(q)' <=> Served(q))
  <2> TAKE v \in Workers
  <2> TAKE q \in Requests
  <2> HAVE v # w /\ q = auditHand[v]
  <2>1. q # r \/ auditStart' = auditStart
    BY <1>3, SpanNames, NamesAssumption DEF Carried, InHand
  <2> QED
    BY <1>3, <2>1, SpanNames DEF Served
<1>6. \A v \in Workers : v # w => /\ auditHand'[v] = auditHand[v]
                                  /\ auditWorker'[v] = auditWorker[v]
  BY DEF Audit!Work, Audit!Poll, Audit!Pop, Audit!Take, Audit!Write, Audit!Finish,
         Audit!PostCompletion, Audit!PostWorkerSpans, Audit!CountMissed, Audit!WorkerGoto,
         Audit!TypeOK
<1>7. auditWorker'[w] \in {"write", "finish", "logs", "spans", "missed"} =>
        \A q \in Requests : q = auditHand'[w] => Served(q)'
  <2>1. CASE Audit!Poll(w) \/ Audit!Pop(w) \/ Audit!CountMissed(w)
    BY <2>1 DEF Audit!Poll, Audit!Pop, Audit!CountMissed, Audit!WorkerGoto, Audit!TypeOK
  <2>2. CASE Audit!Take(w)
    BY <2>2, AuditTakeServes
  <2>3. CASE Audit!Write(w) \/ Audit!Finish(w) \/ Audit!PostCompletion(w)
             \/ Audit!PostWorkerSpans(w)
    <3>1. /\ auditStart' = auditStart
          /\ auditWorker[w] \in {"write", "finish", "logs", "spans"}
          /\ auditHand'[w] \in {auditHand[w], Nobody}
      BY <2>3 DEF Audit!Write, Audit!Finish, Audit!PostCompletion, Audit!PostWorkerSpans,
           Audit!TypeOK
    <3>2. Served(auditHand[w])
      BY <3>1 DEF Ordered
    <3> QED
      BY <3>1, <3>2, NamesAssumption DEF Served
  <2> QED
    BY <2>1, <2>2, <2>3 DEF Audit!Work
<1>8. \A q \in Requests :
       /\ auditApi'[q] \in {"idle", "gate"} => auditStart'[q]["queue.residence"] = 0
       /\ auditApi'[q] = "push" =>
            auditStart'[q]["api.admission"] <= auditStart'[q]["redis.enqueue"]
       /\ auditStart'[q]["queue.residence"] > 0 => Sent(q)'
       /\ IsCompleted(q)' => auditStart'[q]["queue.residence"] > 0 /\ Served(q)'
  <2> TAKE q \in Requests
  <2>1. /\ auditStart'[q]["queue.residence"] = auditStart[q]["queue.residence"]
        /\ Sent(q)' <=> Sent(q)
        /\ auditApi'[q] = "push" => auditStart'[q]["api.admission"] =
                                      auditStart[q]["api.admission"]
        /\ auditApi'[q] = "push" => auditStart'[q]["redis.enqueue"] =
                                      auditStart[q]["redis.enqueue"]
    BY <1>2 DEF HandlerReadings, Sent
  <2>2. IsCompleted(q)' => auditStart[q]["queue.residence"] > 0 /\ Served(q)'
    <3>1. CASE IsCompleted(q)
      BY <1>4, <3>1 DEF Ordered
    <3>2. CASE /\ auditWorker[w] = "logs" /\ q = auditHand[w] /\ auditStart' = auditStart
      <4>1. Served(q) /\ InHand(q)
        BY <3>2 DEF Ordered, InHand
      <4> QED
        BY <3>2, <4>1 DEF Carried, Served
    <3> QED
      BY <3>1, <3>2, AuditWorkEvents
  <2> QED
    BY <1>1, <2>1, <2>2 DEF Ordered
<1>9. \A v \in Workers :
         auditWorker'[v] \in {"write", "finish", "logs", "spans", "missed"} =>
           Served(auditHand[v])'
  <2> TAKE v \in Workers
  <2> HAVE auditWorker'[v] \in {"write", "finish", "logs", "spans", "missed"}
  <2>1. auditHand'[v] \in Requests
    BY <1>0 DEF Carried, Audit!TypeOK
  <2>2. PICK q \in Requests : q = auditHand'[v]
    BY <2>1
  <2>3. Served(q)'
    BY <1>5, <1>6, <1>7, <2>2 DEF Ordered
  <2> QED
    BY <2>2, <2>3 DEF Served
<1> QED
  BY <1>8, <1>9 DEF Ordered

(* As long as no call broke: the API has posted the spans of what it        *)
(* answered, what it has pushed is in the list or in a hand or done, and a  *)
(* worker's spans are of a request that was pushed.                         *)
HasSpan(r, n) == <<r, n>> \in spans
Reported(r) == \A n \in Audit!WorkerSpans : HasSpan(r, n)
Finished(r) == IsCompleted(r) /\ Reported(r)
Leaving == {"leave", "logs", "spans", "reply", "answered"}
Entered(r) == auditApi[r] \in Leaving \cup {"tally"} /\ auditStatus[r] = 202

CleanRequest(r) ==
  /\ auditApi[r] \in Unpushed \cup Leaving \cup {"tally"}
  /\ auditApi[r] \notin Leaving => auditStatus[r] = 202 /\ r \notin enqueueSpan
  /\ auditApi[r] \in Leaving => (auditStatus[r] = 202 <=> r \in enqueueSpan)
  /\ auditApi[r] \in {"reply", "answered"} =>
       HasSpan(r, "api.admission") /\ (r \in enqueueSpan => HasSpan(r, "redis.enqueue"))
  /\ Entered(r) => Waits(r) \/ InHand(r) \/ Finished(r)
  /\ Waits(r) \/ InHand(r) => auditStatus[r] = 202
  /\ HasSpan(r, "redis.enqueue") => HasSpan(r, "api.admission")
  /\ \A n \in Audit!WorkerSpans : HasSpan(r, n) => Reported(r) /\ Entered(r)

CleanWorker(w) ==
  /\ auditWorker[w] \notin {"missed", "dead"}
  /\ auditWorker[w] = "spans" => IsCompleted(auditHand[w])

Clean == (\A r \in Requests : CleanRequest(r)) /\ (\A w \in Workers : CleanWorker(w))

LEMMA NothingBroke ==
  ASSUME Audit!TypeOK, auditFaults' = 0, Audit!Works \/ Audit!Breaks
  PROVE  auditFaults = 0 /\ ~Audit!Breaks
BY BoundsAssumption DEF Audit!TypeOK, Audit!Works, Audit!Breaks

LEMMA AuditHandlerClean ==
  ASSUME Audit!TypeOK, Carried, Claims, auditFaults' = 0, Clean, NEW r \in Requests,
         Audit!Handle(r)
  PROVE  Clean'
<1>0. ~Audit!Breaks
  BY NothingBroke
     DEF Audit!Handle, Audit!Enter, Audit!Gate, Audit!Stamp, Audit!Push, Audit!TallyEnqueue,
         Audit!Leave, Audit!PostApiLogs, Audit!PostApiSpans, Audit!Answer
<1>1. /\ auditHand' = auditHand /\ auditWorker' = auditWorker
      /\ \A q \in Requests : IsCompleted(q)' <=> IsCompleted(q)
      /\ \A q : InHand(q)' <=> InHand(q)
  BY AuditHandlerBasics, AuditHandlerClaims DEF Audit!workerVars, InHand
<1>2. \A w \in Workers : CleanWorker(w)'
  <2> TAKE w \in Workers
  <2>1. auditWorker[w] = "spans" => auditHand[w] \in Requests
    BY DEF Carried, Audit!TypeOK
  <2>2. auditHand[w] \in Requests => (IsCompleted(auditHand[w])' <=> IsCompleted(auditHand[w]))
    BY <1>1 DEF IsCompleted
  <2> QED
    BY <1>1, <2>1, <2>2 DEF Clean, CleanWorker
<1>3. /\ \A q \in Requests : q # r => (Waits(q)' <=> Waits(q))
      /\ Waits(r) => Waits(r)'
      /\ Waits(r)' => \/ Waits(r)
                      \/ auditApi[r] = "push" /\ auditApi'[r] = "tally"
      /\ Audit!Push(r) => Waits(r)'
  <2>1. auditQueue \in Seq(Requests) /\ Append(auditQueue, r) # auditQueue
    BY DEF Audit!TypeOK
  <2>2. Audit!Push(r) => auditQueue' = Append(auditQueue, r)
    BY <1>0 DEF Audit!Push
  <2>3. CASE auditQueue' = auditQueue
    BY <2>1, <2>2, <2>3 DEF Waits
  <2>4. CASE auditQueue' # auditQueue
    <3>1. /\ auditQueue' = Append(auditQueue, r)
          /\ auditApi[r] = "push" /\ auditApi'[r] = "tally"
      BY <2>4, AuditHandlerMoves
    <3>2. ~Occurs(r, auditQueue) /\ Distinct(auditQueue)
      BY <3>1 DEF Carried, Waits, Unpushed
    <3> QED
      BY <2>1, <3>1, <3>2, AppendDistinct DEF Waits
  <2> QED
    BY <2>3, <2>4
<1>4. \A q \in Requests \ {r} :
        /\ \A n : HasSpan(q, n)' <=> HasSpan(q, n)
        /\ q \in enqueueSpan' <=> q \in enqueueSpan
  BY DEF HasSpan, Audit!Handle, Audit!Enter, Audit!Gate, Audit!Stamp, Audit!Push,
         Audit!TallyEnqueue, Audit!Leave, Audit!PostApiLogs, Audit!PostApiSpans,
         Audit!Answer, Audit!EmitLog, Audit!EmitSpans, Audit!MayApply, Audit!collected
<1>5. \A q \in Requests \ {r} : auditApi'[q] = auditApi[q] /\ auditStatus'[q] = auditStatus[q]
  BY AuditHandlerMoves
<1>6. \A q \in Requests \ {r} : CleanRequest(q)'
  BY <1>1, <1>3, <1>4, <1>5 DEF Clean, CleanRequest, Entered, Finished, Reported
<1>7. CleanRequest(r)'
  <2> USE <1>0, SpanNames DEF Audit!TypeOK, Audit!ApiGoto, Unpushed, Leaving
  <2>0. CleanRequest(r)
    BY DEF Clean
  <2>1. CASE Audit!Enter(r) \/ Audit!Gate(r) \/ Audit!Stamp(r) \/ Audit!Push(r)
    <3>1. /\ UNCHANGED <<spans, enqueueSpan>>
          /\ auditApi[r] \in {"idle", "gate", "push"}
          /\ \/ auditApi'[r] \in {"gate", "push"} /\ auditStatus'[r] = auditStatus[r]
             \/ auditApi'[r] = "leave" /\ auditStatus'[r] = 503 /\ auditApi[r] = "gate"
             \/ /\ auditApi'[r] = "tally" /\ auditStatus'[r] = auditStatus[r]
                /\ Audit!Push(r)
      BY <2>1 DEF Audit!Enter, Audit!Gate, Audit!Stamp, Audit!Push, Audit!collected
    <3>2. \A n : HasSpan(r, n)' <=> HasSpan(r, n)
      BY <3>1 DEF HasSpan
    <3>3. Reported(r)' <=> Reported(r)
      BY <3>2 DEF Reported
    <3>4. /\ auditStatus[r] = 202 /\ r \notin enqueueSpan /\ r \notin enqueueSpan'
          /\ \A n \in Audit!WorkerSpans : ~HasSpan(r, n)
          /\ HasSpan(r, "redis.enqueue") => HasSpan(r, "api.admission")
          /\ ~Waits(r) /\ ~InHand(r)
      BY <2>0, <3>1 DEF CleanRequest, Entered, Carried
    <3>5. Entered(r)' => Waits(r)'
      BY <1>3, <3>1 DEF Entered
    <3>6. Waits(r)' => auditApi'[r] = "tally"
      BY <1>3, <3>4
    <3> QED
      BY <1>1, <3>1, <3>2, <3>3, <3>4, <3>5, <3>6 DEF CleanRequest
  <2>2. CASE Audit!TallyEnqueue(r) \/ Audit!Leave(r) \/ Audit!Answer(r) \/ Audit!PostApiLogs(r)
    <3>1. /\ UNCHANGED <<spans, auditStatus>>
          /\ \/ auditApi[r] = "tally" /\ auditApi'[r] = "leave" /\ r \in enqueueSpan'
             \/ /\ auditApi[r] \in {"leave", "logs"} /\ auditApi'[r] \in {"logs", "spans"}
                /\ enqueueSpan' = enqueueSpan
             \/ /\ auditApi[r] \in {"reply", "missed"} /\ enqueueSpan' = enqueueSpan
                /\ auditApi[r] = "reply" => auditApi'[r] = "answered"
      BY <2>2 DEF Audit!TallyEnqueue, Audit!Leave, Audit!Answer, Audit!PostApiLogs,
                  Audit!EmitLog, Audit!collected
    <3> QED
      BY <1>1, <1>3, <2>0, <3>1 DEF CleanRequest, Entered, Finished, Reported, HasSpan
  <2>3. CASE Audit!PostApiSpans(r)
    <3>1. /\ UNCHANGED <<auditStatus, enqueueSpan>>
          /\ auditApi[r] = "spans" /\ auditApi'[r] = "reply"
          /\ HasSpan(r, "api.admission")'
          /\ r \in enqueueSpan => HasSpan(r, "redis.enqueue")'
          /\ \A n \in Audit!WorkerSpans : HasSpan(r, n)' <=> HasSpan(r, n)
      BY <2>3 DEF Audit!PostApiSpans, Audit!EmitSpans, HasSpan
    <3> QED
      BY <1>1, <1>3, <2>0, <3>1 DEF CleanRequest, Entered, Finished, Reported
  <2> QED
    BY <2>1, <2>2, <2>3 DEF Audit!Handle
<1> QED
  BY <1>2, <1>6, <1>7 DEF Clean

LEMMA AuditWorkClean ==
  ASSUME Audit!TypeOK, Carried, Claims, auditFaults' = 0, Clean, NEW w \in Workers,
         Audit!Work(w)
  PROVE  Clean'
<1>0. ~Audit!Breaks
  BY NothingBroke
     DEF Audit!Work, Audit!Poll, Audit!Pop, Audit!Take, Audit!Write, Audit!Finish,
         Audit!PostCompletion, Audit!PostWorkerSpans, Audit!CountMissed
<1>1. UNCHANGED <<auditApi, auditStatus, enqueueSpan>>
  BY AuditWorkBasics DEF Audit!apiVars
<1>2. auditWorker[w] # "missed"
  BY DEF Clean, CleanWorker
<1>3. \A v \in Workers : v # w => /\ auditHand'[v] = auditHand[v]
                                  /\ auditWorker'[v] = auditWorker[v]
  BY DEF Audit!Work, Audit!Poll, Audit!Pop, Audit!Take, Audit!Write, Audit!Finish,
         Audit!PostCompletion, Audit!PostWorkerSpans, Audit!CountMissed, Audit!WorkerGoto,
         Audit!TypeOK
<1>4. /\ auditWorker'[w] \notin {"missed", "dead"}
      /\ auditWorker'[w] = "spans" => IsCompleted(auditHand[w])' /\ auditHand'[w] = auditHand[w]
  BY <1>0, <1>2 DEF Audit!Work, Audit!Poll, Audit!Pop, Audit!Take, Audit!Write, Audit!Finish,
         Audit!PostCompletion, Audit!PostWorkerSpans, Audit!CountMissed, Audit!WorkerGoto,
         Audit!EmitLog, Audit!TypeOK, IsCompleted
<1>5. \A q \in Requests : IsCompleted(q) => IsCompleted(q)'
  BY AuditWorkEvents
<1>6. \A v \in Workers : CleanWorker(v)'
  <2> TAKE v \in Workers
  <2>1. CASE v = w
    BY <1>4, <2>1 DEF CleanWorker, IsCompleted
  <2>2. CASE v # w
    <3>1. auditWorker[v] = "spans" => auditHand[v] \in Requests
      BY DEF Carried, Audit!TypeOK
    <3>2. auditHand[v] \in Requests /\ IsCompleted(auditHand[v]) => IsCompleted(auditHand[v])'
      BY <1>3, <1>5, <2>2 DEF IsCompleted
    <3> QED
      BY <1>3, <2>2, <3>1, <3>2 DEF Clean, CleanWorker, IsCompleted
  <2> QED
    BY <2>1, <2>2
<1>7. CASE Audit!PostWorkerSpans(w)
  <2>1. PICK r : r = auditHand[w]
    OBVIOUS
  <2>2. /\ r \in Requests /\ InHand(r) /\ IsCompleted(r)
        /\ auditApi[r] \notin Unpushed
    BY <1>7, <2>1 DEF Audit!PostWorkerSpans, Carried, Clean, CleanWorker, InHand,
         Audit!TypeOK
  <2>3. /\ auditHand'[w] = Nobody /\ UNCHANGED <<auditQueue, events>>
        /\ \A q, n : HasSpan(q, n)' <=>
             HasSpan(q, n) \/ (q = r /\ n \in Audit!WorkerSpans)
    BY <1>0, <1>7, <2>1 DEF Audit!PostWorkerSpans, Audit!EmitSpans, Audit!WorkerGoto, HasSpan,
         Audit!TypeOK
  <2>4. \A q \in Requests : /\ Waits(q)' <=> Waits(q)
                            /\ InHand(q) => InHand(q)' \/ q = r
                            /\ InHand(q)' => InHand(q)
                            /\ IsCompleted(q)' <=> IsCompleted(q)
    BY <1>3, <2>1, <2>3, NamesAssumption DEF Waits, InHand, IsCompleted
  <2>5. Reported(r)' /\ Finished(r)'
    BY <2>2, <2>3 DEF Reported, Finished, IsCompleted
  <2>6. CleanRequest(r)'
    <3>1. CleanRequest(r)
      BY <2>2 DEF Clean
    <3>2. Entered(r)
      BY <2>2, <3>1 DEF CleanRequest, Entered
    <3> QED
      BY <1>1, <2>2, <2>3, <2>4, <2>5, <3>1, <3>2, SpanNames DEF CleanRequest, Entered
  <2>7. \A q \in Requests : q # r => CleanRequest(q)'
    BY <1>1, <2>3, <2>4 DEF Clean, CleanRequest, Entered, Finished, Reported
  <2> QED
    BY <1>6, <2>6, <2>7 DEF Clean
<1>8. CASE ~Audit!PostWorkerSpans(w)
  <2>1. spans' = spans
    BY <1>8 DEF Audit!Work, Audit!Poll, Audit!Pop, Audit!Take, Audit!Write, Audit!Finish,
         Audit!PostCompletion, Audit!CountMissed, Audit!EmitLog, Audit!MayApply,
         Audit!collected
  <2>2. \A q \in Requests :
          /\ Waits(q) \/ InHand(q) => Waits(q)' \/ InHand(q)'
          /\ Waits(q)' \/ InHand(q)' => Waits(q) \/ InHand(q)
    <3>1. CASE Audit!Pop(w) /\ auditQueue # <<>>
      <4>1. /\ auditQueue' = Tail(auditQueue)
            /\ auditHand' = [auditHand EXCEPT ![w] = Head(auditQueue)]
            /\ auditHand[w] = Nobody
        BY <1>0, <3>1 DEF Audit!Pop, Carried
      <4>2. PICK r : r = Head(auditQueue)
        OBVIOUS
      <4>3. Waits(r) /\ \A x : Waits(x)' <=> Waits(x) /\ x # r
        BY <3>1, <4>1, <4>2, TailDistinct DEF Carried, Waits, Audit!TypeOK
      <4>4. \A q \in Requests : InHand(q)' <=> InHand(q) \/ q = r
        BY <4>1, <4>2, NamesAssumption DEF InHand, Audit!TypeOK
      <4> QED
        BY <4>3, <4>4
    <3>2. CASE ~(Audit!Pop(w) /\ auditQueue # <<>>)
      <4>1. UNCHANGED <<auditQueue, auditHand>>
        BY <1>0, <1>2, <1>8, <3>2
           DEF Audit!Work, Audit!Poll, Audit!Pop, Audit!Take, Audit!Write, Audit!Finish,
               Audit!PostCompletion, Audit!CountMissed
      <4> QED
        BY <4>1 DEF Waits, InHand
    <3> QED
      BY <3>1, <3>2
  <2>3. \A q \in Requests :
          /\ \A n : HasSpan(q, n)' <=> HasSpan(q, n)
          /\ Reported(q)' <=> Reported(q)
          /\ Entered(q)' <=> Entered(q)
          /\ Finished(q) => Finished(q)'
    BY <1>1, <1>5, <2>1 DEF Entered, Finished, Reported, HasSpan
  <2>4. ASSUME NEW q \in Requests PROVE CleanRequest(q)'
    <3>1. CleanRequest(q)
      BY DEF Clean
    <3> QED
      BY <1>1, <2>2, <2>3, <3>1 DEF CleanRequest
  <2> QED
    BY <1>6, <2>4 DEF Clean
<1> QED
  BY <1>7, <1>8

-----------------------------------------------------------------------------
(* What every state of a behaviour of the traces satisfies.                 *)
AuditInv ==
  /\ Audit!TypeOK /\ Clocked /\ Carried /\ Claims /\ Ordered
  /\ auditFaults = 0 => Clean

LEMMA AuditInitially ==
  ASSUME Audit!Init
  PROVE  AuditInv
<1> USE DEF Audit!Init
<1>1. 0 \in Audit!Times /\ 0 \in 0 .. MaxFaults
  BY AuditTimes, BoundsAssumption
<1>2. <<>> \in Seq(Requests) /\ Len(<<>>) = 0 /\ \A e : ~Occurs(e, <<>>)
  BY DEF Occurs
<1>3. Audit!TypeOK
  BY <1>1, <1>2 DEF Audit!TypeOK, Audit!ApiSteps, Audit!WorkerSteps
<1>4. \A r \in Requests, n \in Audit!Names : auditStart[r][n] = 0
  OBVIOUS
<1>5. AuditStamped = {}
  BY <1>4, SpanNames DEF AuditStamped
<1>6. Clocked
  BY <1>4, <1>5, FS_EmptySet DEF Clocked
<1>7. /\ \A r \in Requests : ~Waits(r) /\ ~InHand(r)
      /\ Distinct(auditQueue)
  BY <1>2, NamesAssumption DEF Waits, InHand, Distinct
<1>8. Carried
  BY <1>4, <1>7, SpanNames DEF Carried
<1>9. Claims
  BY DEF Claims, IsAccepted, IsCompleted
<1>10. Ordered
  BY <1>4, SpanNames DEF Ordered, IsCompleted
<1>11. Clean
  BY <1>7 DEF Clean, CleanRequest, CleanWorker, HasSpan, Entered, Unpushed, Leaving
<1> QED
  BY <1>3, <1>6, <1>8, <1>9, <1>10, <1>11 DEF AuditInv

LEMMA AuditStep ==
  ASSUME AuditInv, [Audit!Next]_(Audit!vars)
  PROVE  AuditInv'
<1> USE DEF AuditInv
<1>1. CASE UNCHANGED Audit!vars
  <2>1. /\ UNCHANGED <<auditApi, auditStatus, enqueueSpan, auditQueue, auditWorker, auditHand>>
        /\ UNCHANGED <<polled, auditTable, clock, auditStart, events, spans, auditFaults>>
    BY <1>1 DEF Audit!vars, Audit!apiVars, Audit!workerVars, Audit!collected
  <2>2. Audit!TypeOK'
    BY <2>1 DEF Audit!TypeOK
  <2>3. Clocked'
    BY <2>1 DEF Clocked, AuditStamped
  <2>4. Carried'
    BY <2>1 DEF Carried, Waits, InHand
  <2>5. Claims' /\ Ordered'
    BY <2>1 DEF Claims, Ordered, Sent, Served, IsAccepted, IsCompleted
  <2>6. Clean => Clean'
    BY <2>1 DEF Clean, CleanRequest, CleanWorker, Entered, Finished, Reported, HasSpan, Waits,
         InHand, IsCompleted
  <2> QED
    BY <2>1, <2>2, <2>3, <2>4, <2>5, <2>6
<1>2. ASSUME NEW r \in Requests, Audit!Handle(r) PROVE AuditInv'
  <2>1. auditFaults' = 0 => auditFaults = 0
    BY <1>2, NothingBroke
       DEF Audit!Handle, Audit!Enter, Audit!Gate, Audit!Stamp, Audit!Push,
           Audit!TallyEnqueue, Audit!Leave, Audit!PostApiLogs, Audit!PostApiSpans,
           Audit!Answer
  <2> QED
    BY <1>2, <2>1, AuditHandlerType, AuditHandlerCarries, AuditHandlerClaims,
       AuditHandlerOrders, AuditHandlerClean
<1>3. ASSUME NEW w \in Workers, Audit!Work(w) PROVE AuditInv'
  <2>1. auditFaults' = 0 => auditFaults = 0
    BY <1>3, NothingBroke
       DEF Audit!Work, Audit!Poll, Audit!Pop, Audit!Take, Audit!Write, Audit!Finish,
           Audit!PostCompletion, Audit!PostWorkerSpans, Audit!CountMissed
  <2> QED
    BY <1>3, <2>1, AuditWorkType, AuditWorkCarries, AuditWorkClaims, AuditWorkOrders,
       AuditWorkClean
<1> QED
  BY <1>1, <1>2, <1>3 DEF Audit!Next

LEMMA AuditInvHolds == Audit!Spec => []AuditInv
BY AuditInitially, AuditStep, PTL DEF Audit!Spec

(* The variables of the trace model keep their types.                       *)
THEOREM TracesTypeCorrect == Audit!Spec => []Audit!TypeOK
<1>1. AuditInv => Audit!TypeOK
  BY DEF AuditInv
<1> QED
  BY <1>1, AuditInvHolds, PTL

(* A trace that _assess_capture counts as complete is of a checkout that    *)
(* was let in and has its one row, whatever calls of the two loops broke.   *)
THEOREM CompleteTracesAreCheckouts == Audit!Spec => []Audit!AuditIsSound
<1>1. AuditInv => Audit!AuditIsSound
  BY DEF AuditInv, Claims, IsAccepted, IsCompleted, Audit!AuditIsSound,
         Audit!CompleteTraces, Audit!AcceptedTraces, Audit!CompletedTraces
<1> QED
  BY <1>1, AuditInvHolds, PTL

(* The parent of each span. *)
LEMMA SpanParents ==
  /\ Audit!ParentOf["api.admission"] = "none"
  /\ Audit!ParentOf["redis.enqueue"] = "api.admission"
  /\ Audit!ParentOf["queue.residence"] = "redis.enqueue"
  /\ Audit!ParentOf["redis.dequeue"] = "queue.residence"
  /\ Audit!ParentOf["worker.processing"] = "redis.dequeue"
  /\ Audit!ParentOf["postgresql.write"] = "worker.processing"
BY SpanNames DEF Audit!ParentOf

LEMMA RootsStand ==
  ASSUME AuditInv, auditFaults = 0, \A r \in Requests : auditApi[r] \in Audit!Idle
  PROVE  /\ spans = {} \/ Audit!ValidTraceStructure
         /\ \A r \in Requests : auditApi[r] \in {"idle", "answered"} /\ CleanRequest(r)
<1>1. \A r \in Requests : CleanRequest(r)
  BY DEF AuditInv, Clean
<1>2. \A r \in Requests : auditApi[r] \in {"idle", "answered"}
  BY <1>1 DEF CleanRequest, Unpushed, Leaving, Audit!Idle
<1>3. ASSUME NEW s \in spans, Audit!ParentOf[s[2]] # "none"
      PROVE  <<s[1], Audit!ParentOf[s[2]]>> \in spans
  <2>1. PICK r \in Requests, n \in Audit!Names : s = <<r, n>>
    BY DEF AuditInv, Audit!TypeOK
  <2>2. s[1] = r /\ s[2] = n /\ HasSpan(r, n)
    BY <2>1 DEF HasSpan
  <2>3. CleanRequest(r) /\ auditApi[r] \in {"idle", "answered"}
    BY <1>1, <1>2
  <2>4. CASE n = "redis.enqueue"
    BY <2>2, <2>3, <2>4, SpanParents DEF CleanRequest, HasSpan
  <2>5. CASE n \in Audit!WorkerSpans
    <3>1. Reported(r) /\ Entered(r)
      BY <2>2, <2>3, <2>5 DEF CleanRequest
    <3>2. auditApi[r] = "answered" /\ HasSpan(r, "redis.enqueue")
      BY <2>3, <3>1 DEF CleanRequest, Entered, Leaving
    <3> QED
      BY <2>2, <2>5, <3>1, <3>2, SpanNames, SpanParents DEF Reported, HasSpan
  <2> QED
    BY <1>3, <2>2, <2>4, <2>5, SpanNames, SpanParents
<1> QED
  BY <1>1, <1>2, <1>3 DEF Audit!ValidTraceStructure

(* Without a broken call, a capture that ends when every checkout was       *)
(* answered has no orphaned span, whatever the workers are doing: do_POST   *)
(* posts its spans before it answers.                                       *)
THEOREM AnswersLeaveTheirRoots == Audit!Spec => []Audit!AnswersLeaveRoots
<1>1. AuditInv => Audit!AnswersLeaveRoots
  BY RootsStand DEF Audit!AnswersLeaveRoots
<1> QED
  BY <1>1, AuditInvHolds, PTL

LEMMA SpanPath ==
  /\ DOMAIN Audit!Path = {1, 2, 3, 4, 5, 6}
  /\ Audit!Path[1] = "api.admission" /\ Audit!Path[2] = "redis.enqueue"
  /\ Audit!Path[3] = "queue.residence" /\ Audit!Path[4] = "redis.dequeue"
  /\ Audit!Path[5] = "worker.processing" /\ Audit!Path[6] = "postgresql.write"
<1>1. DOMAIN Audit!Path = 1 .. 6 /\ 1 .. 6 = {1, 2, 3, 4, 5, 6}
  BY DEF Audit!Path
<1> QED
  BY <1>1 DEF Audit!Path

(* A request that was answered with 202 and served has the exact path, when *)
(* its worker read the clock after the item was stamped.                    *)
LEMMA FinishedIsExact ==
  ASSUME AuditInv, NEW r \in Requests, CleanRequest(r), auditApi[r] = "answered",
         Entered(r), Finished(r),
         auditStart[r]["queue.residence"] <= auditStart[r]["redis.dequeue"]
  PROVE  Audit!HasExactTracePath(r)
<1>1. \A n \in Audit!Names : <<r, n>> \in spans
  BY SpanNames DEF CleanRequest, Entered, Finished, Reported, HasSpan, Leaving
<1>2. Sent(r) /\ Served(r)
  BY DEF AuditInv, Ordered, Finished
<1>3. ASSUME NEW i \in DOMAIN Audit!Path
      PROVE  /\ <<r, Audit!Path[i]>> \in spans
             /\ Audit!ParentOf[Audit!Path[i]] = IF i = 1 THEN "none" ELSE Audit!Path[i - 1]
             /\ i > 1 => auditStart[r][Audit!Path[i]] >= auditStart[r][Audit!Path[i - 1]]
  <2>1. i \in {1, 2, 3, 4, 5, 6} /\ Audit!Path[i] \in Audit!Names
    BY SpanPath, SpanNames
  <2>2. Audit!ParentOf[Audit!Path[i]] = IF i = 1 THEN "none" ELSE Audit!Path[i - 1]
    BY <2>1, SpanPath, SpanParents
  <2>3. i > 1 => auditStart[r][Audit!Path[i]] >= auditStart[r][Audit!Path[i - 1]]
    BY <1>2, <2>1, SpanPath, SpanNames, AuditReadings DEF Sent, Served, AuditInv
  <2> QED
    BY <1>1, <2>1, <2>2, <2>3
<1> QED
  BY <1>3 DEF Audit!HasExactTracePath

(* Without a broken call, an accepted request that is not counted when all  *)
(* is at rest is one whose worker had read the clock before its LPOP and    *)
(* before the item was stamped: run_worker's order of the two is the only   *)
(* way to lose a trace.                                                     *)
THEOREM LossesAreOfOneRace == Audit!Spec => []Audit!LossesAreExplained
<1>1. ASSUME AuditInv, Audit!AtRest, auditFaults = 0, NEW r \in Audit!AcceptedTraces,
             ~(auditStart[r]["redis.dequeue"] < auditStart[r]["queue.residence"])
      PROVE  r \in Audit!CompleteTraces
  <2>1. r \in Requests /\ IsAccepted(r)
    BY DEF Audit!AcceptedTraces, IsAccepted
  <2>2. /\ spans = {} \/ Audit!ValidTraceStructure
        /\ auditApi[r] \in {"idle", "answered"} /\ CleanRequest(r)
    BY <1>1, <2>1, RootsStand DEF Audit!AtRest
  <2>3. auditStatus[r] = 202 /\ auditApi[r] = "answered"
    BY <1>1, <2>1, <2>2 DEF AuditInv, Claims, Posted
  <2>4. Entered(r)
    BY <2>3 DEF Entered, Leaving
  <2>5. auditStart[r]["queue.residence"] <= auditStart[r]["redis.dequeue"]
    BY <1>1, <2>1, SpanNames, AuditReadings DEF AuditInv
  <2>6. ~Waits(r)
    BY <1>1, <2>1, <2>5, SpanNames, AuditReadings DEF AuditInv, Carried
  <2>7. ~InHand(r)
    <3>1. \A w \in Workers : auditWorker[w] \in {"poll", "pop"}
      BY <1>1 DEF AuditInv, Clean, CleanWorker, Audit!AtRest
    <3> QED
      BY <1>1, <2>1, <3>1, NamesAssumption DEF AuditInv, Carried, InHand
  <2>8. Finished(r)
    BY <2>2, <2>4, <2>6, <2>7 DEF CleanRequest
  <2>9. Audit!HasExactTracePath(r)
    BY <1>1, <2>1, <2>2, <2>3, <2>4, <2>5, <2>8, FinishedIsExact
  <2>10. Audit!ValidTraceStructure
    BY <2>2, <2>9, SpanPath DEF Audit!HasExactTracePath
  <2> QED
    BY <1>1, <2>1, <2>8, <2>9, <2>10
       DEF Audit!CompleteTraces, Audit!CompletedTraces, Finished, IsCompleted
<1>2. AuditInv => Audit!LossesAreExplained
  BY <1>1 DEF Audit!LossesAreExplained
<1> QED
  BY <1>2, AuditInvHolds, PTL
================================================================================
