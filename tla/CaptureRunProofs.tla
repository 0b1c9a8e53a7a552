---------------------------- MODULE CaptureRunProofs ----------------------------
(***************************************************************************)
(* Theorems about one capture, for any number of requests, workers and     *)
(* failed calls, any request plan and any set of actions that do not       *)
(* overlap.                                                                *)
(*                                                                         *)
(* The application's part of an invariant is kept by the application's own *)
(* steps by the lemmas of CheckoutPipelineProofs; the steps of the runner  *)
(* and of the controller are added here.                                   *)
(***************************************************************************)
EXTENDS CaptureRun, CheckoutPipelineProofs

-----------------------------------------------------------------------------
(* The method of the controller that is in progress: the steps of a start  *)
(* belong to a command whose action is not active yet and has a kind that  *)
(* takes them; the stop of a command concerns an active action, that of    *)
(* close() one it has popped; the loop and the final DELETE belong to      *)
(* close().                                                                *)

Starting == {"select", "clear", "pause", "lock", "set"}

StartShape ==
  call.step \in Starting =>
    /\ call.op = "command" /\ call.phase = "start"
    /\ call.action \in Actions /\ call.action \notin active
    /\ CASE call.step = "lock" -> Kind[call.action] = "postgres_lock"
         [] call.step = "set"  -> Kind[call.action] \in Ctl!KeyKinds
         [] OTHER              -> Kind[call.action] = "worker_pause"

StopShape ==
  call.step = "stop" =>
    /\ call.action \in Actions
    /\ \/ call.op = "command" /\ call.phase = "stop" /\ call.action \in active
       \/ call.op = "close" /\ call.action \notin active

EvidenceShape ==
  call.step \in {"readback", "post"} =>
    \/ call.op = "boundary" /\ call.phase \in {"started", "closed"}
    \/ call.op = "command" /\ call.phase \in Ctl!Phases /\ call.action \in Actions
    \/ call.op = "close" /\ call.action \in Actions

SweepShape ==
  call.step \in {"sweep", "wipe"} => call.op = "close"

CallShape == StartShape /\ StopShape /\ EvidenceShape /\ SweepShape

(* The budget of failed calls is never exceeded. *)
LEMMA CtlFaultType ==
  ASSUME faults \in 0 .. MaxFaults, Ctl!Works \/ Ctl!Breaks
  PROVE  faults' \in 0 .. MaxFaults
BY BoundsAssumption DEF Ctl!Works, Ctl!Breaks

(* Moving to a step, and ending the method, keep the type of the call. *)
LEMMA CallType ==
  ASSUME call \in Ctl!Calls
  PROVE  /\ \A step \in Ctl!Steps : Ctl!Goto(step) => call' \in Ctl!Calls
         /\ Ctl!Returns => call' \in Ctl!Calls
         /\ Ctl!Raises => call' \in Ctl!Calls
BY DEF Ctl!Calls, Ctl!Goto, Ctl!Returns, Ctl!Raises, Ctl!Ends, Ctl!Steps

(* Forgetting an action and activating one keep the types of the Ctl!memory. *)
LEMMA CtlMemoryType ==
  ASSUME Ctl!TypeOK, call.action \in Actions
  PROVE  /\ Ctl!Forget(call.action) \/ Ctl!Inactive
            \/ (\E lock \in {"none", "open"} : Ctl!Activate(lock))
            => /\ active' \in SUBSET Actions
               /\ session' \in [Actions -> {"none", "open", "closed"}]
               /\ realized' \in [Actions -> SUBSET Workers]
         /\ \A lock \in {"none", "closed"} :
              Ctl!StopRaises(lock)
              => /\ active' \in SUBSET Actions
                 /\ session' \in [Actions -> {"none", "open", "closed"}]
                 /\ realized' \in [Actions -> SUBSET Workers]
                 /\ call' \in Ctl!Calls
         /\ Ctl!StopReturns
            => /\ active' \in SUBSET Actions
               /\ session' \in [Actions -> {"none", "open", "closed"}]
               /\ realized' \in [Actions -> SUBSET Workers]
               /\ call' \in Ctl!Calls
         /\ \A lock \in {"none", "open"} : Ctl!Activate(lock) => call' \in Ctl!Calls
<1>1. /\ active \in SUBSET Actions
      /\ session \in [Actions -> {"none", "open", "closed"}]
      /\ realized \in [Actions -> SUBSET Workers]
      /\ call \in Ctl!Calls /\ call.workers \in SUBSET Workers
  BY DEF Ctl!TypeOK, Ctl!Calls
<1>2. "sweep" \in Ctl!Steps /\ "readback" \in Ctl!Steps
  BY DEF Ctl!Steps
<1> QED
  BY <1>1, <1>2, CallType DEF Ctl!Forget, Ctl!Inactive, Ctl!Activate, Ctl!StopRaises, Ctl!StopReturns

(* The controller counts its actions as everybody does. *)
LEMMA SameCardinality == \A S : Ctl!Cardinality(S) = Cardinality(S)
BY DEF Ctl!Cardinality, Cardinality

(* What is posted is a record. *)
LEMMA CtlRecordType ==
  ASSUME Ctl!TypeOK, EvidenceShape, Ctl!At("post")
  PROVE  Ctl!Record \in Ctl!Records
<1>1. Ctl!Cardinality(active) \in Nat
  BY ActionsAssumption, FS_Subset, FS_CardinalityType, SameCardinality DEF Ctl!TypeOK
<1>2. /\ call.workers \in SUBSET Workers /\ call.index \in Nat
      /\ call.delay \in Actions \cup {NoAction}
  BY DEF Ctl!TypeOK, Ctl!Calls
<1> QED
  BY <1>1, <1>2 DEF EvidenceShape, Ctl!At, Ctl!Record, Ctl!Records, Ctl!Phases

-----------------------------------------------------------------------------
(* Types *)

(* A step of a method keeps the types. *)
LEMMA ControlType ==
  ASSUME Ctl!TypeOK, CallShape, Ctl!Proceed
  PROVE  Ctl!TypeOK'
<1> USE DEF Ctl!controls, Ctl!memory
<1>0. call \in Ctl!Calls /\ call.workers \in SUBSET Workers
  BY DEF Ctl!TypeOK, Ctl!Calls
<1>1. CASE Ctl!SelectWorkers
  <2>1. faults' \in 0 .. MaxFaults
    BY <1>1, CtlFaultType DEF Ctl!SelectWorkers, Ctl!TypeOK
  <2>2. call' \in Ctl!Calls
    <3>1. CASE Ctl!Raises
      BY <3>1, <1>0, CallType
    <3>2. CASE \E chosen \in SUBSET instances :
                 call' = [call EXCEPT !.step = "clear", !.workers = chosen]
      BY <3>2 DEF Ctl!TypeOK, Ctl!Calls, Ctl!Steps
    <3> QED
      BY <1>1, <3>1, <3>2 DEF Ctl!SelectWorkers
  <2>3. registered' \in [Actions -> SUBSET Workers]
    <3>1. \/ registered' = registered
          \/ registered' = [registered EXCEPT ![call.action] = instances]
      BY <1>1 DEF Ctl!SelectWorkers
    <3> QED
      BY <3>1 DEF Ctl!TypeOK
  <2> QED
    BY <1>1, <2>1, <2>2, <2>3 DEF Ctl!SelectWorkers, Ctl!TypeOK
<1>2. CASE Ctl!ClearPaused
  <2>1. faults' \in 0 .. MaxFaults
    BY <1>2, CtlFaultType DEF Ctl!ClearPaused, Ctl!TypeOK
  <2>2. call' \in Ctl!Calls
    BY <1>2, <1>0, CallType DEF Ctl!ClearPaused, Ctl!Steps
  <2> QED
    BY <1>2, <2>1, <2>2 DEF Ctl!ClearPaused, Ctl!MayApply, Ctl!TypeOK
<1>3. CASE Ctl!PauseWorkers
  <2>1. faults' \in 0 .. MaxFaults
    BY <1>3, CtlFaultType DEF Ctl!PauseWorkers, Ctl!TypeOK
  <2>2. call.action \in Actions
    BY <1>3 DEF Ctl!PauseWorkers, Ctl!At, CallShape, StartShape, Starting
  <2>3. call' \in Ctl!Calls
    BY <1>3, <1>0, <2>2, CallType, CtlMemoryType DEF Ctl!PauseWorkers
  <2>4. /\ active' \in SUBSET Actions
        /\ session' \in [Actions -> {"none", "open", "closed"}]
        /\ realized' \in [Actions -> SUBSET Workers]
    BY <1>3, <2>2, CtlMemoryType DEF Ctl!PauseWorkers
  <2>5. paused' \in SUBSET Workers
    BY <1>3, <1>0 DEF Ctl!PauseWorkers, Ctl!MayApply, Ctl!TypeOK
  <2> QED
    BY <1>3, <2>1, <2>3, <2>4, <2>5 DEF Ctl!PauseWorkers, Ctl!TypeOK
<1>4. CASE Ctl!TakeLock
  <2>1. faults' \in 0 .. MaxFaults
    BY <1>4, CtlFaultType DEF Ctl!TakeLock, Ctl!TypeOK
  <2>2. call.action \in Actions
    BY <1>4 DEF Ctl!TakeLock, Ctl!At, CallShape, StartShape, Starting
  <2>3. call' \in Ctl!Calls
    BY <1>4, <1>0, <2>2, CallType, CtlMemoryType DEF Ctl!TakeLock
  <2>4. /\ active' \in SUBSET Actions
        /\ session' \in [Actions -> {"none", "open", "closed"}]
        /\ realized' \in [Actions -> SUBSET Workers]
    BY <1>4, <2>2, CtlMemoryType DEF Ctl!TakeLock
  <2> QED
    BY <1>4, <2>1, <2>3, <2>4 DEF Ctl!TakeLock, Ctl!TypeOK
<1>5. CASE Ctl!SetKey
  <2>1. faults' \in 0 .. MaxFaults
    BY <1>5, CtlFaultType DEF Ctl!SetKey, Ctl!TypeOK
  <2>2. call.action \in Actions
    BY <1>5 DEF Ctl!SetKey, Ctl!At, CallShape, StartShape, Starting
  <2>3. call' \in Ctl!Calls
    BY <1>5, <1>0, <2>2, CallType, CtlMemoryType DEF Ctl!SetKey
  <2>4. /\ active' \in SUBSET Actions
        /\ session' \in [Actions -> {"none", "open", "closed"}]
        /\ realized' \in [Actions -> SUBSET Workers]
    BY <1>5, <2>2, CtlMemoryType DEF Ctl!SetKey
  <2>5. keys' \in [Ctl!KeyKinds -> Actions \cup {NoAction}]
    BY <1>5, <2>2 DEF Ctl!SetKey, Ctl!MayApply, Ctl!TypeOK
  <2> QED
    BY <1>5, <2>1, <2>3, <2>4, <2>5 DEF Ctl!SetKey, Ctl!TypeOK
<1>6. CASE Ctl!StopLock
  <2>1. faults' \in 0 .. MaxFaults
    BY <1>6, CtlFaultType DEF Ctl!StopLock, Ctl!TypeOK
  <2>2. call.action \in Actions
    BY <1>6 DEF Ctl!StopLock, Ctl!OfKind
  <2>3. /\ active' \in SUBSET Actions
        /\ session' \in [Actions -> {"none", "open", "closed"}]
        /\ realized' \in [Actions -> SUBSET Workers]
        /\ call' \in Ctl!Calls
    BY <1>6, <2>2, CtlMemoryType DEF Ctl!StopLock
  <2> QED
    BY <1>6, <2>1, <2>3 DEF Ctl!StopLock, Ctl!TypeOK
<1>7. CASE Ctl!StopKey
  <2>1. faults' \in 0 .. MaxFaults
    BY <1>7, CtlFaultType DEF Ctl!StopKey, Ctl!TypeOK
  <2>2. call.action \in Actions
    BY <1>7 DEF Ctl!StopKey, CallShape, StopShape, Ctl!At
  <2>3. /\ active' \in SUBSET Actions
        /\ session' \in [Actions -> {"none", "open", "closed"}]
        /\ realized' \in [Actions -> SUBSET Workers]
        /\ call' \in Ctl!Calls
    BY <1>7, <2>2, CtlMemoryType DEF Ctl!StopKey
  <2>4. /\ paused' \in SUBSET Workers
        /\ keys' \in [Ctl!KeyKinds -> Actions \cup {NoAction}]
    BY <1>7 DEF Ctl!StopKey, Ctl!MayApply, Ctl!TypeOK
  <2> QED
    BY <1>7, <2>1, <2>3, <2>4 DEF Ctl!StopKey, Ctl!TypeOK
<1>8. CASE Ctl!Readback
  <2>1. faults' \in 0 .. MaxFaults
    BY <1>8, CtlFaultType DEF Ctl!Readback, Ctl!TypeOK
  <2>2. keys["redis_enqueue_delay"] \in Actions \cup {NoAction}
    BY DEF Ctl!TypeOK, Ctl!KeyKinds
  <2>3. call' \in Ctl!Calls
    <3>1. CASE Ctl!Raises
      BY <3>1, <1>0, CallType
    <3>2. CASE call' = [call EXCEPT !.step = "post", !.delay = keys["redis_enqueue_delay"]]
      BY <3>2, <1>0, <2>2 DEF Ctl!Calls, Ctl!Steps
    <3> QED
      BY <1>8, <3>1, <3>2 DEF Ctl!Readback
  <2> QED
    BY <1>8, <2>1, <2>3 DEF Ctl!Readback, Ctl!TypeOK
<1>9. CASE Ctl!Post
  <2>1. faults' \in 0 .. MaxFaults
    BY <1>9, CtlFaultType DEF Ctl!Post, Ctl!TypeOK
  <2>2. call' \in Ctl!Calls
    BY <1>9, <1>0, CallType DEF Ctl!Post, Ctl!Steps
  <2>3. evidence' \in Seq(Ctl!Records)
    <3>1. Ctl!Record \in Ctl!Records
      BY <1>9, CtlRecordType DEF Ctl!Post, CallShape
    <3>2. evidence' = Append(evidence, Ctl!Record) \/ evidence' = evidence
      BY <1>9 DEF Ctl!Post, Ctl!MayApply
    <3>3. evidence \in Seq(Ctl!Records)
      BY DEF Ctl!TypeOK
    <3> QED
      BY <3>1, <3>2, <3>3
  <2>4. commandIds' \in SUBSET (Actions \X Ctl!Phases)
    <3>1. call.op # "boundary" => <<call.action, Ctl!Record.phase>> \in Actions \X Ctl!Phases
      BY <1>9 DEF Ctl!Post, Ctl!At, CallShape, EvidenceShape, Ctl!Record, Ctl!Phases
    <3>2. \/ commandIds' = commandIds
          \/ /\ call.op # "boundary"
             /\ commandIds' = commandIds \cup {<<call.action, Ctl!Record.phase>>}
      BY <1>9 DEF Ctl!Post
    <3> QED
      BY <3>1, <3>2 DEF Ctl!TypeOK
  <2> QED
    BY <1>9, <2>1, <2>2, <2>3, <2>4 DEF Ctl!Post, Ctl!TypeOK
<1>10. CASE Ctl!Sweep
  <2>1. call' \in Ctl!Calls
    <3>1. CASE Ctl!Goto("wipe")
      BY <3>1, <1>0, CallType DEF Ctl!Steps
    <3>2. CASE \E a \in active :
                 call' = [call EXCEPT !.action = a, !.index = Stop[a], !.step = "stop",
                                      !.workers = realized[a]]
      <4>1. PICK a \in active :
              call' = [call EXCEPT !.action = a, !.index = Stop[a], !.step = "stop",
                                   !.workers = realized[a]]
        BY <3>2
      <4>2. a \in Actions /\ Stop[a] \in Nat /\ realized[a] \in SUBSET Workers
        BY ScheduleAssumption DEF Ctl!TypeOK
      <4> QED
        BY <1>0, <4>1, <4>2 DEF Ctl!Calls, Ctl!Steps
    <3> QED
      BY <1>10, <3>1, <3>2 DEF Ctl!Sweep
  <2> QED
    BY <1>10, <2>1 DEF Ctl!Sweep, Ctl!TypeOK
<1>11. CASE Ctl!Wipe
  <2>1. faults' \in 0 .. MaxFaults
    BY <1>11, CtlFaultType DEF Ctl!Wipe, Ctl!TypeOK
  <2>2. call' \in Ctl!Calls
    BY <1>11, <1>0, CallType DEF Ctl!Wipe
  <2> QED
    BY <1>11, <2>1, <2>2 DEF Ctl!Wipe, Ctl!MayApply, Ctl!TypeOK
<1> QED
  BY <1>1, <1>2, <1>3, <1>4, <1>5, <1>6, <1>7, <1>8, <1>9, <1>10, <1>11 DEF Ctl!Proceed

-----------------------------------------------------------------------------
(* The shape of the method in progress. *)

LEMMA ControlShape ==
  ASSUME Ctl!TypeOK, CallShape, Ctl!Proceed
  PROVE  CallShape'
<1> USE DEF Ctl!controls, Ctl!memory, CallShape, StartShape, StopShape, EvidenceShape, SweepShape,
            Starting, Ctl!Phases
<1>0. call \in Ctl!Calls
  BY DEF Ctl!TypeOK
<1> USE DEF Ctl!Returns, Ctl!Raises, Ctl!Ends, Ctl!Goto, Ctl!At, Ctl!Calls
<1>1. CASE Ctl!SelectWorkers
  <2>1. CASE Ctl!Raises
    BY <2>1
  <2>2. CASE \E chosen \in SUBSET instances :
               call' = [call EXCEPT !.step = "clear", !.workers = chosen]
    <3>1. /\ call'.step = "clear" /\ call'.op = call.op /\ call'.phase = call.phase
          /\ call'.action = call.action
      BY <1>0, <2>2
    <3> QED
      BY <3>1, <1>1 DEF Ctl!SelectWorkers
  <2> QED
    BY <1>1, <2>1, <2>2 DEF Ctl!SelectWorkers
<1>2. CASE Ctl!ClearPaused
  BY <1>0, <1>2 DEF Ctl!ClearPaused
<1>3. CASE Ctl!PauseWorkers
  BY <1>0, <1>3 DEF Ctl!PauseWorkers, Ctl!Activate
<1>4. CASE Ctl!TakeLock
  BY <1>0, <1>4 DEF Ctl!TakeLock, Ctl!Activate
<1>5. CASE Ctl!SetKey
  BY <1>0, <1>5 DEF Ctl!SetKey, Ctl!Activate
<1>6. CASE Ctl!StopLock
  BY <1>0, <1>6 DEF Ctl!StopLock, Ctl!StopReturns, Ctl!StopRaises
<1>7. CASE Ctl!StopKey
  BY <1>0, <1>7 DEF Ctl!StopKey, Ctl!StopReturns, Ctl!StopRaises
<1>8. CASE Ctl!Readback
  <2>1. CASE Ctl!Raises
    BY <2>1
  <2>2. CASE call' = [call EXCEPT !.step = "post", !.delay = keys["redis_enqueue_delay"]]
    <3>1. /\ call'.step = "post" /\ call'.op = call.op /\ call'.phase = call.phase
          /\ call'.action = call.action
      BY <1>0, <2>2
    <3> QED
      BY <3>1, <1>8 DEF Ctl!Readback
  <2> QED
    BY <1>8, <2>1, <2>2 DEF Ctl!Readback
<1>9. CASE Ctl!Post
  BY <1>0, <1>9 DEF Ctl!Post
<1>10. CASE Ctl!Sweep
  BY <1>0, <1>10 DEF Ctl!Sweep, Ctl!TypeOK
<1>11. CASE Ctl!Wipe
  BY <1>0, <1>11 DEF Ctl!Wipe
<1> QED
  BY <1>1, <1>2, <1>3, <1>4, <1>5, <1>6, <1>7, <1>8, <1>9, <1>10, <1>11 DEF Ctl!Proceed

-----------------------------------------------------------------------------
(* The steps of the runner. *)

Before == {"boot", "reset", "truncate", "rejoin", "baseline", "baselineRows"}
Sampling == {"counters", "rows", "busy", "gauges", "live", "current", "peak", "emit"}
Window == {"commands", "await"} \cup Sampling
Over == {"closing", "closed", "done", "failed"}

(* The runner takes no sample before the run is opened and point_count of    *)
(* them in the loop.                                                         *)
SamplesAreCounted ==
  /\ runner \in Before \cup {"opening"} => emitted = 0
  /\ runner \in Window => emitted < PointCount
  /\ runner = "errors" => emitted = PointCount

CaptureTyped ==
  CaptureTypeOK /\ CallShape /\ rejecting = Rejected /\ SamplesAreCounted

(* The part of the types that is the controller's and the runner's alone. *)
CtlTypes ==
  /\ keys \in [Ctl!KeyKinds -> Actions \cup {NoAction}]
  /\ active \in SUBSET Actions
  /\ session \in [Actions -> {"none", "open", "closed"}]
  /\ realized \in [Actions -> SUBSET Workers]
  /\ registered \in [Actions -> SUBSET Workers]
  /\ commandIds \in SUBSET (Actions \X Ctl!Phases)
  /\ evidence \in Seq(Ctl!Records)
  /\ call \in Ctl!Calls

RunnerTypes ==
  /\ runner \in RunnerSteps
  /\ failing \in BOOLEAN
  /\ plan \in Plans
  /\ scheduled \in SUBSET Actions
  /\ pending \in SUBSET (scheduled \X {"start", "stop"})
  /\ timedOut \in SUBSET Requests
  /\ previous \in Counts /\ current \in Counts
  /\ reading \in [{"busy", "inflight", "peak", "depth", "level"} -> Nat]
  /\ emitted \in 0 .. PointCount

LEMMA TypesTogether ==
  /\ CaptureTypeOK <=> TypeOK /\ CtlTypes /\ RunnerTypes
  /\ CaptureTypeOK' <=> TypeOK' /\ CtlTypes' /\ RunnerTypes'
BY DEF CaptureTypeOK, TypeOK, CtlTypes, RunnerTypes, Ctl!TypeOK

(* The steps of the application. *)
AppStep ==
  \/ \E r \in Requests : (Checkout(r) /\ Send(r)) \/ (ServeRequest(r) /\ Handler(r))
  \/ \E w \in Workers : ServeItem(w) /\ Work(w)

LEMMA StepsOfCapture ==
  ASSUME CaptureNext
  PROVE  Runner \/ Control \/ (\E r \in Requests : TimeOut(r)) \/ AppStep
BY DEF CaptureNext, AppStep, Checkout, ServeRequest, ServeItem

(* They are steps of the pipeline, and leave the controller and the runner *)
(* alone.                                                                  *)
LEMMA AppStepFrame ==
  ASSUME AppStep
  PROVE  /\ Next
         /\ UNCHANGED ctlOwn /\ UNCHANGED runnerVars
         /\ UNCHANGED <<paused, interventions>>
<1>1. UNCHANGED ctlOwn /\ UNCHANGED runnerVars
  BY DEF AppStep, Checkout, ServeRequest, ServeItem
<1>2. ASSUME NEW r \in Requests, Send(r) \/ Handler(r)
      PROVE  UNCHANGED <<paused, interventions>>
  BY <1>2 DEF Send, Handler, Enter, Gate, Push, Stamp, TallyEnqueue, Leave, Record, Emit, Reply,
              controlVars
<1>3. ASSUME NEW w \in Workers, Work(w)
      PROVE  UNCHANGED <<paused, interventions>>
  BY <1>3 DEF Work, Register, Check, Pop, Fetch, TallyDequeue, Claim, Mark, Lock, Insert, Unmark,
              RecordWrite, Release, EmitCompletion, controlVars
<1> QED
  BY <1>1, <1>2, <1>3 DEF AppStep, Next

(* The steps of the application keep the types. *)
LEMMA AppStepTyped ==
  ASSUME CaptureTyped, AppStep
  PROVE  CaptureTyped'
<1>1. TypeOK'
  BY HandlerType, WorkType, TypesTogether DEF AppStep, CaptureTyped
<1>2. UNCHANGED ctlOwn /\ UNCHANGED runnerVars
  BY AppStepFrame
<1>3. CtlTypes'
  BY <1>2, TypesTogether DEF CaptureTyped, CtlTypes, ctlOwn
<1>4. RunnerTypes'
  BY <1>2, TypesTogether DEF CaptureTyped, RunnerTypes, runnerVars, samples
<1>5. CallShape'
  BY <1>2 DEF CaptureTyped, CallShape, StartShape, StopShape, EvidenceShape, SweepShape, ctlOwn
<1>6. (rejecting = Rejected)' /\ SamplesAreCounted'
  BY <1>2 DEF CaptureTyped, Rejected, SamplesAreCounted, ctlOwn, runnerVars, samples
<1> QED
  BY <1>1, <1>3, <1>4, <1>5, <1>6, TypesTogether DEF CaptureTyped

LEMMA ControlTyped ==
  ASSUME CaptureTyped, Control
  PROVE  CaptureTyped'
<1>0. TypeOK
  BY TypesTogether DEF CaptureTyped
<1>1. Ctl!TypeOK
  BY DEF CaptureTyped, CaptureTypeOK
<1>2. Ctl!TypeOK' /\ CallShape'
  BY <1>1, ControlType, ControlShape DEF CaptureTyped, Control
<1>3. UNCHANGED appOwn /\ UNCHANGED runnerVars /\ rejecting' = Rejected'
  BY DEF Control
<1>4. TypeOK'
  <2>1. rejecting' \in SUBSET Requests
    BY <1>3, ScheduleAssumption DEF Rejected
  <2> QED
    BY <1>0, <1>2, <1>3, <2>1 DEF TypeOK, Ctl!TypeOK, appOwn
<1>5. RunnerTypes' /\ SamplesAreCounted'
  BY <1>3, TypesTogether DEF CaptureTyped, RunnerTypes, SamplesAreCounted, runnerVars, samples
<1>6. CtlTypes'
  BY <1>2 DEF CtlTypes, Ctl!TypeOK
<1> QED
  BY <1>2, <1>3, <1>4, <1>5, <1>6, TypesTogether DEF CaptureTyped

(* The steps that call no method of the controller and set no control key. *)
LEMMA QuietStepTyped ==
  ASSUME CaptureTyped,
         UNCHANGED ctlOwn, UNCHANGED <<paused, lockOwner>>,
         instances' \subseteq instances,
         faults' \in 0 .. MaxFaults,
         UNCHANGED <<queue, inflight, counters, busy, writeBusy, apiPc, status, workerPc, hand,
                     writeFailed, pausedTakes, interventions>>,
         peak' \in Nat, table' \in [Requests -> Nat],
         RunnerTypes', SamplesAreCounted'
  PROVE  CaptureTyped'
<1>0. TypeOK
  BY TypesTogether DEF CaptureTyped
<1>1. TypeOK'
  BY <1>0 DEF TypeOK, ctlOwn
<1>2. CtlTypes'
  BY TypesTogether DEF CaptureTyped, CtlTypes, ctlOwn
<1>3. CallShape'
  BY DEF CaptureTyped, CallShape, StartShape, StopShape, EvidenceShape, SweepShape, ctlOwn
<1>4. (rejecting = Rejected)'
  BY DEF CaptureTyped, Rejected, ctlOwn
<1> QED
  BY <1>1, <1>2, <1>3, <1>4, TypesTogether DEF CaptureTyped
LEMMA QuietRunnerTyped ==
  ASSUME CaptureTyped,
         \/ WaitForWorkers("boot", "reset") \/ WaitForWorkers("rejoin", "baseline")
         \/ Truncate \/ Baseline \/ Opened \/ CommandRaised \/ Submit \/ Gathered
         \/ ReadCounters \/ ReadRows \/ ReadBusy \/ ReadGauges \/ CountWorkers \/ ReadLevel
         \/ RestartPeak \/ EmitMetrics \/ CheckEmitErrors
         \/ \E r \in Requests : TimeOut(r)
  PROVE  CaptureTyped'
<1>1. TypeOK /\ CtlTypes /\ RunnerTypes /\ SamplesAreCounted
  BY TypesTogether DEF CaptureTyped
<1>2. /\ Cardinality(busy) \in Nat /\ RowCount \in Nat /\ Len(queue) \in Nat
      /\ inflight \in Nat /\ peak \in Nat /\ counters \in [CounterNames -> Nat]
      /\ table \in [Requests -> Nat]
      /\ faults \in 0 .. MaxFaults
  BY <1>1, ActorsAreFinite DEF TypeOK, RowCount
<1>3. /\ runner \in RunnerSteps /\ failing \in BOOLEAN /\ timedOut \in SUBSET Requests
      /\ previous \in Counts /\ current \in Counts
      /\ reading \in [{"busy", "inflight", "peak", "depth", "level"} -> Nat]
      /\ emitted \in 0 .. PointCount
  BY <1>1 DEF RunnerTypes
<1>4. PointCount \in Nat
  BY ScheduleAssumption
<1> DEFINE quiet ==
      /\ UNCHANGED ctlOwn /\ UNCHANGED <<paused, lockOwner>>
      /\ instances' \subseteq instances
      /\ UNCHANGED <<queue, inflight, counters, busy, writeBusy, apiPc, status, workerPc, hand,
                     writeFailed, pausedTakes, interventions>>
      /\ UNCHANGED <<plan, scheduled, pending>>
<1>5. ASSUME quiet, faults' \in 0 .. MaxFaults, peak' \in Nat, table' \in [Requests -> Nat],
             runner' \in RunnerSteps, failing' \in BOOLEAN, timedOut' \in SUBSET Requests,
             previous' \in Counts, current' \in Counts,
             reading' \in [{"busy", "inflight", "peak", "depth", "level"} -> Nat],
             emitted' \in 0 .. PointCount, SamplesAreCounted'
      PROVE  CaptureTyped'
  <2>1. RunnerTypes'
    BY <1>1, <1>5 DEF RunnerTypes
  <2> QED
    BY <1>5, <2>1, QuietStepTyped
<1> HIDE DEF quiet
<1>6. ASSUME quiet, faults' \in 0 .. MaxFaults, UNCHANGED <<peak, table, samples>>,
             failing' \in BOOLEAN, timedOut' \in SUBSET Requests,
             \/ runner \in Before /\ runner' \in Before \cup {"failed"}
             \/ runner = "opening" /\ runner' \in {"busy", "failed"}
             \/ runner \in Window /\ runner' \in Window \cup {"closing"}
             \/ runner = "errors" /\ runner' = "closing"
      PROVE  CaptureTyped'
  <2>1. runner' \in RunnerSteps
    BY <1>6 DEF Before, Window, Sampling, RunnerSteps
  <2>2. SamplesAreCounted'
    BY <1>1, <1>4, <1>6, ScheduleAssumption DEF SamplesAreCounted, Before, Window, Sampling, samples
  <2> QED
    BY <1>2, <1>3, <1>5, <1>6, <2>1, <2>2 DEF samples
<1>7. CASE WaitForWorkers("boot", "reset") \/ WaitForWorkers("rejoin", "baseline")
  <2>1. quiet /\ UNCHANGED <<peak, table, samples, timedOut>>
    BY <1>7 DEF quiet, WaitForWorkers, DropOverdue, appOwn
  <2>2. /\ faults' \in 0 .. MaxFaults /\ failing' \in BOOLEAN
        /\ runner \in Before /\ runner' \in Before \cup {"failed"}
    BY <1>2, <1>3, <1>7, FaultType DEF WaitForWorkers, At, Goto, Aborts, Before
  <2> QED
    BY <1>3, <1>6, <2>1, <2>2
<1>8. CASE Truncate
  <2>1. quiet /\ UNCHANGED <<peak, samples, timedOut>>
    BY <1>8 DEF quiet, Truncate
  <2>2. /\ faults' \in 0 .. MaxFaults /\ failing' \in BOOLEAN
        /\ runner \in Before /\ runner' \in {"rejoin", "failed"}
        /\ table' \in [Requests -> Nat]
    <3>1. Works \/ Breaks
      BY <1>8 DEF Truncate
    <3>2. table' = table \/ table' = [r \in Requests |-> 0]
      BY <1>8 DEF Truncate
    <3>3. table' \in [Requests -> Nat]
      BY <1>2, <3>2
    <3>4. failing' \in BOOLEAN /\ runner \in Before /\ runner' \in {"rejoin", "failed"}
      BY <1>3, <1>8 DEF Truncate, At, Goto, Aborts, Before
    <3> QED
      BY <1>2, <3>1, <3>3, <3>4, FaultType
  <2>3. runner' \in RunnerSteps /\ SamplesAreCounted'
    BY <1>1, <2>1, <2>2 DEF RunnerSteps, SamplesAreCounted, Before, Window, Sampling, samples
  <2> QED
    BY <1>2, <1>3, <1>5, <2>1, <2>2, <2>3 DEF samples
<1>9. CASE Baseline
  <2>1. quiet /\ UNCHANGED <<peak, table, timedOut, current, reading, emitted>>
    BY <1>9 DEF quiet, Baseline, appOwn
  <2>2. /\ faults' \in 0 .. MaxFaults /\ failing' \in BOOLEAN
        /\ runner \in Before /\ runner' \in {"baselineRows", "failed"}
        /\ previous' \in Counts
    BY <1>2, <1>3, <1>9, FaultType DEF Baseline, At, Goto, Aborts, Before, Counts
  <2>3. runner' \in RunnerSteps /\ SamplesAreCounted'
    BY <1>1, <2>1, <2>2 DEF RunnerSteps, SamplesAreCounted, Before, Window, Sampling
  <2> QED
    BY <1>2, <1>3, <1>5, <2>1, <2>2, <2>3
<1>10. CASE Opened \/ CommandRaised \/ Submit \/ Gathered
  <2>1. quiet /\ UNCHANGED <<peak, table, samples, timedOut, faults>>
    BY <1>10 DEF quiet, Opened, CommandRaised, Submit, Gathered, appOwn, shared
  <2>2. /\ failing' \in BOOLEAN
        /\ \/ runner = "opening" /\ runner' \in {"busy", "failed"}
           \/ runner \in Window /\ runner' \in Window \cup {"closing"}
    BY <1>3, <1>10 DEF Opened, CommandRaised, Submit, Gathered, At, Goto, Aborts, Raises,
                       Window, Sampling
  <2> QED
    BY <1>2, <1>3, <1>6, <2>1, <2>2
<1>11. CASE ReadCounters \/ ReadRows \/ ReadBusy \/ ReadGauges \/ CountWorkers \/ ReadLevel
  <2>1. quiet /\ UNCHANGED <<peak, table, timedOut, previous, emitted>>
    BY <1>11 DEF quiet, ReadCounters, ReadRows, ReadBusy, ReadGauges, CountWorkers, ReadLevel,
                 Read, DropOverdue, appOwn
  <2>2. /\ faults' \in 0 .. MaxFaults /\ failing' \in BOOLEAN
        /\ runner \in Window /\ runner' \in Window \cup {"closing"}
    BY <1>2, <1>3, <1>11, FaultType
       DEF ReadCounters, ReadRows, ReadBusy, ReadGauges, CountWorkers, ReadLevel, Read, At, Goto,
           Raises, Window, Sampling
  <2>3. current' \in Counts
    BY <1>2, <1>3, <1>11
       DEF ReadCounters, ReadRows, ReadBusy, ReadGauges, CountWorkers, ReadLevel, Counts
  <2>4. reading' \in [{"busy", "inflight", "peak", "depth", "level"} -> Nat]
    <3>1. CASE ReadGauges
      <4>1. reading' = [reading EXCEPT !.inflight = inflight, !.peak = peak,
                                       !.depth = Len(queue)]
        BY <3>1 DEF ReadGauges
      <4> QED
        BY <1>2, <1>3, <4>1
    <3>2. CASE ReadBusy
      <4>1. reading' = [reading EXCEPT !.busy = Cardinality(busy)]
        BY <3>2 DEF ReadBusy
      <4> QED
        BY <1>2, <1>3, <4>1
    <3>3. CASE ReadLevel
      <4>1. reading' = [reading EXCEPT !.level = inflight]
        BY <3>3 DEF ReadLevel
      <4> QED
        BY <1>2, <1>3, <4>1
    <3> QED
      BY <1>3, <1>11, <3>1, <3>2, <3>3 DEF ReadCounters, ReadRows, CountWorkers
  <2>5. runner' \in RunnerSteps /\ SamplesAreCounted'
    BY <1>1, <2>1, <2>2 DEF RunnerSteps, SamplesAreCounted, Before, Window, Sampling
  <2> QED
    BY <1>2, <1>3, <1>5, <2>1, <2>2, <2>3, <2>4, <2>5
<1>12. CASE RestartPeak
  <2>1. quiet /\ UNCHANGED <<table, timedOut, samples>>
    BY <1>12 DEF quiet, RestartPeak
  <2>2. /\ faults' \in 0 .. MaxFaults /\ failing' \in BOOLEAN
        /\ runner = "peak" /\ runner' \in {"emit", "closing"}
        /\ peak' \in Nat
    <3>1. reading.level \in Nat
      BY <1>3
    <3> QED
      BY <1>2, <1>3, <1>12, <3>1, FaultType DEF RestartPeak, At, Goto, Raises
  <2>3. runner' \in RunnerSteps /\ SamplesAreCounted'
    BY <1>1, <2>1, <2>2 DEF RunnerSteps, SamplesAreCounted, Before, Window, Sampling, samples
  <2> QED
    BY <1>2, <1>3, <1>5, <2>1, <2>2, <2>3 DEF samples
<1>13. CASE EmitMetrics
  <2>1. quiet /\ UNCHANGED <<peak, table, timedOut, current>>
    BY <1>13 DEF quiet, EmitMetrics, appOwn
  <2>2. /\ faults' \in 0 .. MaxFaults /\ failing' \in BOOLEAN
        /\ runner = "emit"
        /\ previous' \in Counts
        /\ reading' = NoReading
        /\ \/ runner' = "closing" /\ emitted' \in {emitted, emitted + 1}
           \/ /\ emitted' = emitted + 1
              /\ runner' = IF emitted' = PointCount THEN "errors" ELSE "commands"
    BY <1>2, <1>3, <1>13, FaultType DEF EmitMetrics, At, Goto, Raises, LastSample
  <2>3. emitted < PointCount
    BY <1>1, <2>2 DEF SamplesAreCounted, Window, Sampling
  <2>4. /\ runner' \in RunnerSteps /\ SamplesAreCounted' /\ emitted' \in 0 .. PointCount
    BY <1>3, <1>4, <2>2, <2>3 DEF RunnerSteps, SamplesAreCounted, Before, Window, Sampling
  <2>5. reading' \in [{"busy", "inflight", "peak", "depth", "level"} -> Nat]
    BY <2>2 DEF NoReading
  <2> QED
    BY <1>2, <1>3, <1>5, <2>1, <2>2, <2>4, <2>5
<1>14. CASE CheckEmitErrors
  <2>1. quiet /\ UNCHANGED <<peak, table, samples, timedOut>>
    BY <1>14 DEF quiet, CheckEmitErrors, appOwn
  <2>2. /\ faults' \in 0 .. MaxFaults /\ failing' \in BOOLEAN
        /\ runner = "errors" /\ runner' = "closing"
    BY <1>2, <1>3, <1>14, FaultType DEF CheckEmitErrors, At, Goto, Raises
  <2> QED
    BY <1>3, <1>6, <2>1, <2>2
<1>15. CASE \E r \in Requests : TimeOut(r)
  <2>1. quiet /\ UNCHANGED <<peak, table, samples, runner, failing>>
    BY <1>15 DEF quiet, TimeOut, appOwn
  <2>2. /\ faults' \in 0 .. MaxFaults /\ timedOut' \in SUBSET Requests /\ runner = "await"
    BY <1>2, <1>3, <1>15, FaultType DEF TimeOut, At
  <2> QED
    BY <1>3, <1>6, <2>1, <2>2 DEF Window
<1> QED
  BY <1>7, <1>8, <1>9, <1>10, <1>11, <1>12, <1>13, <1>14, <1>15
(* The one DELETE of the reset. *)
LEMMA ResetTyped ==
  ASSUME CaptureTyped, Reset
  PROVE  CaptureTyped'
<1>1. TypeOK /\ CtlTypes /\ RunnerTypes /\ SamplesAreCounted
  BY TypesTogether DEF CaptureTyped
<1>2. /\ UNCHANGED <<lockOwner, table, apiPc, status, workerPc, hand, writeFailed, pausedTakes,
                     interventions, active, session, realized, registered, commandIds,
                     evidence, call>>
      /\ UNCHANGED <<plan, scheduled, pending, timedOut, samples>>
  BY DEF Reset
<1>3. \/ /\ queue' = <<>> /\ counters' = NoCounts.counters
         /\ inflight' = 0 /\ peak' = 0
         /\ instances' = {} /\ busy' = {} /\ writeBusy' = {}
         /\ paused' = {} /\ keys' = [k \in Ctl!KeyKinds |-> NoAction] /\ rejecting' = {}
      \/ UNCHANGED <<queue, counters, inflight, peak, instances, busy, writeBusy, paused, keys,
                     rejecting>>
  BY DEF Reset
<1>4. /\ Works \/ Breaks
      /\ runner = "reset" /\ runner' \in {"truncate", "failed"} /\ failing' \in BOOLEAN
  BY <1>1 DEF Reset, At, Goto, Aborts, RunnerTypes
<1>5. faults' \in 0 .. MaxFaults
  BY <1>1, <1>4, FaultType DEF TypeOK
<1>6. NoCounts.counters \in [CounterNames -> Nat]
  BY DEF NoCounts
<1>7. TypeOK'
  <2>1. /\ queue' \in Seq(Requests) /\ counters' \in [CounterNames -> Nat]
        /\ inflight' \in Nat /\ peak' \in Nat
        /\ instances' \in SUBSET Workers /\ busy' \in SUBSET Workers
        /\ writeBusy' \in SUBSET Workers /\ paused' \in SUBSET Workers
        /\ rejecting' \in SUBSET Requests
    <3>1. CASE UNCHANGED <<queue, counters, inflight, peak, instances, busy, writeBusy, paused,
                           keys, rejecting>>
      BY <1>1, <3>1 DEF TypeOK
    <3>2. CASE /\ queue' = <<>> /\ counters' = NoCounts.counters
               /\ inflight' = 0 /\ peak' = 0
               /\ instances' = {} /\ busy' = {} /\ writeBusy' = {}
               /\ paused' = {} /\ rejecting' = {}
      BY <1>6, <3>2
    <3> QED
      BY <1>3, <3>1, <3>2
  <2>2. /\ table' \in [Requests -> Nat] /\ lockOwner' \in Workers \cup {Controller, Nobody}
        /\ apiPc' \in [Requests -> ApiSteps] /\ status' \in [Requests -> Statuses]
        /\ workerPc' \in [Workers -> WorkerSteps]
        /\ hand' \in [Workers -> Requests \cup {Nobody}] /\ writeFailed' \in SUBSET Workers
        /\ pausedTakes' \in [Workers -> Nat] /\ interventions' \in 0 .. MaxInterventions
    BY <1>1, <1>2 DEF TypeOK
  <2> QED
    BY <1>5, <2>1, <2>2 DEF TypeOK
<1>8. CtlTypes'
  BY <1>1, <1>2, <1>3 DEF CtlTypes
<1>9. RunnerTypes' /\ SamplesAreCounted'
  BY <1>1, <1>2, <1>4
     DEF RunnerTypes, RunnerSteps, SamplesAreCounted, Before, Window, Sampling, samples
<1>10. CallShape'
  BY <1>2 DEF CaptureTyped, CallShape, StartShape, StopShape, EvidenceShape, SweepShape
<1>11. (rejecting = Rejected)'
  BY <1>3 DEF CaptureTyped, Rejected, Ctl!KeyKinds
<1> QED
  BY <1>7, <1>8, <1>9, <1>10, <1>11, TypesTogether DEF CaptureTyped

(* The steps that call a method of the controller, and those that end the  *)
(* run.                                                                    *)
LEMMA CallingTyped ==
  ASSUME CaptureTyped,
         UNCHANGED appOwn, UNCHANGED <<paused, instances, keys, rejecting, active, realized>>,
         UNCHANGED <<registered, commandIds, evidence>>,
         lockOwner' \in {lockOwner, Nobody}, faults' \in 0 .. MaxFaults,
         session' \in [Actions -> {"none", "open", "closed"}],
         call' \in Ctl!Calls, CallShape', RunnerTypes', SamplesAreCounted'
  PROVE  CaptureTyped'
<1>0. TypeOK /\ CtlTypes
  BY TypesTogether DEF CaptureTyped
<1>1. TypeOK'
  BY <1>0 DEF TypeOK, appOwn
<1>2. CtlTypes'
  BY <1>0 DEF CtlTypes
<1>3. (rejecting = Rejected)'
  BY DEF CaptureTyped, Rejected
<1> QED
  BY <1>1, <1>2, <1>3, TypesTogether DEF CaptureTyped

(* emit_run_boundary and close(). *)
LEMMA BeginShape ==
  /\ \A phase \in {"started", "closed"} :
       Ctl!Begin("boundary", NoAction, phase, "readback")
       => call' \in Ctl!Calls /\ CallShape'
  /\ Ctl!Begin("close", NoAction, "stop", "sweep") => call' \in Ctl!Calls /\ CallShape'
BY DEF Ctl!Begin, Ctl!Calls, Ctl!Steps, CallShape, StartShape, StopShape, EvidenceShape,
       SweepShape, Starting

LEMMA BaselineRowsTyped ==
  ASSUME CaptureTyped, BaselineRows
  PROVE  CaptureTyped'
<1>1. TypeOK /\ CtlTypes /\ RunnerTypes /\ SamplesAreCounted /\ CallShape
  BY TypesTogether DEF CaptureTyped
<1>2. /\ UNCHANGED <<paused, lockOwner, instances, appOwn, keys, rejecting, active, session,
                     realized, registered, commandIds, evidence>>
      /\ UNCHANGED <<plan, scheduled, pending, timedOut, reading, emitted>>
  BY DEF BaselineRows
<1>3. /\ Works \/ Breaks
      /\ runner = "baselineRows" /\ runner' \in {"opening", "failed"} /\ failing' \in BOOLEAN
  BY <1>1 DEF BaselineRows, At, Goto, Aborts, RunnerTypes
<1>4. RowCount \in Nat
  BY ActorsAreFinite DEF RowCount
<1>5. previous' \in Counts /\ current' \in Counts
  <2>1. previous \in Counts /\ current \in Counts
    BY <1>1 DEF RunnerTypes
  <2>2. \/ previous' = [previous EXCEPT !.rows = RowCount] /\ current' = previous'
        \/ UNCHANGED <<previous, current>>
    BY DEF BaselineRows
  <2>3. [previous EXCEPT !.rows = RowCount] \in Counts
    BY <1>4, <2>1 DEF Counts
  <2> QED
    BY <2>1, <2>2, <2>3
<1>6. call' \in Ctl!Calls /\ CallShape'
  <2>1. CASE Ctl!Begin("boundary", NoAction, "started", "readback")
    BY <2>1, BeginShape
  <2>2. CASE call' = call
    BY <1>1, <1>2, <2>2 DEF CtlTypes, CallShape, StartShape, StopShape, EvidenceShape, SweepShape
  <2> QED
    BY <2>1, <2>2 DEF BaselineRows
<1>7. RunnerTypes'
  BY <1>1, <1>2, <1>3, <1>5 DEF RunnerTypes, RunnerSteps
<1>8. SamplesAreCounted'
  BY <1>1, <1>2, <1>3 DEF SamplesAreCounted, Before, Window, Sampling
<1>9. session' \in [Actions -> {"none", "open", "closed"}] /\ faults' \in 0 .. MaxFaults
  BY <1>1, <1>2, <1>3, FaultType DEF CtlTypes, TypeOK
<1> QED
  BY <1>2, <1>6, <1>7, <1>8, <1>9, CallingTyped

LEMMA IssueTyped ==
  ASSUME CaptureTyped, NEW command \in pending, Issue(command)
  PROVE  CaptureTyped'
<1>1. TypeOK /\ CtlTypes /\ RunnerTypes /\ SamplesAreCounted
  BY TypesTogether DEF CaptureTyped
<1>2. command[1] \in Actions /\ command[2] \in Ctl!Phases /\ Index(command) \in Nat
  BY <1>1, ScheduleAssumption DEF RunnerTypes, Ctl!Phases, Index
<1>3. Ctl!Command(command[1], command[2], Index(command))
  BY DEF Issue
<1>4. /\ UNCHANGED appOwn /\ UNCHANGED <<paused, instances, keys, rejecting, active, realized>>
      /\ UNCHANGED <<registered, commandIds, evidence, session, lockOwner, faults>>
  BY <1>3 DEF Issue, Ctl!Command, Ctl!controls, Ctl!memory
<1>5. call' \in Ctl!Calls
  <2>1. realized[command[1]] \in SUBSET Workers
    BY <1>1, <1>2 DEF CtlTypes
  <2>2. Ctl!FirstStep(command[1], command[2]) \in Ctl!Steps
    BY DEF Ctl!FirstStep, Ctl!Steps
  <2> QED
    BY <1>2, <1>3, <2>1, <2>2 DEF Ctl!Command, Ctl!Begin, Ctl!Calls, Ctl!Phases, Ctl!Steps
<1>6. CallShape'
  <2>1. CASE Ctl!Refused(command[1], command[2])
    BY <1>3, <2>1 DEF Ctl!Command, Ctl!Begin, CallShape, StartShape, StopShape, EvidenceShape,
                      SweepShape, Starting
  <2>2. CASE ~Ctl!Refused(command[1], command[2])
    BY <1>2, <1>3, <1>4, <2>2, ActionsAssumption
       DEF Ctl!Command, Ctl!Refused, Ctl!FirstStep, Ctl!Kinds, Ctl!KeyKinds, Ctl!Phases,
           CallShape, StartShape, StopShape, EvidenceShape, SweepShape, Starting
  <2> QED
    BY <2>1, <2>2
<1>7. /\ pending' = pending \ {command}
      /\ UNCHANGED <<runner, failing, plan, scheduled, timedOut, samples>>
  BY DEF Issue
<1>8. RunnerTypes' /\ SamplesAreCounted'
  BY <1>1, <1>7 DEF RunnerTypes, SamplesAreCounted, samples
<1>9. session' \in [Actions -> {"none", "open", "closed"}] /\ faults' \in 0 .. MaxFaults
  BY <1>1, <1>4 DEF CtlTypes, TypeOK
<1> QED
  BY <1>4, <1>5, <1>6, <1>8, <1>9, CallingTyped

LEMMA EndingTyped ==
  ASSUME CaptureTyped, CloseController \/ Closed \/ Finish
  PROVE  CaptureTyped'
<1>1. TypeOK /\ CtlTypes /\ RunnerTypes /\ SamplesAreCounted /\ CallShape
  BY TypesTogether DEF CaptureTyped
<1>2. /\ UNCHANGED appOwn /\ UNCHANGED <<paused, instances, keys, rejecting, active, realized>>
      /\ UNCHANGED <<registered, commandIds, evidence, faults>>
      /\ UNCHANGED <<plan, scheduled, pending, timedOut, samples>>
  BY DEF CloseController, Closed, Finish, Ctl!Close, Ctl!controls, Ctl!memory, runnerVars
<1>3. /\ runner \in Over /\ runner' \in Over /\ failing' \in BOOLEAN
  BY <1>1 DEF CloseController, Closed, Finish, ProcessEnds, At, Goto, Over, RunnerTypes,
              runnerVars
<1>4. lockOwner' \in {lockOwner, Nobody}
  BY DEF CloseController, Closed, Finish, ProcessEnds, Ctl!Close, Ctl!controls
<1>5. session' \in [Actions -> {"none", "open", "closed"}]
  <2>1. session \in [Actions -> {"none", "open", "closed"}]
    BY <1>1 DEF CtlTypes
  <2>2. session' = session
        \/ session' = [a \in Actions |-> IF session[a] = "open" THEN "closed" ELSE session[a]]
    BY DEF CloseController, Closed, Finish, ProcessEnds, Ctl!Close, Ctl!memory
  <2> QED
    BY <2>1, <2>2
<1>6. call' \in Ctl!Calls /\ CallShape'
  <2>1. CASE call' = call
    <3>1. active' = active
      BY <1>2
    <3> QED
      BY <1>1, <2>1, <3>1 DEF CtlTypes, CallShape, StartShape, StopShape, EvidenceShape, SweepShape
  <2>2. \/ call' = call
        \/ Ctl!Begin("boundary", NoAction, "closed", "readback")
        \/ Ctl!Begin("close", NoAction, "stop", "sweep")
    BY DEF CloseController, Closed, Finish, Ctl!Close
  <2> QED
    BY <2>1, <2>2, BeginShape
<1>7. RunnerTypes' /\ SamplesAreCounted'
  BY <1>1, <1>2, <1>3
     DEF RunnerTypes, RunnerSteps, SamplesAreCounted, Over, Before, Window, Sampling, samples
<1>8. faults' \in 0 .. MaxFaults
  BY <1>1, <1>2 DEF TypeOK
<1> QED
  BY <1>2, <1>4, <1>5, <1>6, <1>7, <1>8, CallingTyped

(* Types, the shape of the method in progress and the number of samples are *)
(* inductive together.                                                      *)
LEMMA TypedStep ==
  ASSUME CaptureTyped, [CaptureNext]_captureVars
  PROVE  CaptureTyped'
<1>1. CASE UNCHANGED captureVars
  <2>1. /\ UNCHANGED ctlOwn /\ UNCHANGED appOwn /\ UNCHANGED shared
        /\ UNCHANGED runnerVars
    BY <1>1 DEF captureVars
  <2>2. RunnerTypes' /\ SamplesAreCounted'
    BY <2>1, TypesTogether DEF CaptureTyped, RunnerTypes, SamplesAreCounted, runnerVars, samples
  <2>3. TypeOK
    BY TypesTogether DEF CaptureTyped
  <2> QED
    BY <2>1, <2>2, <2>3, QuietStepTyped DEF TypeOK, shared, appOwn
<1>2. CASE Runner
  BY <1>2, QuietRunnerTyped, ResetTyped, BaselineRowsTyped, IssueTyped, EndingTyped DEF Runner
<1> QED
  BY <1>1, <1>2, StepsOfCapture, QuietRunnerTyped, ControlTyped, AppStepTyped

LEMMA InitTyped ==
  ASSUME CaptureInit
  PROVE  CaptureTyped
<1>1. TypeOK
  BY BoundsAssumption DEF CaptureInit, Init, TypeOK, ApiSteps, WorkerSteps, Statuses
<1>2. CtlTypes /\ CallShape
  BY ActionsAssumption
     DEF CaptureInit, Ctl!Init, CtlTypes, CallShape, StartShape, StopShape, EvidenceShape,
         SweepShape, Starting, Ctl!Calls, Ctl!Steps, Ctl!Records, Ctl!KeyKinds
<1>3. RunnerTypes
  <2>1. NoCounts \in Counts
    BY DEF NoCounts, Counts
  <2>2. NoReading \in [{"busy", "inflight", "peak", "depth", "level"} -> Nat]
    BY DEF NoReading
  <2>3. plan \in Plans /\ scheduled \in SUBSET Actions /\ pending = scheduled \X {"start", "stop"}
    BY DEF CaptureInit
  <2>4. /\ runner = "boot" /\ failing = FALSE /\ timedOut = {} /\ emitted = 0
        /\ previous = NoCounts /\ current = NoCounts /\ reading = NoReading
    BY DEF CaptureInit
  <2>5. 0 \in 0 .. PointCount
    BY ScheduleAssumption
  <2> QED
    BY <2>1, <2>2, <2>3, <2>4, <2>5 DEF RunnerTypes, RunnerSteps
<1>4. rejecting = Rejected
  BY DEF CaptureInit, Init, Ctl!Init, Rejected, Ctl!KeyKinds
<1>5. SamplesAreCounted
  BY DEF CaptureInit, SamplesAreCounted, Window, Sampling
<1> QED
  BY <1>1, <1>2, <1>3, <1>4, <1>5, TypesTogether DEF CaptureTyped

(* Every variable of a capture keeps its type, the three components changing *)
(* the shared ones in turn (run_capture.py, application.py,                  *)
(* interventions.py).                                                        *)
THEOREM CaptureTypeCorrect == CaptureSpec => []CaptureTypeOK
<1>1. CaptureTyped => CaptureTypeOK
  BY DEF CaptureTyped
<1> QED
  BY <1>1, InitTyped, TypedStep, PTL DEF CaptureSpec
-----------------------------------------------------------------------------
(* The commands and the windows. *)

(* Between two method calls the controller is idle; only the finally of main *)
(* calls close().                                                            *)
Rests ==
  /\ runner \in Before \cup (Window \ {"commands"}) \cup {"errors"} => call.step = "returned"
  /\ runner \notin Over => call.op # "close"

(* A command is issued at its transition, neither earlier nor later. *)
CommandsOnTime ==
  /\ runner \in Before \cup {"opening"} => pending = scheduled \X {"start", "stop"}
  /\ runner \in Window =>
       \A command \in scheduled \X {"start", "stop"} :
         /\ command \notin pending => Index(command) <= transition
         /\ command \in pending =>
              /\ transition <= Index(command)
              /\ runner # "commands" => transition < Index(command)
  /\ runner = "errors" => pending = {}

(* The actions whose start was issued and whose stop was not: at most one. *)
On == {a \in scheduled : <<a, "start">> \notin pending /\ <<a, "stop">> \in pending}

OneOn == \A a, b \in On : a = b

NoOverlap == \A a, b \in scheduled : a # b => ~Overlap(a, b)

Timing == Rests /\ CommandsOnTime /\ OneOn /\ NoOverlap

(* A step of a method: the method was in progress, and remains the same. *)
LEMMA ControlIsBusy ==
  ASSUME CaptureTyped, Control
  PROVE  /\ call.step \notin {"returned", "raised"}
         /\ call'.op = call.op
         /\ UNCHANGED runnerVars /\ UNCHANGED appOwn
<1>1. call \in Ctl!Calls
  BY TypesTogether DEF CaptureTyped, CtlTypes
<1>2. call.step \notin {"returned", "raised"}
  BY DEF Control, Ctl!Proceed, Ctl!SelectWorkers, Ctl!ClearPaused, Ctl!PauseWorkers, Ctl!TakeLock,
         Ctl!SetKey, Ctl!StopLock, Ctl!StopKey, Ctl!Readback, Ctl!Post, Ctl!Sweep, Ctl!Wipe,
         Ctl!At
<1>3. \A step : (Ctl!Goto(step) \/ Ctl!Ends(step)) => call'.op = call.op
  BY <1>1 DEF Ctl!Goto, Ctl!Ends, Ctl!Calls
<1>4. call'.op = call.op
  <2>1. CASE \E step : Ctl!Goto(step) \/ Ctl!Ends(step)
    BY <1>3, <2>1
  <2>2. CASE Ctl!SelectWorkers
    BY <1>1, <1>3, <2>2 DEF Ctl!SelectWorkers, Ctl!Raises, Ctl!Calls
  <2>3. CASE Ctl!Readback
    BY <1>1, <1>3, <2>3 DEF Ctl!Readback, Ctl!Raises, Ctl!Calls
  <2>4. CASE Ctl!Sweep
    BY <1>1, <1>3, <2>4 DEF Ctl!Sweep, Ctl!Calls
  <2>5. CASE Ctl!ClearPaused \/ Ctl!PauseWorkers \/ Ctl!TakeLock \/ Ctl!SetKey \/ Ctl!StopLock
             \/ Ctl!StopKey \/ Ctl!Post \/ Ctl!Wipe
    BY <2>1, <2>5
       DEF Ctl!ClearPaused, Ctl!PauseWorkers, Ctl!TakeLock, Ctl!SetKey, Ctl!StopLock, Ctl!StopKey,
           Ctl!Post, Ctl!Wipe, Ctl!Activate, Ctl!StopReturns, Ctl!StopRaises, Ctl!Returns,
           Ctl!Raises
  <2> QED
    BY <2>2, <2>3, <2>4, <2>5 DEF Control, Ctl!Proceed
<1> QED
  BY <1>2, <1>4 DEF Control

(* The steps of main that leave the controller and the schedule alone and do *)
(* not end the run.                                                          *)
Proceeds ==
  /\ UNCHANGED ctlOwn /\ UNCHANGED <<paused, lockOwner, plan, scheduled, pending, emitted>>
  /\ \/ runner \in Before /\ runner' \in Before
     \/ runner = "opening" /\ call.step = "returned" /\ runner' = "busy"
     \/ runner = "commands" /\ call.step = "returned" /\ Due = {} /\ runner' = "await"
     \/ runner = "await" /\ runner' \in {"await", "counters"}
     \/ runner \in Sampling \ {"emit"} /\ runner' \in Sampling

LEMMA RunnerMoves ==
  ASSUME CaptureTyped, Runner \/ (\E r \in Requests : TimeOut(r))
  PROVE  \/ runner' \in Over /\ UNCHANGED <<pending, scheduled>>
         \/ \E command \in pending : Issue(command)
         \/ Reset /\ runner' = "truncate"
         \/ BaselineRows /\ runner' = "opening"
         \/ EmitMetrics /\ emitted' = emitted + 1 /\ previous' = current
            /\ runner' = (IF emitted' = PointCount THEN "errors" ELSE "commands")
         \/ Proceeds
<1> USE DEF Before, Sampling, Over
<1>1. CASE WaitForWorkers("boot", "reset") \/ WaitForWorkers("rejoin", "baseline") \/ Truncate
           \/ Baseline
  BY <1>1 DEF WaitForWorkers, Truncate, Baseline, Proceeds, At, Goto, Aborts, samples
<1>2. CASE Opened \/ CommandRaised \/ Submit \/ Gathered
  BY <1>2 DEF Opened, CommandRaised, Submit, Gathered, Proceeds, At, Goto, Aborts, Raises,
              Ctl!At, shared, samples
<1>3. CASE ReadCounters \/ ReadRows \/ ReadBusy \/ ReadGauges \/ CountWorkers \/ ReadLevel
  BY <1>3 DEF ReadCounters, ReadRows, ReadBusy, ReadGauges, CountWorkers, ReadLevel, Read,
              Proceeds, At, Goto, Raises
<1>4. CASE RestartPeak
  BY <1>4 DEF RestartPeak, Proceeds, At, Goto, Raises, samples
<1>5. CASE CheckEmitErrors
  BY <1>5 DEF CheckEmitErrors, At, Goto, Raises
<1>6. CASE EmitMetrics
  BY <1>6 DEF EmitMetrics, At, Goto, Raises, LastSample
<1>7. CASE Reset
  BY <1>7 DEF Reset, Goto, Aborts
<1>8. CASE BaselineRows
  BY <1>8 DEF BaselineRows, Goto, Aborts
<1>9. CASE CloseController \/ Closed \/ Finish
  BY <1>9 DEF CloseController, Closed, Finish, ProcessEnds, At, Goto, runnerVars
<1>10. CASE \E r \in Requests : TimeOut(r)
  BY <1>10 DEF TimeOut, Proceeds, At, samples
<1> QED
  BY <1>1, <1>2, <1>3, <1>4, <1>5, <1>6, <1>7, <1>8, <1>9, <1>10 DEF Runner

LEMMA IndexType ==
  ASSUME CaptureTyped
  PROVE  /\ transition \in Int
         /\ scheduled \subseteq Actions /\ pending \subseteq scheduled \X {"start", "stop"}
         /\ \A a \in scheduled :
              /\ Index(<<a, "start">>) = Start[a] /\ Index(<<a, "stop">>) = Stop[a]
              /\ Start[a] \in Nat /\ Stop[a] \in Nat
              /\ Start[a] < Stop[a] /\ Stop[a] + 1 < PointCount
         /\ \A command \in scheduled \X {"start", "stop"} :
              /\ Index(command) \in Nat /\ Index(command) + 1 < PointCount
              /\ command = <<command[1], "start">> \/ command = <<command[1], "stop">>
BY TypesTogether, ScheduleAssumption DEF CaptureTyped, RunnerTypes, Index, transition

(* A start is issued when no action is under way, a stop when its action is. *)
LEMMA IssueFits ==
  ASSUME CaptureTyped, Timing, NEW command \in pending, Issue(command)
  PROVE  /\ command[1] \in scheduled /\ Index(command) = transition
         /\ command[2] = "start" => On = {} /\ On' = {command[1]}
         /\ command[2] = "stop" => On = {command[1]} /\ On' = {}
         /\ command[2] \in {"start", "stop"}
<1> DEFINE a == command[1]
<1>1. /\ a \in scheduled
      /\ command = <<a, "start">> \/ command = <<a, "stop">>
      /\ Index(command) = transition
      /\ runner = "commands"
      /\ pending' = pending \ {command} /\ scheduled' = scheduled
      /\ \A other \in pending : Index(other) = transition => Precedes(command, other)
  BY IndexType DEF Issue, Due, At
<1>2. \A c \in scheduled \X {"start", "stop"} :
        /\ c \notin pending => Index(c) <= transition
        /\ c \in pending => transition <= Index(c)
  BY <1>1 DEF Timing, CommandsOnTime, Window
<1>3. transition \in Int /\ Start[a] \in Nat /\ Stop[a] \in Nat /\ Start[a] < Stop[a]
  BY <1>1, IndexType
<1> HIDE DEF a
<1>4. CASE command = <<a, "start">>
  <2>1. transition = Start[a]
    BY <1>1, <1>4, IndexType
  <2>2. <<a, "stop">> \in pending
    BY <1>1, <1>2, <1>3, <2>1, IndexType
  <2>3. ASSUME NEW b \in On PROVE FALSE
    <3>1. b \in scheduled /\ <<b, "start">> \notin pending /\ <<b, "stop">> \in pending /\ b # a
      BY <1>4, <2>3 DEF On
    <3>2. Start[b] <= transition /\ transition <= Stop[b]
      BY <1>2, <3>1, IndexType
    <3>3. transition # Stop[b]
      BY <1>1, <1>4, <3>1, IndexType DEF Precedes
    <3>4. Start[b] \in Nat /\ Stop[b] \in Nat
      BY <3>1, IndexType
    <3>5. Overlap(a, b)
      BY <1>3, <2>1, <3>2, <3>3, <3>4 DEF Overlap
    <3> QED
      BY <1>1, <3>1, <3>5 DEF Timing, NoOverlap
  <2>4. On' = {a}
    <3>1. \A b \in scheduled : b # a => (b \in On' <=> b \in On)
      BY <1>1, <1>4 DEF On
    <3>2. a \in On'
      BY <1>1, <1>4, <2>2 DEF On
    <3>3. On' \subseteq scheduled
      BY <1>1 DEF On
    <3> QED
      BY <2>3, <3>1, <3>2, <3>3
  <2> QED
    BY <1>1, <1>4, <2>3, <2>4 DEF a
<1>5. CASE command = <<a, "stop">>
  <2>1. transition = Stop[a] /\ <<a, "stop">> \in pending
    BY <1>1, <1>5, IndexType
  <2>2. <<a, "start">> \notin pending
    BY <1>1, <1>2, <1>3, <2>1, IndexType
  <2>3. On = {a}
    BY <1>1, <2>1, <2>2 DEF On, Timing, OneOn
  <2>4. On' = {}
    <3>1. \A b \in On' : b \in On /\ b # a
      BY <1>1, <1>5 DEF On
    <3> QED
      BY <2>3, <3>1
  <2> QED
    BY <1>1, <1>5, <2>3, <2>4 DEF a
<1> QED
  BY <1>1, <1>4, <1>5

LEMMA TimingInit ==
  ASSUME CaptureInit
  PROVE  Timing
BY DEF CaptureInit, Ctl!Init, Timing, Rests, CommandsOnTime, OneOn, On, NoOverlap, Before, Window,
       Sampling, Over

LEMMA TimingStep ==
  ASSUME CaptureTyped, Timing, [CaptureNext]_captureVars
  PROVE  Timing'
<1>0. /\ transition \in Int /\ emitted \in Nat /\ PointCount \in Nat
      /\ runner \in RunnerSteps /\ pending \subseteq scheduled \X {"start", "stop"}
      /\ call \in Ctl!Calls
  BY IndexType, TypesTogether, ScheduleAssumption
     DEF CaptureTyped, RunnerTypes, CtlTypes, transition
<1> USE DEF Timing
<1>1. ASSUME UNCHANGED <<pending, scheduled>> PROVE OneOn' /\ NoOverlap'
  BY <1>1 DEF OneOn, On, NoOverlap
<1>2. CASE UNCHANGED <<call, runner, pending, scheduled, emitted>>
  <2>1. Rests' /\ CommandsOnTime'
    BY <1>2 DEF Rests, CommandsOnTime, transition
  <2> QED
    BY <1>1, <1>2, <2>1
<1>3. CASE Control
  <2>1. /\ UNCHANGED <<runner, pending, scheduled, emitted>>
        /\ call.step # "returned" /\ call'.op = call.op
    BY <1>3, ControlIsBusy DEF runnerVars, samples
  <2>2. Rests'
    BY <2>1 DEF Rests
  <2>3. CommandsOnTime'
    BY <2>1 DEF CommandsOnTime, transition
  <2> QED
    BY <1>1, <2>1, <2>2, <2>3
<1>4. CASE runner' \in Over /\ UNCHANGED <<pending, scheduled>>
  <2>1. Rests' /\ CommandsOnTime'
    BY <1>4 DEF Rests, CommandsOnTime, Over, Before, Window, Sampling
  <2> QED
    BY <1>1, <1>4, <2>1
<1>5. CASE \E command \in pending : Issue(command)
  <2>1. PICK command \in pending : Issue(command)
    BY <1>5
  <2>2. /\ runner = "commands" /\ runner' = "commands" /\ UNCHANGED <<scheduled, emitted>>
        /\ pending' = pending \ {command} /\ call'.op = "command"
    BY <2>1 DEF Issue, At, samples, Ctl!Command, Ctl!Begin
  <2>3. Rests'
    BY <2>2 DEF Rests, Before, Window, Sampling
  <2>4. CommandsOnTime'
    BY <1>0, <2>1, <2>2, IssueFits, IndexType
       DEF CommandsOnTime, transition, Before, Window, Sampling
  <2>5. OneOn' /\ NoOverlap'
    BY <2>1, <2>2, IssueFits DEF OneOn, NoOverlap
  <2> QED
    BY <2>3, <2>4, <2>5
<1>6. CASE Reset /\ runner' = "truncate"
  <2>1. runner = "reset" /\ UNCHANGED <<call, pending, scheduled, emitted>>
    BY <1>6 DEF Reset, At, samples
  <2>2. Rests' /\ CommandsOnTime'
    BY <1>6, <2>1 DEF Rests, CommandsOnTime, Before, Window, Sampling, Over
  <2> QED
    BY <1>1, <2>1, <2>2
<1>7. CASE BaselineRows /\ runner' = "opening"
  <2>1. runner = "baselineRows" /\ UNCHANGED <<pending, scheduled, emitted>>
        /\ call'.op = "boundary"
    BY <1>7 DEF BaselineRows, At, Goto, Aborts, Ctl!Begin
  <2>2. Rests' /\ CommandsOnTime'
    BY <1>7, <2>1 DEF Rests, CommandsOnTime, Before, Window, Sampling, Over
  <2> QED
    BY <1>1, <2>1, <2>2
<1>8. CASE /\ EmitMetrics /\ emitted' = emitted + 1
           /\ runner' = (IF emitted' = PointCount THEN "errors" ELSE "commands")
  <2>1. runner = "emit" /\ UNCHANGED <<call, pending, scheduled>>
    BY <1>8 DEF EmitMetrics, At, ctlOwn
  <2>2. Rests'
    BY <1>8, <2>1 DEF Rests, Before, Window, Sampling, Over
  <2>3. \A command \in scheduled \X {"start", "stop"} :
          /\ command \notin pending => Index(command) <= transition
          /\ command \in pending => transition < Index(command)
    BY <2>1 DEF CommandsOnTime, Window, Sampling
  <2>4. emitted' = PointCount => pending = {}
    BY <1>0, <1>8, <2>3, IndexType DEF transition
  <2>5. \A command \in scheduled \X {"start", "stop"} :
          /\ command \notin pending => Index(command) <= transition'
          /\ command \in pending => transition' <= Index(command)
    BY <1>0, <1>8, <2>3, IndexType DEF transition
  <2>6. CommandsOnTime'
    BY <1>8, <2>1, <2>4, <2>5 DEF CommandsOnTime, Before, Window, Sampling, Index
  <2> QED
    BY <1>1, <2>1, <2>2, <2>6
<1>9. CASE Proceeds
  <2>1. UNCHANGED <<call, pending, scheduled, emitted>>
    BY <1>9 DEF Proceeds, ctlOwn
  <2>2. Rests'
    BY <1>9, <2>1 DEF Proceeds, Rests, Before, Window, Sampling, Over
  <2>3. CommandsOnTime'
    <3>1. CASE runner \in Before /\ runner' \in Before
      BY <2>1, <3>1 DEF CommandsOnTime, Before, Window, Sampling
    <3>2. CASE runner = "opening" /\ runner' = "busy"
      <4>1. transition = -1
        BY <1>0, <3>2 DEF CaptureTyped, SamplesAreCounted, transition
      <4> QED
        BY <1>0, <2>1, <3>2, <4>1, IndexType
           DEF CommandsOnTime, Before, Window, Sampling, Index, transition
    <3>3. CASE runner = "commands" /\ Due = {} /\ runner' = "await"
      <4>1. \A command \in pending : transition < Index(command)
        BY <1>0, <3>3, IndexType DEF CommandsOnTime, Window, Due
      <4> QED
        BY <2>1, <3>3, <4>1 DEF CommandsOnTime, Before, Window, Sampling, Index, transition
    <3>4. CASE runner \in {"await"} \cup Sampling /\ runner' \in {"await"} \cup Sampling
      BY <2>1, <3>4 DEF CommandsOnTime, Before, Window, Sampling, Index, transition
    <3> QED
      BY <1>9, <3>1, <3>2, <3>3, <3>4 DEF Proceeds, Sampling
  <2> QED
    BY <1>1, <2>1, <2>2, <2>3
<1>10. CASE AppStep \/ UNCHANGED captureVars
  <2>1. UNCHANGED <<call, runner, pending, scheduled, emitted>>
    BY <1>10, AppStepFrame DEF captureVars, ctlOwn, runnerVars, samples
  <2> QED
    BY <1>2, <2>1
<1>11. CASE Runner \/ \E r \in Requests : TimeOut(r)
  BY <1>4, <1>5, <1>6, <1>7, <1>8, <1>9, <1>11, RunnerMoves
<1> QED
  BY <1>3, <1>10, <1>11, StepsOfCapture

-----------------------------------------------------------------------------
(* The controls and the windows. *)

(* The run is under way and no method has raised. *)
Live == runner \notin Over /\ call.step # "raised"

(* The actions whose controls are set: those under way, except the one that *)
(* a start or a stop is dealing with.                                       *)
Held ==
  CASE call.step \in Starting -> {}
    [] call.step = "stop"     -> {call.action}
    [] OTHER                  -> On

(* A start sets the controls of the action that has just begun, a stop those *)
(* of the one that has just ended.                                           *)
CallFits ==
  /\ call.step \in Starting => On = {call.action}
  /\ call.step \in {"clear", "pause"} => call.workers # {}
  /\ call.step = "stop" => On = {}

(* The controls are those of the actions S, and of no other. *)
ControlsOf(S) ==
  /\ active = S
  /\ \A a \in S : Ctl!InForce(a)
  /\ \A k \in Ctl!KeyKinds : keys[k] # NoAction => keys[k] \in S /\ Kind[keys[k]] = k
  /\ paused # {} => \E a \in S : Kind[a] = "worker_pause"
  /\ lockOwner = Controller => \E a \in S : Kind[a] = "postgres_lock"

ControlsFit == Live => CallFits /\ ControlsOf(Held)

(* A pause takes at least one of the registered workers. *)
LEMMA ChosenIsSomeone ==
  ASSUME NEW present \in SUBSET Workers, present # {},
         NEW chosen \in SUBSET present,
         Ctl!Cardinality(chosen) = Ctl!PauseCount(Ctl!Cardinality(present))
  PROVE  chosen # {}
<1>1. Cardinality(present) \in Nat /\ Cardinality(present) >= 1
  BY ActorsAssumption, FS_Subset, FS_CardinalityType, FS_EmptySet
<1>2. Ctl!PauseCount(Cardinality(present)) >= 1
  <2> DEFINE n == Cardinality(present)
             p == PauseFraction[1]
             q == PauseFraction[2]
             rounded == (2 * p * n + q) \div (2 * q)
             wanted == IF rounded < 1 THEN 1 ELSE rounded
  <2>1. p \in Nat /\ q \in Nat /\ q > 0
    BY FractionAssumption
  <2>2. Ctl!PauseCount(n) = IF wanted < n THEN wanted ELSE n
    BY DEF Ctl!PauseCount
  <2>3. n \in Nat /\ n >= 1
    BY <1>1
  <2> HIDE DEF n, p, q
  <2>4. 2 * p * n \in Nat
    BY <2>1, <2>3
  <2>5. 2 * p * n + q \in Int /\ 2 * q \in Int /\ 2 * q > 0
    BY <2>1, <2>4
  <2>6. rounded \in Int
    BY <2>5
  <2> HIDE DEF rounded
  <2>7. wanted \in Int /\ wanted >= 1
    BY <2>6
  <2> HIDE DEF wanted
  <2> QED
    BY <2>2, <2>3, <2>7 DEF n
<1>3. Cardinality(chosen) >= 1
  BY <1>1, <1>2, SameCardinality
<1> QED
  BY <1>3, FS_EmptySet

(* The step of a method that only moves to its next step. *)
LEMMA CallFieldsStay ==
  ASSUME CaptureTyped
  PROVE  \A step : Ctl!Goto(step) =>
           /\ call'.step = step
           /\ call'.op = call.op /\ call'.action = call.action /\ call'.phase = call.phase
           /\ call'.workers = call.workers /\ call'.index = call.index
<1>1. call \in Ctl!Calls
  BY TypesTogether DEF CaptureTyped, CtlTypes
<1> QED
  BY <1>1 DEF Ctl!Calls, Ctl!Goto

(* The external call of a start sets the controls of its action. *)
LEMMA StartSetsControls ==
  ASSUME CaptureTyped, ControlsFit, Live, Control, Live', call.step \in Starting
  PROVE  CallFits' /\ (ControlsOf(Held))'
<1>0. call.op = "command" /\ call.phase = "start" /\ call.action \in Actions
  BY DEF CaptureTyped, CallShape, StartShape
<1>a. PICK a \in Actions : a = call.action
  BY <1>0
<1>1. /\ On = {a} /\ active = {} /\ paused = {} /\ lockOwner # Controller
      /\ \A k \in Ctl!KeyKinds : keys[k] = NoAction
      /\ call.step \in {"clear", "pause"} => call.workers # {}
  BY <1>a DEF ControlsFit, CallFits, ControlsOf, Held
<1>2. On' = {a}
  BY <1>1 DEF Control, On, runnerVars
<1>3. /\ call \in Ctl!Calls /\ active \in SUBSET Actions
      /\ session \in [Actions -> {"none", "open", "closed"}]
      /\ realized \in [Actions -> SUBSET Workers]
      /\ keys \in [Ctl!KeyKinds -> Actions \cup {NoAction}]
      /\ instances \in SUBSET Workers
  BY TypesTogether DEF CaptureTyped, CtlTypes, TypeOK
<1>4. a \in Actions /\ a # NoAction
  BY ActionsAssumption
<1>5. ASSUME call'.step \in {"clear", "pause"}, call'.action = a, call'.workers # {},
             UNCHANGED <<keys, lockOwner, active>>, paused' = {}
      PROVE  CallFits' /\ (ControlsOf(Held))'
  <2>1. Held' = {} /\ CallFits'
    BY <1>2, <1>5 DEF Held, CallFits, Starting
  <2> QED
    BY <1>1, <1>5, <2>1 DEF ControlsOf
<1>6. ASSUME NEW lock, Ctl!Activate(lock), (Ctl!InForce(a))',
             \A k \in Ctl!KeyKinds : keys'[k] # NoAction => keys'[k] = a /\ Kind[a] = k,
             paused' # {} => Kind[a] = "worker_pause",
             lockOwner' = Controller => Kind[a] = "postgres_lock"
      PROVE  CallFits' /\ (ControlsOf(Held))'
  <2>1. call'.step = "readback" /\ active' = {a}
    BY <1>a, <1>1, <1>6, CallFieldsStay DEF Ctl!Activate
  <2>2. Held' = {a} /\ CallFits'
    BY <1>2, <2>1 DEF Held, CallFits, Starting
  <2> QED
    BY <1>6, <2>1, <2>2 DEF ControlsOf
<1>7. ~Ctl!Raises
  BY DEF Live, Ctl!Raises, Ctl!Ends
<1>8. CASE Ctl!SelectWorkers
  <2>1. PICK chosen \in SUBSET instances :
          /\ instances # {}
          /\ Ctl!Cardinality(chosen) = Ctl!PauseCount(Ctl!Cardinality(instances))
          /\ call' = [call EXCEPT !.step = "clear", !.workers = chosen]
    BY <1>7, <1>8 DEF Ctl!SelectWorkers
  <2>2. chosen # {}
    BY <1>3, <2>1, ChosenIsSomeone
  <2>3. call'.step = "clear" /\ call'.workers = chosen /\ call'.action = a
    BY <1>a, <1>3, <2>1 DEF Ctl!Calls
  <2>4. UNCHANGED <<keys, lockOwner, active, paused>>
    BY <1>8 DEF Ctl!SelectWorkers, Ctl!controls, Ctl!memory
  <2> QED
    BY <1>1, <1>5, <2>2, <2>3, <2>4
<1>9. CASE Ctl!ClearPaused
  <2>1. /\ paused' = {} /\ Ctl!Goto("pause") /\ UNCHANGED <<keys, lockOwner, active>>
        /\ call.step = "clear"
    BY <1>7, <1>9 DEF Ctl!ClearPaused, Ctl!At, Ctl!memory
  <2> QED
    BY <1>a, <1>1, <1>5, <2>1, CallFieldsStay
<1>10. CASE Ctl!PauseWorkers
  <2>1. /\ paused' = call.workers /\ Ctl!Activate("none") /\ UNCHANGED <<keys, lockOwner>>
        /\ call.step = "pause"
    BY <1>1, <1>7, <1>10 DEF Ctl!PauseWorkers, Ctl!At
  <2>2. Kind[a] = "worker_pause"
    BY <1>a, <2>1 DEF CaptureTyped, CallShape, StartShape, Starting
  <2>3. (Ctl!InForce(a))'
    BY <1>a, <1>1, <1>3, <1>4, <2>1, <2>2 DEF Ctl!InForce, Ctl!Activate
  <2> QED
    BY <1>1, <1>6, <2>1, <2>2, <2>3
<1>11. CASE Ctl!TakeLock
  <2>1. /\ lockOwner' = Controller /\ Ctl!Activate("open") /\ UNCHANGED <<keys, paused>>
        /\ call.step = "lock"
    BY <1>7, <1>11 DEF Ctl!TakeLock, Ctl!At
  <2>2. Kind[a] = "postgres_lock"
    BY <1>a, <2>1 DEF CaptureTyped, CallShape, StartShape, Starting
  <2>3. (Ctl!InForce(a))'
    BY <1>a, <1>3, <1>4, <2>1, <2>2 DEF Ctl!InForce, Ctl!Activate
  <2> QED
    BY <1>1, <1>6, <2>1, <2>2, <2>3
<1>12. CASE Ctl!SetKey
  <2>1. /\ keys' = [keys EXCEPT ![Kind[a]] = a] /\ Ctl!Activate("none")
        /\ UNCHANGED <<lockOwner, paused>> /\ call.step = "set"
    BY <1>a, <1>7, <1>12 DEF Ctl!SetKey, Ctl!At
  <2>2. Kind[a] \in Ctl!KeyKinds
    BY <1>a, <2>1 DEF CaptureTyped, CallShape, StartShape, Starting
  <2>3. (Ctl!InForce(a))'
    BY <1>3, <2>1, <2>2 DEF Ctl!InForce, Ctl!KeyKinds
  <2>4. \A k \in Ctl!KeyKinds : keys'[k] # NoAction => keys'[k] = a /\ Kind[a] = k
    BY <1>1, <1>3, <2>1, <2>2
  <2> QED
    BY <1>1, <1>6, <2>1, <2>3, <2>4
<1> QED
  BY <1>8, <1>9, <1>10, <1>11, <1>12
     DEF Control, Ctl!Proceed, Starting, Ctl!StopLock, Ctl!StopKey, Ctl!Readback, Ctl!Post,
         Ctl!Sweep, Ctl!Wipe, Ctl!At

(* The external call of a stop leaves no control set. *)
LEMMA StopClearsControls ==
  ASSUME CaptureTyped, Rests, ControlsFit, Live, Control, Live', call.step = "stop"
  PROVE  CallFits' /\ (ControlsOf(Held))'
<1> DEFINE a == call.action
<1>1. /\ call.op = "command" /\ a \in Actions
      /\ On = {} /\ active = {a} /\ Ctl!InForce(a)
      /\ \A k \in Ctl!KeyKinds : keys[k] # NoAction => keys[k] = a /\ Kind[a] = k
      /\ paused # {} => Kind[a] = "worker_pause"
      /\ lockOwner = Controller => Kind[a] = "postgres_lock"
  BY DEF CaptureTyped, CallShape, StopShape, ControlsFit, CallFits, ControlsOf, Held, Live, Rests,
         Starting
<1>2. On' = {}
  BY <1>1 DEF Control, On, runnerVars
<1>3. keys \in [Ctl!KeyKinds -> Actions \cup {NoAction}] /\ Kind[a] \in Ctl!Kinds
  BY <1>1, TypesTogether, ActionsAssumption DEF CaptureTyped, CtlTypes
<1> HIDE DEF a
<1>4. ASSUME Ctl!StopReturns, paused' = {}, lockOwner' # Controller,
             \A k \in Ctl!KeyKinds : keys'[k] = NoAction
      PROVE  CallFits' /\ (ControlsOf(Held))'
  <2>1. call'.step = "readback" /\ active' = {}
    BY <1>1, <1>4, CallFieldsStay DEF Ctl!StopReturns, Ctl!Forget, a
  <2>2. Held' = {} /\ CallFits'
    BY <1>2, <2>1 DEF Held, CallFits, Starting
  <2> QED
    BY <1>4, <2>1, <2>2 DEF ControlsOf
<1>5. ~Ctl!Raises
  BY DEF Live, Ctl!Raises, Ctl!Ends
<1>6. CASE Ctl!StopLock
  <2>1. /\ Ctl!StopReturns /\ lockOwner' = Nobody /\ UNCHANGED <<paused, keys>>
        /\ Kind[a] = "postgres_lock"
    BY <1>5, <1>6 DEF Ctl!StopLock, Ctl!StopRaises, Ctl!OfKind, a
  <2>2. paused = {} /\ \A k \in Ctl!KeyKinds : keys[k] = NoAction
    BY <1>1, <2>1 DEF Ctl!KeyKinds
  <2> QED
    BY <1>4, <2>1, <2>2, NamesAssumption
<1>7. CASE Ctl!StopKey
  <2>1. /\ Ctl!StopReturns /\ UNCHANGED lockOwner /\ Kind[a] # "postgres_lock"
        /\ IF Kind[a] = "worker_pause" THEN paused' = {} /\ UNCHANGED keys
           ELSE keys' = [keys EXCEPT ![Kind[a]] = NoAction] /\ UNCHANGED paused
    BY <1>1, <1>5, <1>7 DEF Ctl!StopKey, Ctl!StopRaises, Ctl!OfKind, a
  <2>2. paused' = {} /\ lockOwner' # Controller
    BY <1>1, <2>1
  <2>3. \A k \in Ctl!KeyKinds : keys'[k] = NoAction
    BY <1>1, <1>3, <2>1 DEF Ctl!KeyKinds
  <2> QED
    BY <1>4, <2>1, <2>2, <2>3
<1> QED
  BY <1>6, <1>7
     DEF Control, Ctl!Proceed, Ctl!SelectWorkers, Ctl!ClearPaused, Ctl!PauseWorkers, Ctl!TakeLock,
         Ctl!SetKey, Ctl!Readback, Ctl!Post, Ctl!Sweep, Ctl!Wipe, Ctl!At

(* The evidence changes no control. *)
LEMMA EvidenceKeepsControls ==
  ASSUME CaptureTyped, Rests, ControlsFit, Live, Control, Live',
         call.step \notin Starting \cup {"stop"}
  PROVE  CallFits' /\ (ControlsOf(Held))'
<1>1. call.op # "close" /\ call \in Ctl!Calls /\ UNCHANGED runnerVars
  BY TypesTogether DEF Live, Rests, CaptureTyped, CtlTypes, Control
<1>2. /\ call'.step \in {"post", "returned"}
      /\ UNCHANGED <<paused, keys, lockOwner, active, session, realized>>
  <2>1. CASE Ctl!Readback
    <3>1. /\ \/ call' = [call EXCEPT !.step = "post", !.delay = keys["redis_enqueue_delay"]]
             \/ Ctl!Raises
          /\ UNCHANGED <<paused, keys, lockOwner, active, session, realized>>
      BY <2>1 DEF Ctl!Readback, Ctl!controls, Ctl!memory
    <3>2. ~Ctl!Raises
      BY DEF Live, Ctl!Raises, Ctl!Ends
    <3>3. call'.step = "post"
      BY <1>1, <3>1, <3>2 DEF Ctl!Calls
    <3> QED
      BY <3>1, <3>3
  <2>2. CASE Ctl!Post
    BY <1>1, <2>2 DEF Ctl!Post, Ctl!controls, Ctl!Returns, Ctl!Raises, Ctl!Ends, Live
  <2> QED
    BY <1>1, <2>1, <2>2
       DEF Control, Ctl!Proceed, Ctl!SelectWorkers, Ctl!ClearPaused, Ctl!PauseWorkers,
           Ctl!TakeLock, Ctl!SetKey, Ctl!StopLock, Ctl!StopKey, Ctl!Sweep, Ctl!Wipe, Ctl!At,
           Starting, CaptureTyped, CallShape, SweepShape
<1>3. On' = On
  BY <1>1 DEF On, runnerVars
<1>4. Held = On /\ Held' = On /\ CallFits'
  BY <1>2, <1>3 DEF Held, CallFits, Starting
<1> QED
  BY <1>2, <1>4 DEF ControlsFit, ControlsOf, Ctl!InForce

(* The application neither takes the controller's lock nor releases it. *)
LEMMA AppKeepsLock ==
  ASSUME AppStep
  PROVE  lockOwner' = Controller <=> lockOwner = Controller
<1> USE NamesAssumption DEF redisVars, controlVars, apiVars, workerVars, Dies
<1>1. ASSUME NEW r \in Requests, Send(r) \/ Handler(r) PROVE lockOwner' = lockOwner
  BY <1>1 DEF Send, Handler, Enter, Gate, Push, Stamp, TallyEnqueue, Leave, Record, Emit, Reply
<1>2. ASSUME NEW w \in Workers, Work(w)
      PROVE  lockOwner' = Controller <=> lockOwner = Controller
  BY <1>2 DEF Work, Register, Check, Pop, Fetch, TallyDequeue, Claim, Mark, Lock, Insert, Unmark,
              RecordWrite, Release, EmitCompletion
<1> QED
  BY <1>1, <1>2 DEF AppStep

(* What leaves the controls, the method and the schedule alone keeps them. *)
LEMMA QuietKeepsControls ==
  ASSUME ControlsFit, Live' => Live,
         UNCHANGED <<paused, keys, active, session, realized, call, pending, scheduled>>,
         lockOwner' = Controller <=> lockOwner = Controller
  PROVE  ControlsFit'
<1>1. On' = On /\ Held' = Held
  BY DEF On, Held
<1> QED
  BY <1>1 DEF ControlsFit, CallFits, ControlsOf, Ctl!InForce

LEMMA ControlsInit ==
  ASSUME CaptureInit
  PROVE  ControlsFit
<1>1. On = {} /\ Held = {}
  BY DEF CaptureInit, Ctl!Init, On, Held, Starting
<1> QED
  BY <1>1, NamesAssumption
     DEF CaptureInit, Init, Ctl!Init, ControlsFit, CallFits, ControlsOf, Starting

LEMMA ControlsStep ==
  ASSUME CaptureTyped, Timing, ControlsFit, [CaptureNext]_captureVars
  PROVE  ControlsFit'
<1>1. CASE Control
  <2>1. Live' => Live
    BY <1>1, ControlIsBusy DEF Live, runnerVars
  <2> QED
    BY <1>1, <2>1, StartSetsControls, StopClearsControls, EvidenceKeepsControls
       DEF ControlsFit, Timing
<1>2. CASE AppStep
  <2>1. UNCHANGED <<paused, keys, active, session, realized, call, pending, scheduled, runner>>
    BY <1>2, AppStepFrame DEF ctlOwn, runnerVars
  <2> QED
    BY <1>2, <2>1, AppKeepsLock, QuietKeepsControls DEF Live
<1>3. CASE UNCHANGED captureVars
  BY <1>3, QuietKeepsControls DEF captureVars, shared, ctlOwn, runnerVars, Live
<1>4. CASE runner' \in Over
  BY <1>4 DEF ControlsFit, Live
<1>5. CASE \E command \in pending : Issue(command)
  <2>1. PICK command \in pending : Issue(command)
    BY <1>5
  <2>2. /\ runner = "commands" /\ call.step = "returned"
        /\ Ctl!Command(command[1], command[2], Index(command))
    BY <2>1 DEF Issue, At, Ctl!At
  <2>3. /\ CallFits /\ ControlsOf(On)
    BY <2>2 DEF ControlsFit, Live, Over, Held, Starting
  <2>4. UNCHANGED <<paused, keys, lockOwner, active, session, realized>>
    BY <2>2 DEF Ctl!Command, Ctl!controls, Ctl!memory
  <2>5. CASE Ctl!Refused(command[1], command[2])
    BY <2>2, <2>5 DEF Ctl!Command, Ctl!Begin, ControlsFit, Live
  <2>6. CASE ~Ctl!Refused(command[1], command[2])
    <3>1. call'.step = Ctl!FirstStep(command[1], command[2]) /\ call'.action = command[1]
      BY <2>2, <2>6 DEF Ctl!Command
    <3>2. CASE command[2] = "start"
      <4>1. call'.step \in {"select", "lock", "set"}
        BY <3>1, <3>2 DEF Ctl!FirstStep
      <4>2. Held' = {} /\ On = {} /\ CallFits'
        BY <2>1, <3>1, <3>2, <4>1, IssueFits DEF Held, CallFits, Starting
      <4> QED
        BY <2>3, <2>4, <4>2 DEF ControlsFit, ControlsOf
    <3>3. CASE command[2] = "stop"
      <4>1. call'.step = "stop"
        BY <3>1, <3>3 DEF Ctl!FirstStep
      <4>2. Held' = On /\ CallFits'
        BY <2>1, <3>1, <3>3, <4>1, IssueFits DEF Held, CallFits, Starting
      <4> QED
        BY <2>3, <2>4, <4>2 DEF ControlsFit, ControlsOf, Ctl!InForce
    <3> QED
      BY <2>1, <3>2, <3>3, IssueFits
  <2> QED
    BY <2>5, <2>6
<1>6. CASE Reset /\ runner' = "truncate"
  <2>1. /\ runner = "reset" /\ runner \in Before
        /\ UNCHANGED <<call, lockOwner, active, session, realized, pending, scheduled>>
        /\ \/ paused' = {} /\ keys' = [k \in Ctl!KeyKinds |-> NoAction]
           \/ UNCHANGED <<paused, keys>>
    BY <1>6 DEF Reset, At, Before
  <2>2. call.step = "returned" /\ On = {} /\ On' = {}
    BY <2>1 DEF Timing, Rests, CommandsOnTime, On
  <2>3. /\ ControlsOf({}) /\ Held' = {} /\ CallFits'
    BY <2>1, <2>2 DEF ControlsFit, Live, Over, Held, Starting, CallFits
  <2> QED
    BY <2>1, <2>3 DEF ControlsFit, ControlsOf
<1>7. CASE BaselineRows /\ runner' = "opening"
  <2>1. /\ runner = "baselineRows"
        /\ UNCHANGED <<paused, keys, lockOwner, active, session, realized, pending, scheduled>>
        /\ call'.step = "readback"
    BY <1>7 DEF BaselineRows, At, Goto, Aborts, Ctl!Begin
  <2>2. call.step = "returned"
    BY <2>1 DEF Timing, Rests, Before
  <2>3. ControlsOf(On) /\ Held' = On /\ CallFits'
    BY <2>1, <2>2 DEF ControlsFit, Live, Over, Held, Starting, CallFits, On
  <2> QED
    BY <2>1, <2>3 DEF ControlsFit, ControlsOf, Ctl!InForce
<1>8. CASE EmitMetrics \/ Proceeds
  <2>1. UNCHANGED <<paused, keys, lockOwner, active, session, realized, call, pending, scheduled>>
    BY <1>8 DEF EmitMetrics, Proceeds, ctlOwn
  <2>2. runner \notin Over
    BY <1>8 DEF EmitMetrics, Proceeds, At, Over, Before, Sampling
  <2> QED
    BY <2>1, <2>2, QuietKeepsControls DEF Live
<1>9. CASE Runner \/ \E r \in Requests : TimeOut(r)
  BY <1>4, <1>5, <1>6, <1>7, <1>8, <1>9, RunnerMoves
<1> QED
  BY <1>1, <1>2, <1>3, <1>9, StepsOfCapture

(* The controls of a window are those of the actions the schedule has in *)
(* effect at its transition.                                             *)
LEMMA ControlsOfWindow ==
  ASSUME CaptureTyped, Timing, ControlsFit, runner = "await"
  PROVE  ControlsOf({a \in scheduled : InEffect(a)})
<1>1. call.step = "returned"
  BY DEF Timing, Rests, Window
<1>2. ControlsOf(On)
  BY <1>1 DEF ControlsFit, Live, Over, Held, Starting
<1>3. On = {a \in scheduled : InEffect(a)}
  <2>1. \A a \in scheduled :
          /\ <<a, "start">> \notin pending <=> Start[a] <= transition
          /\ <<a, "stop">> \in pending <=> transition < Stop[a]
    <3> TAKE a \in scheduled
    <3>1. /\ <<a, "start">> \in scheduled \X {"start", "stop"}
          /\ <<a, "stop">> \in scheduled \X {"start", "stop"}
      OBVIOUS
    <3>2. /\ Index(<<a, "start">>) = Start[a] /\ Index(<<a, "stop">>) = Stop[a]
          /\ Start[a] \in Nat /\ Stop[a] \in Nat /\ transition \in Int
      BY IndexType
    <3> QED
      BY <3>1, <3>2 DEF Timing, CommandsOnTime, Window
  <2> QED
    BY <2>1 DEF On, InEffect
<1> QED
  BY <1>2, <1>3

(* While the requests of a window are served, the actions in force are those *)
(* the schedule has in effect at this transition, and no control is set but  *)
(* theirs, whatever call failed before (run_capture.py's loop over           *)
(* scheduled_action_commands, with the controller of interventions.py).      *)
THEOREM WindowsAreBracketed == CaptureSpec => []CommandsBracketWindows
<1>1. CaptureTyped /\ Timing /\ ControlsFit => CommandsBracketWindows
  BY ControlsOfWindow DEF ControlsOf, CommandsBracketWindows, ScheduledNow, At
<1> QED
  BY <1>1, InitTyped, TypedStep, TimingInit, TimingStep, ControlsInit, ControlsStep, PTL
     DEF CaptureSpec

-----------------------------------------------------------------------------
(* The requests and the windows. *)

(* A request whose window has not begun is not sent; one whose window is     *)
(* over is answered, in time, with 202 or 503.                               *)
NotSent(r) == transition < plan[r] \/ (plan[r] = transition /\ runner = "commands")
Settled(r) == plan[r] < transition \/ (plan[r] = transition /\ runner \in Sampling)

Answers ==
  runner \notin Over =>
    \A r \in Requests :
      /\ NotSent(r) => apiPc[r] = "idle" /\ r \notin timedOut
      /\ Settled(r) => Accepts(r)

LEMMA PlanType ==
  ASSUME CaptureTyped
  PROVE  /\ transition \in Int /\ emitted \in Nat /\ PointCount \in Nat
         /\ \A r \in Requests :
              plan[r] \in Nat /\ plan[r] # PointCount - 1 /\ plan[r] <= PointCount
         /\ runner \in Before \cup {"opening"} => transition = -1
<1>1. plan \in [Requests -> (0 .. PointCount - 2) \cup {PointCount}] /\ emitted \in Nat
      /\ PointCount \in Nat
  BY TypesTogether, ScheduleAssumption DEF CaptureTyped, RunnerTypes
<1>2. \A r \in Requests : plan[r] \in (0 .. PointCount - 2) \cup {PointCount}
  BY <1>1
<1> QED
  BY <1>1, <1>2 DEF transition, CaptureTyped, SamplesAreCounted

(* The runner moves no item and answers nobody: it deletes the list and the *)
(* rows before it sends a request.                                          *)
LEMMA RunnerLeavesHandlers ==
  ASSUME Runner \/ (\E r \in Requests : TimeOut(r))
  PROVE  /\ UNCHANGED <<apiPc, status, workerPc, hand, writeFailed, plan>>
         /\ Reset \/ UNCHANGED <<queue, inflight, counters>>
         /\ Truncate \/ UNCHANGED table
<1> USE DEF appOwn, runnerVars
<1>1. CASE Reset \/ Truncate
  BY <1>1 DEF Reset, Truncate
<1>2. CASE WaitForWorkers("boot", "reset") \/ WaitForWorkers("rejoin", "baseline")
           \/ Baseline \/ BaselineRows \/ Opened \/ (\E command \in pending : Issue(command))
           \/ CommandRaised \/ Submit \/ Gathered
  BY <1>2 DEF WaitForWorkers, Baseline, BaselineRows, Opened, Issue, CommandRaised, Submit,
              Gathered
<1>3. CASE ReadCounters \/ ReadRows \/ ReadBusy \/ ReadGauges \/ CountWorkers \/ ReadLevel
           \/ RestartPeak \/ EmitMetrics \/ CheckEmitErrors
  BY <1>3 DEF ReadCounters, ReadRows, ReadBusy, ReadGauges, CountWorkers, ReadLevel, Read,
              RestartPeak, EmitMetrics, CheckEmitErrors
<1>4. CASE CloseController \/ Closed \/ Finish \/ (\E r \in Requests : TimeOut(r))
  BY <1>4 DEF CloseController, Closed, Finish, TimeOut
<1> QED
  BY <1>1, <1>2, <1>3, <1>4 DEF Runner

(* Only a client's timeout changes what it accepts, while its window waits; *)
(* and the runner leaves a window whose answers are all acceptable.         *)
LEMMA RunnerGathers ==
  ASSUME Runner \/ (\E r \in Requests : TimeOut(r))
  PROVE  \/ /\ UNCHANGED timedOut
            /\ runner = "await" /\ runner' = "counters" => \A r \in Submitted : Accepts(r)
         \/ /\ runner = "await" /\ runner' = "await"
            /\ \E r \in Submitted : timedOut' = timedOut \cup {r}
<1>1. CASE WaitForWorkers("boot", "reset") \/ WaitForWorkers("rejoin", "baseline") \/ Reset
           \/ Truncate \/ Baseline \/ BaselineRows \/ Opened
           \/ (\E command \in pending : Issue(command)) \/ CommandRaised \/ Submit
  BY <1>1 DEF WaitForWorkers, Reset, Truncate, Baseline, BaselineRows, Opened, Issue,
              CommandRaised, Submit, At
<1>2. CASE Gathered
  BY <1>2 DEF Gathered, At, Goto, Raises
<1>3. CASE ReadCounters \/ ReadRows \/ ReadBusy \/ ReadGauges \/ CountWorkers \/ ReadLevel
           \/ RestartPeak \/ EmitMetrics \/ CheckEmitErrors
  BY <1>3 DEF ReadCounters, ReadRows, ReadBusy, ReadGauges, CountWorkers, ReadLevel, Read,
              RestartPeak, EmitMetrics, CheckEmitErrors, At
<1>4. CASE CloseController \/ Closed \/ Finish
  BY <1>4 DEF CloseController, Closed, Finish, At, runnerVars
<1>5. CASE \E r \in Requests : TimeOut(r)
  BY <1>5 DEF TimeOut, At
<1> QED
  BY <1>1, <1>2, <1>3, <1>4, <1>5 DEF Runner

LEMMA AnswersInit ==
  ASSUME CaptureInit
  PROVE  Answers
<1>1. CaptureTyped /\ runner = "boot" /\ timedOut = {} /\ apiPc = [r \in Requests |-> "idle"]
  BY InitTyped DEF CaptureInit, Init
<1>2. \A r \in Requests : ~Settled(r)
  BY <1>1, PlanType DEF Settled, Before, Sampling
<1> QED
  BY <1>1, <1>2 DEF Answers

(* A handler changes its own request only, one that is on its way. *)
LEMMA HandlersOfWindow ==
  ASSUME CaptureTyped, NEW r \in Requests, (Checkout(r) /\ Send(r)) \/ (ServeRequest(r) /\ Handler(r))
  PROVE  /\ \A s \in Requests : s # r => apiPc'[s] = apiPc[s] /\ status'[s] = status[s]
         /\ apiPc[r] # "answered"
         /\ \/ apiPc[r] # "idle"
            \/ runner = "await" /\ plan[r] = transition
<1>1. \A s \in Requests : s # r => apiPc'[s] = apiPc[s] /\ status'[s] = status[s]
  BY TypesTogether, HandlerMindsItself DEF CaptureTyped
<1>2. CASE Checkout(r)
  BY <1>1, <1>2 DEF Checkout, Send, Submitted, At
<1>3. CASE Handler(r)
  BY <1>1, <1>3 DEF Handler, Enter, Gate, Push, Stamp, TallyEnqueue, Leave, Record, Emit, Reply
<1> QED
  BY <1>2, <1>3

LEMMA AnswersStep ==
  ASSUME CaptureTyped, Answers, [CaptureNext]_captureVars
  PROVE  Answers'
<1> USE DEF Answers
<1>1. ASSUME UNCHANGED <<runner, plan, emitted, timedOut>>,
             \A r \in Requests : NotSent(r) \/ Settled(r) =>
                                   apiPc'[r] = apiPc[r] /\ status'[r] = status[r]
      PROVE  Answers'
  BY <1>1 DEF NotSent, Settled, Accepts, transition
<1>2. CASE AppStep
  <2>1. UNCHANGED <<runner, plan, emitted, timedOut>>
    BY <1>2, AppStepFrame DEF runnerVars, samples
  <2>2. CASE \E w \in Workers : ServeItem(w) /\ Work(w)
    <3>1. UNCHANGED <<apiPc, status>>
      BY <2>2, WorkersDoNotAnswer
    <3> QED
      BY <1>1, <2>1, <3>1
  <2>3. CASE \E r \in Requests : (Checkout(r) /\ Send(r)) \/ (ServeRequest(r) /\ Handler(r))
    <3>1. PICK r \in Requests : (Checkout(r) /\ Send(r)) \/ (ServeRequest(r) /\ Handler(r))
      BY <2>3
    <3>2. CASE runner \in Over
      BY <2>1, <3>2
    <3>3. CASE runner \notin Over
      <4>1. ~NotSent(r) /\ ~Settled(r)
        BY <3>1, <3>3, HandlersOfWindow, PlanType DEF NotSent, Settled, Accepts, Sampling
      <4> QED
        BY <1>1, <2>1, <3>1, <4>1, HandlersOfWindow
    <3> QED
      BY <3>2, <3>3
  <2> QED
    BY <1>2, <2>2, <2>3 DEF AppStep
<1>3. CASE Control \/ UNCHANGED captureVars
  <2>1. UNCHANGED <<runner, plan, emitted, timedOut, apiPc, status>>
    BY <1>3 DEF Control, captureVars, appOwn, runnerVars, samples
  <2> QED
    BY <1>1, <2>1
<1>4. CASE Runner \/ \E r \in Requests : TimeOut(r)
  <2>0. UNCHANGED <<apiPc, status, plan>>
    BY <1>4, RunnerLeavesHandlers
  <2>1. ASSUME runner' \notin Over, runner \notin Over, UNCHANGED timedOut,
               \A r \in Requests : NotSent(r)' => NotSent(r),
               \A r \in Requests : Settled(r)' => Settled(r) \/ Accepts(r)
        PROVE  Answers'
    BY <2>0, <2>1 DEF Accepts
  <2>2. CASE runner' \in Over
    BY <2>2
  <2>3. CASE \E command \in pending : Issue(command)
    <3>1. UNCHANGED <<runner, emitted, timedOut>>
      BY <2>3 DEF Issue, samples
    <3> QED
      BY <1>1, <2>0, <3>1
  <2>4. CASE (Reset /\ runner' = "truncate") \/ (BaselineRows /\ runner' = "opening")
    <3>1. /\ UNCHANGED <<emitted, timedOut>>
          /\ runner \in {"reset", "baselineRows"} /\ runner' \in {"truncate", "opening"}
      BY <2>4 DEF Reset, BaselineRows, At, samples
    <3> QED
      BY <2>0, <2>1, <3>1 DEF NotSent, Settled, Over, Sampling, transition
  <2>5. CASE /\ EmitMetrics /\ emitted' = emitted + 1
             /\ runner' = (IF emitted' = PointCount THEN "errors" ELSE "commands")
    <3>1. UNCHANGED timedOut /\ runner = "emit"
      BY <2>5 DEF EmitMetrics, At
    <3>2. \A r \in Requests : NotSent(r)' => NotSent(r)
      BY <2>0, <2>5, <3>1, PlanType DEF NotSent, transition
    <3>3. \A r \in Requests : Settled(r)' => Settled(r)
      BY <2>0, <2>5, <3>1, PlanType DEF Settled, Sampling, transition
    <3> QED
      BY <2>1, <2>5, <3>1, <3>2, <3>3 DEF Over
  <2>6. CASE Proceeds
    <3>1. UNCHANGED emitted
      BY <2>6 DEF Proceeds
    <3>2. CASE runner = "await" /\ runner' = "await"
      <4>1. \A r \in Requests : NotSent(r)' \/ Settled(r)' => plan[r] # transition
        BY <2>0, <3>1, <3>2, PlanType DEF NotSent, Settled, Sampling, transition
      <4>2. \A r \in Requests : plan[r] # transition => (r \in timedOut' <=> r \in timedOut)
        BY <1>4, RunnerGathers DEF Submitted
      <4> QED
        BY <2>0, <3>1, <3>2, <4>1, <4>2
           DEF NotSent, Settled, Accepts, Over, Sampling, transition
    <3>3. CASE ~(runner = "await" /\ runner' = "await")
      <4>1. /\ UNCHANGED timedOut
            /\ runner = "await" /\ runner' = "counters" => \A r \in Submitted : Accepts(r)
        BY <1>4, <3>3, RunnerGathers
      <4>2. \A r \in Requests : NotSent(r)' => NotSent(r)
        BY <2>0, <2>6, <3>1 DEF Proceeds, NotSent, Before, Sampling, transition
      <4>3. \A r \in Requests : Settled(r)' => Settled(r) \/ Accepts(r)
        BY <2>0, <2>6, <3>1, <3>3, <4>1, PlanType
           DEF Proceeds, Settled, Before, Sampling, Submitted, transition
      <4>4. runner \notin Over /\ runner' \notin Over
        BY <2>6 DEF Proceeds, Before, Sampling, Over
      <4> QED
        BY <2>1, <4>1, <4>2, <4>3, <4>4
    <3> QED
      BY <3>2, <3>3
  <2> QED
    BY <1>4, <2>2, <2>3, <2>4, <2>5, <2>6, RunnerMoves
<1> QED
  BY <1>2, <1>3, <1>4, StepsOfCapture

-----------------------------------------------------------------------------
(* The counters and the rows of a window. *)

ItemsFit == Custody /\ Agreement /\ WorkLadder

(* No worker has work, and nothing was written, before a request is sent. *)
LEMMA NothingSentYet ==
  ASSUME CaptureTyped, Answers, Custody, runner \in Before
  PROVE  /\ queue = <<>> /\ table = [r \in Requests |-> 0]
         /\ Fetching = {} /\ Claiming = {} /\ Writing = {} /\ Committed = {} /\ Releasing = {}
         /\ Rows = {}
<1>1. \A r \in Requests : apiPc[r] = "idle"
  BY PlanType DEF Answers, NotSent, Before, Over
<1>2. \A r \in Requests : ~Queued(r) /\ Holders(r) = {} /\ table[r] = 0
  BY <1>1 DEF Custody, NotYet, Early
<1>3. /\ queue \in Seq(Requests) /\ table \in [Requests -> Nat]
      /\ hand \in [Workers -> Requests \cup {Nobody}]
  BY TypesTogether DEF CaptureTyped, TypeOK
<1>4. queue = <<>>
  <2>1. ASSUME Len(queue) > 0 PROVE FALSE
    <3>1. 1 \in 1 .. Len(queue) /\ queue[1] \in Requests
      BY <1>3, <2>1
    <3> QED
      BY <1>2, <3>1 DEF Queued
  <2> QED
    BY <1>3, <2>1
<1>5. \A w \in Workers : workerPc[w] \notin HoldingSteps
  BY <1>2, <1>3 DEF Custody, HandAgrees, Holders
<1>6. /\ Fetching = {} /\ Claiming = {} /\ Writing = {} /\ Committed = {} /\ Releasing = {}
  BY <1>5 DEF Fetching, Claiming, Writing, Committed, Releasing, HoldingSteps
<1>7. Rows = {}
  BY <1>2 DEF Rows, Stored
<1> QED
  BY <1>2, <1>3, <1>4, <1>6, <1>7

(* What moves no item and changes no counter keeps the ladder. *)
LEMMA ItemsStay ==
  ASSUME Custody, Agreement,
         UNCHANGED <<queue, hand, table, apiPc, status, workerPc, writeFailed>>
  PROVE  /\ Custody' /\ Agreement'
         /\ Fetching' = Fetching /\ Claiming' = Claiming /\ Writing' = Writing
         /\ Committed' = Committed /\ Releasing' = Releasing /\ Rows' = Rows /\ Popped' = Popped
<1>1. \A r \in Requests : Queued(r)' <=> Queued(r)
  BY DEF Queued
<1>2. \A r \in Requests : Place(r)' = Place(r)
  BY <1>1, SamePlace
<1>3. Custody'
  BY EnvironmentKeepsCustody
<1>4. Agreement'
  BY <1>2 DEF Agreement, WriteAgrees, StatusAgrees, Stored
<1> QED
  BY <1>2, <1>3, <1>4
     DEF Fetching, Claiming, Writing, Committed, Releasing, Rows, Popped, Stored

LEMMA ItemsInit ==
  ASSUME CaptureInit
  PROVE  ItemsFit
<1>1. Init /\ CaptureTyped /\ Answers /\ runner \in Before
  BY InitTyped, AnswersInit DEF CaptureInit, Before
<1>2. Custody
  BY <1>1, NamesAssumption
     DEF Init, Custody, NotYet, OnePlace, HandAgrees, Queued, Holders, Distinct, HoldingSteps
<1>3. \A r \in Requests : Place(r) = "outside"
  <2>1. \A r \in Requests : ~Queued(r) /\ Holders(r) = {} /\ ~Stored(r)
    BY <1>1, NamesAssumption DEF Init, Queued, Holders, Stored
  <2> QED
    BY <2>1 DEF Place
<1>4. Agreement
  BY <1>1, <1>3 DEF Init, Agreement, WriteAgrees, StatusAgrees, Early
<1>5. \A name \in CounterNames : counters[name] = 0
  BY <1>1 DEF Init
<1>6. Cardinality(Popped) \in Nat
  BY ActorsAreFinite DEF Popped
<1>7. /\ Cardinality(Fetching) = 0 /\ Cardinality(Claiming) = 0 /\ Cardinality(Writing) = 0
      /\ Cardinality(Committed) = 0 /\ Cardinality(Releasing) = 0 /\ Cardinality(Rows) = 0
  BY <1>1, <1>2, NothingSentYet, FS_EmptySet
<1>8. WorkLadder
  BY <1>5, <1>6, <1>7 DEF WorkLadder, Successes, CounterNames
<1> QED
  BY <1>2, <1>4, <1>8 DEF ItemsFit

LEMMA ItemsStep ==
  ASSUME CaptureTyped, Answers, ItemsFit, [CaptureNext]_captureVars
  PROVE  ItemsFit'
<1> USE DEF ItemsFit
<1>0. TypeOK
  BY TypesTogether DEF CaptureTyped
<1>1. CASE AppStep
  <2>1. Custody'
    BY <1>0, <1>1, HandlerKeepsCustody, WorkKeepsCustody DEF AppStep
  <2>2. Agreement'
    BY <1>0, <1>1, <2>1, AppStepFrame, NextKeepsAgreement
  <2>3. WorkLadder'
    BY <1>0, <1>1, <2>1, HandlerKeepsWork, WorkKeepsLadder DEF AppStep, Agreement
  <2> QED
    BY <2>1, <2>2, <2>3
<1>2. ASSUME UNCHANGED <<queue, hand, table, apiPc, status, workerPc, writeFailed, counters>>
      PROVE  ItemsFit'
  <2>1. WorkLadder'
    BY <1>2, ItemsStay DEF WorkLadder, Successes
  <2> QED
    BY <1>2, <2>1, ItemsStay
<1>3. CASE Control \/ UNCHANGED captureVars
  BY <1>2, <1>3 DEF Control, captureVars, appOwn, runnerVars
<1>4. CASE Reset
  <2>1. UNCHANGED <<hand, table, apiPc, status, workerPc, writeFailed>> /\ runner \in Before
    BY <1>4 DEF Reset, At, Before
  <2>2. queue' = queue
    BY <1>4, <2>1, NothingSentYet DEF Reset
  <2>3. CASE UNCHANGED counters
    BY <1>2, <2>1, <2>2, <2>3
  <2>4. CASE counters' = NoCounts.counters
    <3>1. \A name \in CounterNames : counters'[name] = 0
      BY <2>4 DEF NoCounts
    <3>2. /\ Fetching' = {} /\ Claiming' = {} /\ Writing' = {} /\ Committed' = {}
          /\ Releasing' = {} /\ Rows' = {} /\ Popped' = Popped
      BY <2>1, <2>2, ItemsStay, NothingSentYet
    <3>3. /\ Cardinality(Fetching') = 0 /\ Cardinality(Claiming') = 0
          /\ Cardinality(Writing') = 0 /\ Cardinality(Committed') = 0
          /\ Cardinality(Releasing') = 0 /\ Cardinality(Rows') = 0
          /\ Cardinality(Popped') \in Nat
      BY <3>2, FS_EmptySet, ActorsAreFinite DEF Popped
    <3>4. WorkLadder'
      BY <3>1, <3>3 DEF WorkLadder, Successes, CounterNames
    <3> QED
      BY <2>1, <2>2, <3>4, ItemsStay
  <2> QED
    BY <1>4, <2>3, <2>4 DEF Reset
<1>5. CASE Truncate
  <2>1. /\ UNCHANGED <<queue, hand, apiPc, status, workerPc, writeFailed, counters>>
        /\ runner \in Before
    BY <1>5 DEF Truncate, At, Before
  <2>2. table' = table
    BY <1>5, <2>1, NothingSentYet DEF Truncate
  <2> QED
    BY <1>2, <2>1, <2>2
<1>6. CASE Runner \/ \E r \in Requests : TimeOut(r)
  BY <1>2, <1>4, <1>5, <1>6, RunnerLeavesHandlers
<1> QED
  BY <1>1, <1>3, <1>6, StepsOfCapture

(* A snapshot of the counters trails n rows. *)
Trails(counts, n) ==
  LET written == counts["postgresql_write_count"] - counts["postgresql_write_errors"]
  IN  counts["worker_processed"] <= written /\ written <= n

(* What main has read so far: the rows are read after the counters, and both *)
(* after those of the window before.                                         *)
Reads ==
  /\ runner = "baselineRows" => Trails(previous.counters, RowCount)
  /\ runner = "rows" => Trails(current.counters, RowCount)
  /\ runner \in {"commands", "await", "counters", "rows"} => previous.rows <= RowCount
  /\ runner \in {"opening", "busy", "gauges", "live", "current", "peak", "emit"} =>
       /\ Trails(current.counters, current.rows)
       /\ current.rows <= RowCount
       /\ previous.rows <= current.rows

LEMMA ReadsType ==
  ASSUME CaptureTyped
  PROVE  /\ RowCount \in Nat /\ RowCount = Cardinality(Rows)
         /\ previous.rows \in Nat /\ current.rows \in Nat
         /\ previous \in Counts /\ current \in Counts
         /\ previous.counters \in [CounterNames -> Nat]
         /\ current.counters \in [CounterNames -> Nat]
         /\ counters \in [CounterNames -> Nat]
BY TypesTogether, ActorsAreFinite
   DEF CaptureTyped, RunnerTypes, TypeOK, Counts, RowCount, Rows, Stored

(* The counters of the moment trail the rows of the moment. *)
LEMMA SnapshotTrails ==
  ASSUME CaptureTyped, ItemsFit
  PROVE  Trails(counters, RowCount)
<1>1. /\ counters["worker_processed"] \in Nat
      /\ counters["postgresql_write_count"] \in Nat
      /\ counters["postgresql_write_errors"] \in Nat
  BY ReadsType DEF CounterNames
<1>2. Cardinality(Releasing) \in Nat /\ Cardinality(Committed) \in Nat
  BY ActorsAreFinite DEF Releasing, Committed
<1> QED
  BY <1>1, <1>2, ReadsType DEF ItemsFit, WorkLadder, Successes, Trails

LEMMA ReadsStep ==
  ASSUME CaptureTyped, Answers, ItemsFit, ItemsFit', Reads, [CaptureNext]_captureVars
  PROVE  Reads'
<1> USE DEF Reads
<1>0. /\ RowCount \in Nat /\ previous.rows \in Nat /\ current.rows \in Nat
      /\ previous \in Counts /\ current \in Counts
  BY ReadsType
<1>1. ASSUME UNCHANGED <<previous, current, runner>>, RowCount' \in Nat, RowCount <= RowCount'
      PROVE  Reads'
  <2>1. \A counts \in [CounterNames -> Nat] :
          Trails(counts, RowCount) => Trails(counts, RowCount')
    BY <1>0, <1>1 DEF Trails, CounterNames
  <2> QED
    BY <1>0, <1>1, <2>1, ReadsType
<1>2. CASE AppStep
  <2>1. UNCHANGED <<previous, current, runner>>
    BY <1>2, AppStepFrame DEF runnerVars, samples
  <2>2. RowCount' \in Nat /\ RowCount <= RowCount'
    <3>1. CASE \E w \in Workers : ServeItem(w) /\ Work(w)
      <4>1. Cardinality(Rows) <= Cardinality(Rows') /\ Cardinality(Rows') \in Nat
        BY <1>0, <3>1, ReadsType, WorkAddsRows, TypesTogether DEF CaptureTyped, ItemsFit
      <4>2. RowCount' = Cardinality(Rows')
        BY DEF RowCount, Rows, Stored
      <4> QED
        BY <4>1, <4>2, ReadsType
    <3>2. CASE \E r \in Requests : Send(r) \/ Handler(r)
      <4>1. UNCHANGED table
        BY <3>2 DEF Send, Handler, Enter, Gate, Push, Stamp, TallyEnqueue, Leave, Record, Emit,
                    Reply
      <4> QED
        BY <1>0, <4>1 DEF RowCount
    <3> QED
      BY <1>2, <3>1, <3>2 DEF AppStep
  <2> QED
    BY <1>1, <2>1, <2>2
<1>3. ASSUME UNCHANGED <<previous, current, runner, table>> PROVE Reads'
  BY <1>0, <1>1, <1>3 DEF RowCount
<1>4. CASE Control \/ UNCHANGED captureVars \/ (\E r \in Requests : TimeOut(r))
           \/ (\E command \in pending : Issue(command))
  <2>1. UNCHANGED <<previous, current, runner, table>>
    BY <1>4 DEF Control, captureVars, TimeOut, Issue, appOwn, runnerVars, samples
  <2> QED
    BY <1>3, <2>1
<1>5. CASE runner' \in Over \cup {"reset", "truncate", "rejoin", "baseline", "errors"}
  BY <1>5 DEF Over
<1>6. CASE Baseline
  <2>1. previous'.counters = counters \/ runner' = "failed"
    BY <1>0, <1>6 DEF Baseline, Aborts, Counts
  <2>2. runner' \in {"baselineRows", "failed"} /\ UNCHANGED table
    BY <1>6 DEF Baseline, Goto, Aborts, appOwn
  <2>3. RowCount' = RowCount
    BY <2>2 DEF RowCount
  <2>4. runner' = "baselineRows" => Trails(previous'.counters, RowCount')
    BY <2>1, <2>3, SnapshotTrails
  <2> QED
    BY <2>2, <2>4
<1>7. CASE BaselineRows
  <2>1. /\ UNCHANGED table /\ runner = "baselineRows"
        /\ runner' \in {"opening", "failed"}
        /\ runner' = "opening" =>
             previous' = [previous EXCEPT !.rows = RowCount] /\ current' = previous'
    BY <1>7 DEF BaselineRows, At, Goto, Aborts, appOwn
  <2>2. RowCount' = RowCount
    BY <2>1 DEF RowCount
  <2>3. runner' = "opening" =>
          /\ previous'.counters = previous.counters /\ previous'.rows = RowCount
          /\ current' = previous'
    BY <1>0, <2>1 DEF Counts
  <2> QED
    BY <1>0, <2>1, <2>2, <2>3
<1>8. ASSUME UNCHANGED <<previous, current, table>>,
             \/ runner = "opening" /\ runner' = "busy"
             \/ /\ runner \in {"commands", "await"}
                /\ runner' \in {"commands", "await", "counters"}
             \/ /\ runner \in {"busy", "gauges", "live", "current", "peak"}
                /\ runner' \in {"busy", "gauges", "live", "current", "peak", "emit"}
      PROVE  Reads'
  <2>1. RowCount' = RowCount
    BY <1>8 DEF RowCount
  <2> QED
    BY <1>8, <2>1
<1>9. CASE Opened \/ Submit \/ Gathered
  BY <1>5, <1>8, <1>9 DEF Opened, Submit, Gathered, At, Goto, Aborts, Raises, Over, appOwn, samples
<1>10. CASE ReadBusy \/ ReadGauges \/ CountWorkers \/ ReadLevel \/ RestartPeak
  BY <1>5, <1>8, <1>10
     DEF ReadBusy, ReadGauges, CountWorkers, ReadLevel, RestartPeak, Read, At, Goto, Raises, Over,
         appOwn, samples
<1>11. CASE ReadCounters
  <2>1. /\ UNCHANGED <<previous, table>> /\ runner = "counters"
        /\ runner' \in {"rows", "closing"}
        /\ current' = [current EXCEPT !.counters = counters]
    BY <1>11 DEF ReadCounters, Read, At, Goto, Raises, appOwn
  <2>2. RowCount' = RowCount /\ current'.counters = counters
    BY <1>0, <2>1 DEF RowCount, Counts
  <2>3. Trails(current'.counters, RowCount')
    BY <2>2, SnapshotTrails
  <2> QED
    BY <2>1, <2>2, <2>3
<1>12. CASE ReadRows
  <2>1. /\ UNCHANGED <<previous, table>> /\ runner = "rows"
        /\ runner' \in {"busy", "closing"}
        /\ current' = [current EXCEPT !.rows = RowCount]
    BY <1>12 DEF ReadRows, Read, At, Goto, Raises, appOwn
  <2>2. /\ RowCount' = RowCount /\ current'.rows = RowCount
        /\ current'.counters = current.counters
    BY <1>0, <2>1 DEF RowCount, Counts
  <2> QED
    BY <1>0, <2>1, <2>2
<1>13. CASE EmitMetrics
  <2>1. /\ UNCHANGED table /\ runner = "emit"
        /\ \/ runner' = "commands" /\ previous' = current
           \/ runner' \in {"errors", "closing"}
    BY <1>13 DEF EmitMetrics, At, Goto, Raises, appOwn
  <2>2. RowCount' = RowCount
    BY <2>1 DEF RowCount
  <2> QED
    BY <2>1, <2>2
<1>14. CASE WaitForWorkers("boot", "reset") \/ WaitForWorkers("rejoin", "baseline") \/ Reset
            \/ Truncate \/ CommandRaised \/ CheckEmitErrors \/ CloseController \/ Closed \/ Finish
  BY <1>5, <1>14
     DEF WaitForWorkers, Reset, Truncate, CommandRaised, CheckEmitErrors, CloseController,
         Closed, Finish, ProcessEnds, At, Goto, Aborts, Raises, Over, runnerVars
<1>15. CASE Runner
  BY <1>4, <1>6, <1>7, <1>9, <1>10, <1>11, <1>12, <1>13, <1>14, <1>15 DEF Runner
<1> QED
  BY <1>2, <1>4, <1>15, StepsOfCapture

LEMMA ReadsInit ==
  ASSUME CaptureInit
  PROVE  Reads
BY DEF CaptureInit, Reads

(* While a sample is taken, only accepted requests have rows. *)
LEMMA RowsAreAccepted ==
  ASSUME CaptureTyped, Answers, ItemsFit, runner \in Sampling
  PROVE  RowCount <= Cardinality({r \in Requests : apiPc[r] = "answered" /\ status[r] = 202})
<1> DEFINE accepted == {r \in Requests : apiPc[r] = "answered" /\ status[r] = 202}
<1>1. ASSUME NEW r \in Rows PROVE r \in accepted
  <2>1. r \in Requests /\ Stored(r) /\ table[r] # 0
    BY <1>1 DEF Rows, Stored
  <2>2. apiPc[r] \notin Early
    BY <2>1 DEF ItemsFit, Custody, NotYet
  <2>3. ~NotSent(r)
    BY <2>1, <2>2 DEF Answers, Early, Sampling, Over
  <2>4. Settled(r)
    BY <2>1, <2>3, PlanType DEF NotSent, Settled
  <2>5. apiPc[r] = "answered" /\ status[r] \in {202, 503}
    BY <2>1, <2>4 DEF Answers, Accepts, Sampling, Over
  <2>6. Place(r) = "stored"
    BY <2>1 DEF Place
  <2>7. status[r] # 503
    BY <2>1, <2>6 DEF ItemsFit, Agreement, StatusAgrees
  <2> QED
    BY <2>1, <2>5, <2>7
<1>2. Rows \subseteq accepted /\ IsFiniteSet(accepted)
  BY <1>1, ActorsAreFinite
<1> QED
  BY <1>2, FS_Subset, ReadsType

(* Counters are read before rows, while workers go on writing: a sample      *)
(* never reports a write whose row it does not see, never a row of a request *)
(* that was not accepted, and never a negative write rate, whatever calls    *)
(* failed and whoever died (the order of reads in run_capture.py's loop, the *)
(* order of counting and committing in run_worker).                          *)
THEOREM SamplesAreConsistent == CaptureSpec => []RowsCoverWrites
<1>1. CaptureTyped /\ Answers /\ ItemsFit /\ Reads => RowsCoverWrites
  <2> SUFFICES ASSUME CaptureTyped, Answers, ItemsFit, Reads,
                      runner \in {"busy", "gauges", "live", "current", "peak", "emit"}
               PROVE  RowsCoverWrites
    BY DEF RowsCoverWrites
  <2>1. /\ Trails(current.counters, current.rows)
        /\ current.rows <= RowCount /\ previous.rows <= current.rows
    BY DEF Reads
  <2>2. RowCount <= Cardinality({r \in Requests : apiPc[r] = "answered" /\ status[r] = 202})
    BY RowsAreAccepted DEF Sampling
  <2>3. Cardinality({r \in Requests : apiPc[r] = "answered" /\ status[r] = 202}) \in Nat
    BY ActorsAreFinite
  <2> QED
    BY <2>1, <2>2, <2>3, ReadsType DEF RowsCoverWrites, Trails, Written
<1> QED
  BY <1>1, InitTyped, TypedStep, AnswersInit, AnswersStep, ItemsInit, ItemsStep, ReadsInit,
     ReadsStep, PTL DEF CaptureSpec

-----------------------------------------------------------------------------
(* The gauge and the windows. *)

NoneDropped == \A r \in Requests : apiPc[r] # "dropped"

(* As long as no handler was broken off, the gauge counts the handlers. *)
GaugeExact == NoneDropped => inflight = Cardinality(Inside)

(* The peak of a window is that of its own requests, and main reads it when *)
(* all are answered.                                                        *)
PeakFits ==
  runner \notin Over /\ NoneDropped =>
    /\ runner \in Before \cup {"opening", "commands", "emit"} => peak = 0
    /\ runner \in {"await"} \cup (Sampling \ {"emit"}) =>
         /\ peak <= Cardinality(Submitted)
         /\ \A r \in Submitted : apiPc[r] \notin {"idle", "enter"} => peak >= 1
    /\ runner \in {"live", "current", "peak", "emit"} =>
         /\ reading.inflight = 0
         /\ reading.peak <= Cardinality(Submitted)
         /\ Submitted # {} => reading.peak >= 1
    /\ runner \in {"peak", "emit"} => reading.level = 0

(* Outside the wait for the answers no request is on its way. *)
LEMMA QuietOutsideAwait ==
  ASSUME CaptureTyped, Answers, runner \notin Over \cup {"await"}
  PROVE  /\ \A r \in Requests : apiPc[r] \in {"idle", "answered"}
         /\ NoneDropped /\ Inside = {}
         /\ runner \in Sampling => \A r \in Submitted : apiPc[r] = "answered" /\ Accepts(r)
         /\ runner = "commands" => \A r \in Submitted : apiPc[r] = "idle"
<1>1. ASSUME NEW r \in Requests PROVE NotSent(r) \/ Settled(r)
  <2>1. plan[r] = transition => runner \in {"commands"} \cup Sampling
    <3>1. runner \in RunnerSteps
      BY TypesTogether DEF CaptureTyped, RunnerTypes
    <3>2. runner = "errors" => transition = PointCount - 1
      BY PlanType DEF CaptureTyped, SamplesAreCounted, transition
    <3> QED
      BY <1>1, <3>1, <3>2, PlanType DEF RunnerSteps, Before, Sampling, Over
  <2> QED
    BY <1>1, <2>1, PlanType DEF NotSent, Settled
<1>2. \A r \in Requests : apiPc[r] \in {"idle", "answered"}
  BY <1>1 DEF Answers, Accepts
<1>3. runner \in Sampling => \A r \in Submitted : apiPc[r] = "answered" /\ Accepts(r)
  BY DEF Answers, Submitted, Settled, Accepts
<1>4. runner = "commands" => \A r \in Submitted : apiPc[r] = "idle"
  BY DEF Answers, Submitted, NotSent
<1> QED
  BY <1>2, <1>3, <1>4 DEF NoneDropped, Inside

(* A handler that is not broken off keeps the gauge exact, and raises the *)
(* peak to the gauge at most.                                             *)
LEMMA HandlerKeepsExact ==
  ASSUME TypeOK, GaugeExact, NEW r \in Requests, Send(r) \/ Handler(r), NoneDropped'
  PROVE  /\ NoneDropped
         /\ inflight' = Cardinality(Inside')
         /\ peak <= peak' /\ (peak' = peak \/ peak' = inflight')
         /\ apiPc'[r] \notin {"idle", "enter"} =>
              apiPc[r] \notin {"idle", "enter"} \/ peak' >= 1
<1> DEFINE n == Cardinality(Inside)
           m == Cardinality(Inside')
<1>1. /\ n \in Nat /\ m \in Nat
      /\ m = n + Indicator(r \in Inside') - Indicator(r \in Inside)
  BY InsideCounts
<1>2. inflight \in Nat /\ peak \in Nat /\ apiPc \in [Requests -> ApiSteps]
  BY DEF TypeOK
<1>3. NoneDropped
  <2>1. apiPc[r] # "dropped"
    BY DEF Send, Handler, Enter, Gate, Push, Stamp, TallyEnqueue, Leave, Record, Emit, Reply
  <2> QED
    BY <2>1, HandlerMindsItself DEF NoneDropped
<1>4. inflight = n
  BY <1>3 DEF GaugeExact
<1>5. ~ApiGoto(r, "dropped")
  BY <1>2 DEF NoneDropped, ApiGoto
<1> HIDE DEF n, m
<1>6. CASE Enter(r)
  <2>1. r \notin Inside
    BY <1>6 DEF Enter, Inside
  <2>2. AddInflight(1) /\ ApiGoto(r, "gate")
    BY <1>5, <1>6 DEF Enter
  <2>3. r \in Inside'
    BY <1>2, <2>2 DEF ApiGoto, Inside
  <2>4. m = n + 1
    BY <1>1, <2>1, <2>3 DEF Indicator
  <2> QED
    BY <1>1, <1>2, <1>3, <1>4, <2>2, <2>4 DEF AddInflight, m
<1>7. CASE Leave(r)
  <2>1. r \in Inside /\ r \notin Inside' /\ apiPc[r] = "leave"
    BY <1>2, <1>7 DEF Leave, ApiGoto, Inside
  <2>2. AddInflight(-1)
    BY <1>5, <1>7 DEF Leave
  <2>3. m = n - 1
    BY <1>1, <2>1 DEF Indicator
  <2> QED
    BY <1>1, <1>2, <1>3, <1>4, <2>1, <2>2, <2>3 DEF AddInflight, m
<1>8. CASE ~Enter(r) /\ ~Leave(r)
  <2>1. r \in Inside' <=> r \in Inside
    BY <1>2, <1>8 DEF Send, Handler, Gate, Push, Stamp, TallyEnqueue, Record, Emit, Reply,
                      ApiGoto, Inside
  <2>2. UNCHANGED <<inflight, peak>>
    BY <1>8 DEF Send, Handler, Gate, Push, Stamp, TallyEnqueue, Record, Emit, Reply,
                redisVars
  <2>3. apiPc'[r] = "enter" \/ apiPc[r] \notin {"idle", "enter"}
    BY <1>2, <1>8 DEF Send, Handler, Gate, Push, Stamp, TallyEnqueue, Record, Emit, Reply,
                      ApiGoto
  <2>4. m = n
    BY <1>1, <2>1 DEF Indicator
  <2> QED
    BY <1>1, <1>2, <1>3, <1>4, <2>2, <2>3, <2>4 DEF m
<1> QED
  BY <1>6, <1>7, <1>8

LEMMA WorkersKeepGauge ==
  ASSUME NEW w \in Workers, Work(w)
  PROVE  UNCHANGED <<apiPc, status, inflight, peak>>
BY DEF Work, Register, Check, Pop, Fetch, TallyDequeue, Claim, Mark, Lock, Insert, Unmark,
       RecordWrite, Release, EmitCompletion, apiVars, redisVars

LEMMA GaugeStep ==
  ASSUME CaptureTyped, Answers, GaugeExact, [CaptureNext]_captureVars
  PROVE  GaugeExact'
<1>0. TypeOK
  BY TypesTogether DEF CaptureTyped
<1>1. ASSUME UNCHANGED <<apiPc, inflight>> PROVE GaugeExact'
  BY <1>1 DEF GaugeExact, NoneDropped, Inside
<1>2. CASE AppStep
  <2>1. CASE \E w \in Workers : Work(w)
    BY <1>1, <2>1, WorkersKeepGauge
  <2>2. CASE \E r \in Requests : Send(r) \/ Handler(r)
    BY <1>0, <2>2, HandlerKeepsExact DEF GaugeExact
  <2> QED
    BY <1>2, <2>1, <2>2 DEF AppStep
<1>3. CASE Control \/ UNCHANGED captureVars
  BY <1>1, <1>3 DEF Control, captureVars, appOwn
<1>4. CASE Reset
  <2>1. UNCHANGED apiPc /\ inflight' \in {0, inflight} /\ runner = "reset"
    BY <1>4 DEF Reset, At
  <2>2. Inside = {} /\ NoneDropped
    BY <2>1, QuietOutsideAwait DEF Over
  <2>3. Inside' = {} /\ Cardinality(Inside) = 0 /\ Cardinality(Inside') = 0
    BY <2>1, <2>2, FS_EmptySet DEF Inside
  <2> QED
    BY <2>1, <2>2, <2>3 DEF GaugeExact
<1>5. CASE Runner \/ \E r \in Requests : TimeOut(r)
  BY <1>1, <1>4, <1>5, RunnerLeavesHandlers
<1> QED
  BY <1>2, <1>3, <1>5, StepsOfCapture

LEMMA SubmittedType ==
  ASSUME CaptureTyped
  PROVE  /\ Submitted \subseteq Requests /\ IsFiniteSet(Submitted)
         /\ Cardinality(Submitted) \in Nat
         /\ runner \in Before \cup {"opening"} => Submitted = {}
<1>1. Submitted \subseteq Requests
  BY DEF Submitted
<1> QED
  BY <1>1, ActorsAreFinite, PlanType DEF Submitted

(* A request of the window enters: the peak rises to the requests inside, *)
(* which are all of this window.                                          *)
LEMMA HandlerKeepsPeak ==
  ASSUME CaptureTyped, Answers, GaugeExact, PeakFits, Answers',
         NEW r \in Requests, (Checkout(r) /\ Send(r)) \/ (ServeRequest(r) /\ Handler(r))
  PROVE  PeakFits'
<1>0. TypeOK /\ UNCHANGED runnerVars
  BY TypesTogether DEF CaptureTyped, Checkout, ServeRequest
<1>1. CASE runner \in Over
  BY <1>0, <1>1 DEF PeakFits, runnerVars
<1>2. CASE runner = "await" /\ NoneDropped'
  <2>1. /\ NoneDropped /\ inflight' = Cardinality(Inside')
        /\ peak <= peak' /\ (peak' = peak \/ peak' = inflight')
        /\ apiPc'[r] \notin {"idle", "enter"} => apiPc[r] \notin {"idle", "enter"} \/ peak' >= 1
    BY <1>0, <1>2, HandlerKeepsExact
  <2>2. /\ peak <= Cardinality(Submitted)
        /\ \A s \in Submitted : apiPc[s] \notin {"idle", "enter"} => peak >= 1
    BY <1>2, <2>1 DEF PeakFits, Over
  <2>3. Submitted' = Submitted /\ runner' = "await" /\ transition' = transition /\ plan' = plan
    BY <1>0, <1>2 DEF runnerVars, samples, Submitted, transition
  <2>4. Inside' \subseteq Submitted
    <3> SUFFICES ASSUME NEW s \in Inside' PROVE s \in Submitted
      OBVIOUS
    <3>1. s \in Requests /\ apiPc'[s] \notin {"idle", "answered"}
      BY DEF Inside
    <3>2. ~(transition < plan[s]) /\ ~(plan[s] < transition)
      BY <2>3, <3>1 DEF Answers, NotSent, Settled, Accepts, Over
    <3> QED
      BY <3>1, <3>2, PlanType DEF Submitted
  <2>5. Cardinality(Inside') <= Cardinality(Submitted) /\ Cardinality(Inside') \in Nat
    BY <2>4, SubmittedType, FS_Subset, FS_CardinalityType
  <2>6. peak \in Nat /\ peak' \in Nat /\ Cardinality(Submitted) \in Nat
    BY <1>0, <2>1, <2>5, SubmittedType DEF TypeOK
  <2>7. peak' <= Cardinality(Submitted)
    BY <2>1, <2>2, <2>5, <2>6
  <2>8. \A s \in Submitted : apiPc'[s] \notin {"idle", "enter"} => peak' >= 1
    <3>1. \A s \in Requests : s # r => apiPc'[s] = apiPc[s]
      BY HandlersOfWindow
    <3> QED
      BY <2>1, <2>2, <2>6, <3>1, SubmittedType
  <2> QED
    BY <2>3, <2>7, <2>8 DEF PeakFits, Before, Sampling
<1>3. CASE ~NoneDropped'
  BY <1>3 DEF PeakFits
<1>4. CASE runner \notin Over \cup {"await"}
  <2>1. apiPc[r] = "idle" /\ runner # "await"
    BY <1>4, QuietOutsideAwait, HandlersOfWindow
  <2> QED
    BY <2>1, HandlersOfWindow
<1> QED
  BY <1>1, <1>2, <1>3, <1>4

LEMMA PeakStep ==
  ASSUME CaptureTyped, Answers, Answers', GaugeExact, PeakFits, [CaptureNext]_captureVars
  PROVE  PeakFits'
<1>0. /\ TypeOK /\ RunnerTypes /\ peak \in Nat /\ inflight \in Nat
      /\ reading \in [{"busy", "inflight", "peak", "depth", "level"} -> Nat]
  BY TypesTogether DEF CaptureTyped, TypeOK, RunnerTypes
<1>1. ASSUME UNCHANGED <<apiPc, peak, runner, plan, emitted, reading>> PROVE PeakFits'
  BY <1>1 DEF PeakFits, NoneDropped, Submitted, transition
<1>2. CASE AppStep
  <2>1. UNCHANGED <<runner, plan, emitted, reading>>
    BY <1>2, AppStepFrame DEF runnerVars, samples
  <2>2. CASE \E w \in Workers : Work(w)
    BY <1>1, <2>1, <2>2, WorkersKeepGauge
  <2> QED
    BY <1>2, <2>2, HandlerKeepsPeak DEF AppStep
<1>3. CASE Control \/ UNCHANGED captureVars \/ (\E r \in Requests : TimeOut(r))
           \/ (\E command \in pending : Issue(command))
  <2>1. UNCHANGED <<apiPc, peak, runner, plan, emitted, reading>>
    BY <1>3 DEF Control, captureVars, TimeOut, Issue, appOwn, runnerVars, samples
  <2> QED
    BY <1>1, <2>1
<1>4. CASE runner' \in Over \cup {"errors"}
  BY <1>4 DEF PeakFits, Over, Before, Sampling
<1>5. CASE \/ WaitForWorkers("boot", "reset") \/ WaitForWorkers("rejoin", "baseline") \/ Truncate
           \/ Baseline \/ BaselineRows \/ Reset
  <2>1. /\ UNCHANGED apiPc /\ peak' \in {0, peak}
        /\ runner \in Before /\ runner' \in Before \cup {"opening", "failed"}
    BY <1>5 DEF WaitForWorkers, Truncate, Baseline, BaselineRows, Reset, At, Goto, Aborts, Before,
                appOwn
  <2> QED
    BY <1>4, <2>1 DEF PeakFits, NoneDropped, Before, Over, Sampling
<1>6. CASE Opened
  <2>1. UNCHANGED <<apiPc, peak, plan, emitted, reading>>
        /\ runner = "opening" /\ runner' \in {"busy", "failed"}
    BY <1>6 DEF Opened, At, Goto, Aborts, appOwn, samples
  <2>2. Submitted' = {} /\ Cardinality(Submitted') = 0
    BY <2>1, SubmittedType, FS_EmptySet DEF Submitted, transition
  <2> QED
    BY <1>4, <2>1, <2>2 DEF PeakFits, NoneDropped, Before, Over, Sampling
<1>7. CASE Submit \/ Gathered \/ ReadCounters \/ ReadRows \/ CommandRaised \/ CheckEmitErrors
  <2>1. /\ UNCHANGED <<apiPc, peak, plan, emitted, reading>>
        /\ \/ runner' = "closing"
           \/ runner = "errors"
           \/ runner = "commands" /\ runner' = "await"
           \/ runner \in {"await", "counters", "rows"} /\ runner' \in {"counters", "rows", "busy"}
    BY <1>7 DEF Submit, Gathered, ReadCounters, ReadRows, CommandRaised, CheckEmitErrors, Read, At,
                Goto, Raises, appOwn, samples
  <2>2. CASE runner = "commands" /\ runner' = "await"
    <3>1. Submitted' = Submitted /\ \A r \in Submitted : apiPc[r] = "idle"
      BY <2>1, <2>2, QuietOutsideAwait DEF Submitted, transition, Over
    <3>2. NoneDropped' => peak' = 0
      BY <2>1, <2>2 DEF PeakFits, NoneDropped, Over
    <3> QED
      BY <2>1, <2>2, <3>1, <3>2, SubmittedType DEF PeakFits, Before, Sampling
  <2>3. CASE runner \in {"await", "counters", "rows"} /\ runner' \in {"counters", "rows", "busy"}
    BY <2>1, <2>3 DEF PeakFits, NoneDropped, Submitted, transition, Before, Over, Sampling
  <2>4. runner # "errors" \/ runner' \in Over
    BY <1>7 DEF Submit, Gathered, ReadCounters, ReadRows, CommandRaised, CheckEmitErrors, Read,
                At, Goto, Raises, Over
  <2> QED
    BY <1>4, <2>1, <2>2, <2>3, <2>4 DEF Over
<1>8. ASSUME UNCHANGED <<apiPc, peak, plan, emitted>>, runner \in Sampling \ {"emit"},
             runner' \in Sampling \ {"emit"},
             runner \in {"live", "current", "peak"} =>
               reading'.inflight = reading.inflight /\ reading'.peak = reading.peak,
             runner' \in {"live", "current", "peak"} =>
               \/ runner \in {"live", "current", "peak"}
               \/ reading'.inflight = inflight /\ reading'.peak = peak,
             runner' = "peak" => reading'.level = inflight
      PROVE  PeakFits'
  <2>1. Submitted' = Submitted /\ NoneDropped
    BY <1>8, QuietOutsideAwait DEF Submitted, transition, Over, Sampling
  <2>2. inflight = 0
    BY <1>8, QuietOutsideAwait, FS_EmptySet DEF GaugeExact, Over, Sampling
  <2>3. /\ peak <= Cardinality(Submitted)
        /\ \A r \in Submitted : apiPc[r] \notin {"idle", "enter"} => peak >= 1
    BY <1>8, <2>1 DEF PeakFits, Over, Sampling
  <2>4. Submitted # {} => peak >= 1
    BY <1>8, <2>3, QuietOutsideAwait DEF Over, Sampling
  <2>5. runner' \in {"live", "current", "peak"} =>
          /\ reading'.inflight = 0
          /\ reading'.peak <= Cardinality(Submitted)
          /\ Submitted # {} => reading'.peak >= 1
    BY <1>8, <2>1, <2>2, <2>3, <2>4 DEF PeakFits, Over, Sampling
  <2> QED
    BY <1>8, <2>1, <2>2, <2>3, <2>5 DEF PeakFits, Before, Sampling
<1>9. CASE ReadBusy \/ ReadGauges \/ CountWorkers \/ ReadLevel
  <2>1. UNCHANGED <<apiPc, peak, plan, emitted>>
    BY <1>9 DEF ReadBusy, ReadGauges, CountWorkers, ReadLevel, Read, appOwn
  <2>2. CASE runner' = "closing"
    BY <1>4, <2>2 DEF Over
  <2>3. CASE ReadBusy
    <3>1. runner = "busy" /\ runner' \in {"gauges", "closing"}
      BY <2>3 DEF ReadBusy, At, Goto, Raises
    <3> QED
      BY <1>8, <2>1, <2>2, <3>1 DEF Sampling
  <2>4. CASE ReadGauges
    <3>1. /\ runner = "gauges" /\ runner' \in {"live", "closing"}
          /\ reading' = [reading EXCEPT !.inflight = inflight, !.peak = peak,
                                        !.depth = Len(queue)]
      BY <2>4 DEF ReadGauges, Read, At, Goto, Raises
    <3>2. reading'.inflight = inflight /\ reading'.peak = peak
      BY <1>0, <3>1
    <3> QED
      BY <1>8, <2>1, <2>2, <3>1, <3>2 DEF Sampling
  <2>5. CASE CountWorkers
    <3>1. runner = "live" /\ runner' \in {"current", "closing"} /\ UNCHANGED reading
      BY <2>5 DEF CountWorkers, Read, At, Goto, Raises
    <3> QED
      BY <1>8, <2>1, <2>2, <3>1 DEF Sampling
  <2>6. CASE ReadLevel
    <3>1. /\ runner = "current" /\ runner' \in {"peak", "closing"}
          /\ reading' = [reading EXCEPT !.level = inflight]
      BY <2>6 DEF ReadLevel, Read, At, Goto, Raises
    <3>2. /\ reading'.inflight = reading.inflight /\ reading'.peak = reading.peak
          /\ reading'.level = inflight
      BY <1>0, <3>1
    <3> QED
      BY <1>8, <2>1, <2>2, <3>1, <3>2 DEF Sampling
  <2> QED
    BY <1>9, <2>3, <2>4, <2>5, <2>6
<1>10. CASE RestartPeak
  <2>1. /\ UNCHANGED <<apiPc, plan, emitted, reading>> /\ runner = "peak"
        /\ runner' = "closing" \/ (runner' = "emit" /\ peak' = reading.level)
    BY <1>10 DEF RestartPeak, At, Goto, Raises, samples
  <2>2. Submitted' = Submitted
    BY <2>1 DEF Submitted, transition
  <2> QED
    BY <1>4, <2>1, <2>2 DEF PeakFits, NoneDropped, Before, Over, Sampling
<1>11. CASE EmitMetrics
  <2>1. UNCHANGED <<apiPc, peak>> /\ runner = "emit" /\ runner' \in {"commands", "errors", "closing"}
    BY <1>11 DEF EmitMetrics, At, Goto, Raises, appOwn
  <2> QED
    BY <1>4, <2>1 DEF PeakFits, NoneDropped, Before, Over, Sampling
<1>12. CASE CloseController \/ Closed \/ Finish
  BY <1>4, <1>12 DEF CloseController, Closed, Finish, ProcessEnds, At, Goto, Over, runnerVars
<1>13. CASE Runner
  BY <1>3, <1>5, <1>6, <1>7, <1>9, <1>10, <1>11, <1>12, <1>13 DEF Runner
<1> QED
  BY <1>2, <1>3, <1>13, StepsOfCapture

(* A sample is taken between requests: it sees no request in flight, and its *)
(* peak is one of its own window, though the peak is restarted with a GET    *)
(* and a SET that no transaction joins (_sample of run_capture.py).          *)
THEOREM SamplesAreOfTheirWindow == CaptureSpec => []SampleSeesItsWindowOnly
<1>1. CaptureInit => GaugeExact /\ PeakFits
  <2> SUFFICES ASSUME CaptureInit PROVE GaugeExact /\ PeakFits
    OBVIOUS
  <2>1. /\ inflight = 0 /\ peak = 0 /\ runner = "boot"
        /\ Inside = {} /\ Cardinality(Inside) = 0
    BY FS_EmptySet DEF CaptureInit, Init, Inside
  <2> QED
    BY <2>1 DEF GaugeExact, PeakFits, Sampling
<1>2. CaptureTyped /\ Answers /\ PeakFits => SampleSeesItsWindowOnly
  BY QuietOutsideAwait DEF PeakFits, SampleSeesItsWindowOnly, At, Over, Sampling
<1> QED
  BY <1>1, <1>2, InitTyped, TypedStep, AnswersInit, AnswersStep, GaugeStep, PeakStep, PTL
     DEF CaptureSpec

-----------------------------------------------------------------------------
(* The requests and the counters. *)

(* The requests the API has counted. *)
Counted == {r \in Requests : apiPc[r] \in {"emit", "reply", "answered"}}

Errors(S) == {r \in S : status[r] # 202}

(* A snapshot of the counters has counted the requests S, and as errors those *)
(* of them that were not accepted.                                            *)
CountsOf(counts, S) ==
  /\ counts["api_requests"] = Cardinality(S)
  /\ counts["api_errors"] = Cardinality(Errors(S))

(* As long as no handler was broken off, the counters count the requests. *)
CountsExact == NoneDropped => CountsOf(counters, Counted)

(* The requests of the windows before the n-th. *)
SentBefore(n) == {r \in Requests : plan[r] < n}

(* What main has read counts the requests of the windows that are over. *)
Snapshots ==
  /\ runner \in Window \cup {"baselineRows", "opening"} =>
       CountsOf(previous.counters, SentBefore(transition))
  /\ runner \in (Sampling \ {"counters"}) \cup {"opening"} =>
       CountsOf(current.counters, SentBefore(emitted))

(* The requests of a window are rejected when the schedule rejects them. *)
Verdicts ==
  runner \in {"await"} \cup Sampling =>
    \A r \in Submitted : apiPc[r] \notin {"idle", "enter", "gate", "dropped"} =>
      /\ status[r] = 503 => r \in RejectedTokens /\ ScheduledNow("api_rejection")
      /\ status[r] = 202 => ~(r \in RejectedTokens /\ ScheduledNow("api_rejection"))

(* A handler that was broken off stays so. *)
LEMMA DroppedStays ==
  ASSUME TypeOK, NEW r \in Requests, Send(r) \/ Handler(r), NoneDropped'
  PROVE  NoneDropped /\ ~ApiGoto(r, "dropped")
<1>1. apiPc[r] # "dropped" /\ apiPc \in [Requests -> ApiSteps]
  BY DEF TypeOK, Send, Handler, Enter, Gate, Push, Stamp, TallyEnqueue, Leave, Record, Emit, Reply
<1> QED
  BY <1>1, HandlerMindsItself DEF NoneDropped, ApiGoto

(* A request is counted once, when its answer is known. *)
LEMMA HandlerCounts ==
  ASSUME TypeOK, CountsExact, NEW r \in Requests, Send(r) \/ Handler(r)
  PROVE  CountsExact'
<1> SUFFICES ASSUME NoneDropped' PROVE CountsOf(counters, Counted)'
  BY DEF CountsExact
<1>1. NoneDropped /\ ~ApiGoto(r, "dropped")
  BY DroppedStays
<1>2. CountsOf(counters, Counted)
  BY <1>1 DEF CountsExact
<1>3. apiPc \in [Requests -> ApiSteps] /\ status \in [Requests -> Statuses]
  BY DEF TypeOK
<1>4. \A s \in Requests : s # r => apiPc'[s] = apiPc[s] /\ status'[s] = status[s]
  BY HandlerMindsItself
<1>5. /\ IsFiniteSet(Counted) /\ Cardinality(Counted) \in Nat
      /\ IsFiniteSet(Errors(Counted)) /\ Cardinality(Errors(Counted)) \in Nat
  BY ActorsAreFinite DEF Counted, Errors
<1>6. CASE Record(r)
  <2>1. /\ apiPc[r] = "record" /\ UNCHANGED status
        /\ ApiGoto(r, "emit")
        /\ Tally({"api_requests"} \cup IF status[r] # 202 THEN {"api_errors"} ELSE {})
    BY <1>1, <1>6 DEF Record
  <2>2. /\ counters'["api_requests"] = counters["api_requests"] + 1
        /\ counters'["api_errors"] =
             counters["api_errors"] + (IF status[r] # 202 THEN 1 ELSE 0)
    <3>1. counters["api_errors"] \in Nat
      BY DEF TypeOK, CounterNames
    <3> QED
      BY <2>1, <3>1 DEF Tally, CounterNames
  <2>3. r \notin Counted /\ Counted' = Counted \cup {r}
    BY <1>3, <1>4, <2>1 DEF Counted, ApiGoto
  <2>4. Errors(Counted)' = IF status[r] # 202 THEN Errors(Counted) \cup {r} ELSE Errors(Counted)
    BY <2>1, <2>3 DEF Errors
  <2>5. r \notin Errors(Counted)
    BY <2>3 DEF Errors
  <2>6. Cardinality(Counted \cup {r}) = Cardinality(Counted) + 1
    BY <1>5, <2>3, FS_AddElement
  <2>7. Cardinality(Errors(Counted) \cup {r}) = Cardinality(Errors(Counted)) + 1
    BY <1>5, <2>5, FS_AddElement
  <2>8. counters'["api_requests"] = Cardinality(Counted')
    BY <1>2, <2>2, <2>3, <2>6 DEF CountsOf
  <2>9. counters'["api_errors"] = Cardinality(Errors(Counted)')
    BY <1>2, <1>5, <2>2, <2>4, <2>7 DEF CountsOf
  <2> QED
    BY <2>8, <2>9 DEF CountsOf
<1>7. CASE ~Record(r)
  <2>1. /\ counters'["api_requests"] = counters["api_requests"]
        /\ counters'["api_errors"] = counters["api_errors"]
    BY <1>7 DEF Send, Handler, Enter, Gate, Push, Stamp, TallyEnqueue, Leave, Emit, Reply,
                Tally, MayApply, redisVars, CounterNames
  <2>2. /\ r \in Counted' <=> r \in Counted
        /\ r \in Counted => status' = status
    BY <1>1, <1>3, <1>7
       DEF Send, Handler, Enter, Gate, Push, Stamp, TallyEnqueue, Leave, Emit, Reply, ApiGoto,
           Counted
  <2>3. Counted' = Counted /\ Errors(Counted)' = Errors(Counted)
    BY <1>4, <2>2 DEF Counted, Errors
  <2> QED
    BY <1>2, <2>1, <2>3 DEF CountsOf
<1> QED
  BY <1>6, <1>7

(* The workers count no request. *)
LEMMA WorkersDoNotCount ==
  ASSUME NEW w \in Workers, Work(w)
  PROVE  /\ counters'["api_requests"] = counters["api_requests"]
         /\ counters'["api_errors"] = counters["api_errors"]
BY DEF Work, Register, Check, Pop, Fetch, TallyDequeue, Claim, Mark, Lock, Insert, Unmark,
       RecordWrite, Release, EmitCompletion, Tally, MayApply, redisVars, CounterNames

LEMMA CountsStep ==
  ASSUME CaptureTyped, Answers, CountsExact, [CaptureNext]_captureVars
  PROVE  CountsExact'
<1>1. ASSUME UNCHANGED <<apiPc, status>>,
             counters'["api_requests"] = counters["api_requests"],
             counters'["api_errors"] = counters["api_errors"]
      PROVE  CountsExact'
  BY <1>1 DEF CountsExact, CountsOf, Counted, Errors, NoneDropped
<1>2. CASE AppStep
  <2>1. CASE \E w \in Workers : Work(w)
    BY <1>1, <2>1, WorkersDoNotCount, WorkersKeepGauge
  <2>2. CASE \E r \in Requests : Send(r) \/ Handler(r)
    BY <2>2, HandlerCounts, TypesTogether DEF CaptureTyped
  <2> QED
    BY <1>2, <2>1, <2>2 DEF AppStep
<1>3. CASE Control \/ UNCHANGED captureVars
  BY <1>1, <1>3 DEF Control, captureVars, appOwn
<1>4. CASE Reset
  <2>1. UNCHANGED <<apiPc, status>> /\ runner = "reset"
    BY <1>4 DEF Reset, At
  <2>2. CASE UNCHANGED counters
    BY <1>1, <2>1, <2>2
  <2>3. CASE counters' = NoCounts.counters
    <3>1. counters'["api_requests"] = 0 /\ counters'["api_errors"] = 0
      BY <2>3 DEF NoCounts, CounterNames
    <3>2. Counted' = {} /\ Errors(Counted)' = {}
      BY <2>1, PlanType DEF Answers, NotSent, Counted, Errors, Before, Over
    <3>3. Cardinality(Counted') = 0 /\ Cardinality(Errors(Counted)') = 0
      BY <3>2, FS_EmptySet
    <3> QED
      BY <3>1, <3>3 DEF CountsExact, CountsOf
  <2> QED
    BY <1>4, <2>2, <2>3 DEF Reset
<1>5. CASE Runner \/ \E r \in Requests : TimeOut(r)
  BY <1>1, <1>4, <1>5, RunnerLeavesHandlers
<1> QED
  BY <1>2, <1>3, <1>5, StepsOfCapture

(* The draw of the API rejects in a window what the schedule says. *)
LEMMA RejectionIsScheduled ==
  ASSUME CaptureTyped, Timing, ControlsFit, runner = "await"
  PROVE  rejecting = IF ScheduledNow("api_rejection") THEN RejectedTokens ELSE {}
<1> DEFINE S == {a \in scheduled : InEffect(a)}
<1>1. ControlsOf(S)
  BY ControlsOfWindow
<1>2. keys["api_rejection"] # NoAction =>
        keys["api_rejection"] \in S /\ Kind[keys["api_rejection"]] = "api_rejection"
  BY <1>1 DEF ControlsOf, Ctl!KeyKinds
<1>3. ASSUME NEW a \in S, Kind[a] = "api_rejection" PROVE keys["api_rejection"] # NoAction
  <2>1. keys["api_rejection"] = a
    BY <1>1, <1>3 DEF ControlsOf, Ctl!InForce
  <2> QED
    BY <2>1, IndexType, ActionsAssumption
<1>4. keys["api_rejection"] # NoAction <=> ScheduledNow("api_rejection")
  BY <1>2, <1>3 DEF ScheduledNow
<1> QED
  BY <1>4 DEF CaptureTyped, Rejected

(* A handler of the window passes its gate when the controls are set. *)
LEMMA HandlerKeepsVerdicts ==
  ASSUME CaptureTyped, Timing, ControlsFit, Answers, ItemsFit, Verdicts,
         NEW r \in Requests, (Checkout(r) /\ Send(r)) \/ (ServeRequest(r) /\ Handler(r))
  PROVE  Verdicts'
<1>0. /\ TypeOK /\ apiPc \in [Requests -> ApiSteps] /\ status \in [Requests -> Statuses]
      /\ UNCHANGED runnerVars
  BY TypesTogether DEF CaptureTyped, TypeOK, Checkout, ServeRequest
<1>1. /\ runner' = runner /\ Submitted' = Submitted
      /\ ScheduledNow("api_rejection")' <=> ScheduledNow("api_rejection")
  BY <1>0 DEF runnerVars, samples, Submitted, ScheduledNow, InEffect, transition
<1>2. \A s \in Requests : s # r => apiPc'[s] = apiPc[s] /\ status'[s] = status[s]
  BY HandlersOfWindow
<1>3. ASSUME r \in Submitted, runner \in {"await"} \cup Sampling,
             apiPc'[r] \notin {"idle", "enter", "gate", "dropped"}
      PROVE  /\ status'[r] = 503 => r \in RejectedTokens /\ ScheduledNow("api_rejection")
             /\ status'[r] = 202 => ~(r \in RejectedTokens /\ ScheduledNow("api_rejection"))
  <2>1. CASE Gate(r)
    <3>1. apiPc[r] = "gate"
      BY <2>1 DEF Gate
    <3>2. status[r] = 202
      BY <3>1 DEF ItemsFit, Agreement, StatusAgrees, Early
    <3>3. runner = "await"
      BY <1>3, <3>1, QuietOutsideAwait DEF Sampling, Over
    <3>4. rejecting = IF ScheduledNow("api_rejection") THEN RejectedTokens ELSE {}
      BY <3>3, RejectionIsScheduled
    <3>5. \/ r \notin rejecting /\ status'[r] = 202
          \/ r \in rejecting /\ status'[r] = 503
          \/ status'[r] = 500
      BY <1>0, <2>1, <3>2 DEF Gate, Fails
    <3> QED
      BY <3>4, <3>5
  <2>2. CASE ~Gate(r)
    <3>1. apiPc[r] \notin {"idle", "enter", "gate", "dropped"}
      BY <1>0, <1>3, <2>2
         DEF Send, Handler, Enter, Push, Stamp, TallyEnqueue, Leave, Record, Emit, Reply, ApiGoto
    <3>2. status'[r] = status[r] \/ status'[r] = 500
      BY <1>0, <2>2 DEF Send, Handler, Enter, Push, Stamp, TallyEnqueue, Leave, Record, Emit, Reply,
                        Fails
    <3> QED
      BY <1>3, <3>1, <3>2 DEF Verdicts
  <2> QED
    BY <2>1, <2>2
<1> QED
  BY <1>1, <1>2, <1>3, SubmittedType DEF Verdicts

LEMMA VerdictsStep ==
  ASSUME CaptureTyped, Timing, ControlsFit, Answers, ItemsFit, Verdicts,
         [CaptureNext]_captureVars
  PROVE  Verdicts'
<1>1. ASSUME UNCHANGED <<apiPc, status, plan, scheduled, emitted>>,
             \/ runner' \in {"await"} \cup Sampling => runner \in {"await"} \cup Sampling
             \/ \A r \in Submitted : apiPc[r] = "idle"
      PROVE  Verdicts'
  <2>1. /\ Submitted' = Submitted
        /\ ScheduledNow("api_rejection")' <=> ScheduledNow("api_rejection")
    BY <1>1 DEF Submitted, ScheduledNow, InEffect, transition
  <2> QED
    BY <1>1, <2>1 DEF Verdicts
<1>2. CASE AppStep
  <2>1. CASE \E w \in Workers : ServeItem(w) /\ Work(w)
    <3>1. UNCHANGED <<apiPc, status>> /\ UNCHANGED <<runner, plan, scheduled, emitted>>
      BY <1>2, <2>1, WorkersKeepGauge, AppStepFrame DEF runnerVars, samples
    <3> QED
      BY <1>1, <3>1
  <2> QED
    BY <1>2, <2>1, HandlerKeepsVerdicts DEF AppStep
<1>3. CASE Control \/ UNCHANGED captureVars
  <2>1. UNCHANGED <<apiPc, status, plan, scheduled, emitted, runner>>
    BY <1>3 DEF Control, captureVars, appOwn, runnerVars, samples
  <2> QED
    BY <1>1, <2>1
<1>4. CASE Runner \/ \E r \in Requests : TimeOut(r)
  <2>0. UNCHANGED <<apiPc, status, plan>>
    BY <1>4, RunnerLeavesHandlers
  <2>1. CASE runner' \notin {"await"} \cup Sampling
    BY <2>1 DEF Verdicts
  <2>2. CASE \E command \in pending : Issue(command)
    <3>1. UNCHANGED <<runner, scheduled, emitted>>
      BY <2>2 DEF Issue, samples
    <3> QED
      BY <1>1, <2>0, <3>1
  <2>3. CASE Proceeds
    <3>1. UNCHANGED <<scheduled, emitted>>
      BY <2>3 DEF Proceeds
    <3>2. CASE runner = "opening" \/ runner = "commands"
      <4>1. \A r \in Submitted : apiPc[r] = "idle"
        BY <3>2, SubmittedType, QuietOutsideAwait DEF Over
      <4> QED
        BY <1>1, <2>0, <3>1, <4>1
    <3>3. CASE runner \in {"await"} \cup Sampling
      BY <1>1, <2>0, <3>1, <3>3
    <3>4. runner \in Before => runner' \notin {"await"} \cup Sampling
      BY <2>3 DEF Proceeds, Before, Sampling
    <3> QED
      BY <2>1, <2>3, <3>2, <3>3, <3>4 DEF Proceeds
  <2>4. \/ runner' \notin {"await"} \cup Sampling
        \/ \E command \in pending : Issue(command)
        \/ Proceeds
    BY <1>4, RunnerMoves DEF Over, Sampling
  <2> QED
    BY <2>1, <2>2, <2>3, <2>4
<1> QED
  BY <1>2, <1>3, <1>4, StepsOfCapture

(* The requests of the windows that are over keep their answers. *)
LEMMA PastIsSettled ==
  ASSUME CaptureTyped, Answers, AppStep, NEW r \in Requests,
         \/ runner \notin Over /\ r \in SentBefore(transition)
         \/ runner \in Sampling \cup {"opening"} /\ r \in SentBefore(emitted)
  PROVE  status'[r] = status[r]
<1>1. apiPc[r] = "answered"
  <2>1. plan[r] <= transition
    BY PlanType DEF SentBefore, transition
  <2>2. runner # "opening" /\ runner \notin Over
    BY <2>1, PlanType DEF Over, Sampling
  <2>3. Settled(r)
    BY <2>1, <2>2, PlanType DEF SentBefore, Settled
  <2> QED
    BY <2>2, <2>3 DEF Answers, Accepts
<1>2. CASE \E w \in Workers : Work(w)
  BY <1>2, WorkersKeepGauge
<1>3. CASE \E s \in Requests : (Checkout(s) /\ Send(s)) \/ (ServeRequest(s) /\ Handler(s))
  BY <1>1, <1>3, HandlersOfWindow
<1> QED
  BY <1>2, <1>3 DEF AppStep

(* The counters when main reads them. *)
LEMMA SnapshotCounts ==
  ASSUME CaptureTyped, Answers, CountsExact, runner \in {"counters", "baseline"}
  PROVE  CountsOf(counters, SentBefore(emitted))
<1>1. NoneDropped /\ \A r \in Requests : apiPc[r] \in {"idle", "answered"}
  BY QuietOutsideAwait DEF Over
<1>2. ASSUME NEW r \in Requests PROVE apiPc[r] = "answered" <=> plan[r] < emitted
  <2>1. NotSent(r) => apiPc[r] = "idle"
    BY DEF Answers, Over
  <2>2. Settled(r) => apiPc[r] = "answered"
    BY DEF Answers, Accepts, Over
  <2>3. transition < plan[r] <=> ~(plan[r] < emitted)
    BY PlanType DEF transition
  <2>4. CASE plan[r] < emitted
    <3>1. plan[r] <= transition
      BY <2>4, PlanType DEF transition
    <3>2. runner = "counters"
      BY <3>1, PlanType DEF Before
    <3>3. Settled(r)
      BY <3>1, <3>2, PlanType DEF Settled, Sampling
    <3> QED
      BY <2>2, <2>4, <3>3
  <2>5. CASE ~(plan[r] < emitted)
    BY <2>1, <2>3, <2>5 DEF NotSent
  <2> QED
    BY <2>4, <2>5
<1>3. Counted = SentBefore(emitted)
  BY <1>1, <1>2 DEF Counted, SentBefore
<1> QED
  BY <1>1, <1>3 DEF CountsExact

LEMMA SnapshotsStep ==
  ASSUME CaptureTyped, Answers, CountsExact, Snapshots, [CaptureNext]_captureVars
  PROVE  Snapshots'
<1> DEFINE Begun == Window \cup {"baselineRows", "opening"}
           Taken == (Sampling \ {"counters"}) \cup {"opening"}
<1>0. /\ previous \in Counts /\ current \in Counts
      /\ emitted \in Nat /\ transition = emitted - 1
  BY ReadsType, PlanType DEF transition
<1>1. ASSUME previous'.counters = previous.counters, current'.counters = current.counters,
             UNCHANGED <<plan, emitted, status>>,
             runner' \in Begun => runner \in Begun,
             runner' \in Taken => runner \in Taken
      PROVE  Snapshots'
  BY <1>1 DEF Snapshots, CountsOf, Errors, SentBefore, transition
<1>2. CASE AppStep
  <2>1. UNCHANGED <<runner, plan, emitted, previous, current>>
    BY <1>2, AppStepFrame DEF runnerVars, samples
  <2>2. SentBefore(transition)' = SentBefore(transition)
        /\ SentBefore(emitted)' = SentBefore(emitted)
    BY <2>1 DEF SentBefore, transition
  <2>3. runner \in Begun => Errors(SentBefore(transition))' = Errors(SentBefore(transition))
    <3>1. runner \in Begun => runner \notin Over
      BY DEF Window, Sampling, Over
    <3>2. SentBefore(transition) \subseteq Requests
      BY DEF SentBefore
    <3> QED
      BY <1>2, <2>2, <3>1, <3>2, PastIsSettled DEF Errors
  <2>4. runner \in Taken => Errors(SentBefore(emitted))' = Errors(SentBefore(emitted))
    <3>1. SentBefore(emitted) \subseteq Requests
      BY DEF SentBefore
    <3> QED
      BY <1>2, <2>2, <3>1, PastIsSettled DEF Errors
  <2> QED
    BY <2>1, <2>2, <2>3, <2>4 DEF Snapshots, CountsOf
<1>3. CASE Control \/ UNCHANGED captureVars \/ (\E r \in Requests : TimeOut(r))
           \/ (\E command \in pending : Issue(command))
  <2>1. UNCHANGED <<runner, plan, emitted, previous, current, status>>
    BY <1>3 DEF Control, captureVars, TimeOut, Issue, appOwn, runnerVars, samples
  <2> QED
    BY <1>1, <2>1
<1>4. CASE runner' \in Over \cup {"reset", "truncate", "rejoin", "baseline", "errors"}
  BY <1>4 DEF Snapshots, Over, Window, Sampling
<1>5. CASE Baseline
  <2>1. CASE runner' = "failed"
    BY <1>4, <2>1 DEF Over
  <2>2. CASE runner' # "failed"
    <3>1. /\ runner = "baseline" /\ runner' = "baselineRows"
          /\ UNCHANGED <<plan, emitted, status>>
          /\ previous' = [previous EXCEPT !.counters = counters]
      BY <1>5, <2>2 DEF Baseline, At, Goto, Aborts, appOwn
    <3>2. previous'.counters = counters
      BY <1>0, <3>1 DEF Counts
    <3>3. CountsOf(counters, SentBefore(emitted))
      BY <3>1, SnapshotCounts
    <3>4. SentBefore(emitted) = SentBefore(transition)
      <4>1. transition = -1 /\ emitted = 0
        BY <1>0, <3>1, PlanType DEF Before
      <4> QED
        BY <4>1, PlanType DEF SentBefore
    <3>5. CountsOf(previous.counters, SentBefore(transition))'
      BY <3>1, <3>2, <3>3, <3>4 DEF CountsOf, SentBefore, Errors, transition
    <3> QED
      BY <3>1, <3>5 DEF Snapshots, Sampling
  <2> QED
    BY <2>1, <2>2
<1>6. CASE BaselineRows
  <2>1. CASE runner' = "failed"
    BY <1>4, <2>1 DEF Over
  <2>2. CASE runner' # "failed"
    <3>1. /\ runner = "baselineRows" /\ runner' = "opening"
          /\ UNCHANGED <<plan, emitted, status>>
          /\ previous' = [previous EXCEPT !.rows = RowCount] /\ current' = previous'
      BY <1>6, <2>2 DEF BaselineRows, At, Goto, Aborts, appOwn
    <3>2. previous'.counters = previous.counters /\ current'.counters = previous.counters
      BY <1>0, <3>1 DEF Counts
    <3>3. CountsOf(previous.counters, SentBefore(transition))
      BY <3>1 DEF Snapshots
    <3>4. SentBefore(emitted) = SentBefore(transition)
      <4>1. transition = -1 /\ emitted = 0
        BY <1>0, <3>1, PlanType DEF Before
      <4> QED
        BY <4>1, PlanType DEF SentBefore
    <3>5. /\ CountsOf(previous.counters, SentBefore(transition))'
          /\ CountsOf(current.counters, SentBefore(emitted))'
      BY <3>1, <3>2, <3>3, <3>4 DEF CountsOf, SentBefore, Errors, transition
    <3> QED
      BY <3>5 DEF Snapshots
  <2> QED
    BY <2>1, <2>2
<1>7. CASE Opened \/ Submit \/ Gathered
  <2>1. /\ UNCHANGED <<previous, current, plan, emitted, status>>
        /\ \/ runner' \in Over
           \/ runner = "opening" /\ runner' = "busy"
           \/ runner \in {"commands", "await"} /\ runner' \in {"await", "counters"}
    BY <1>7 DEF Opened, Submit, Gathered, At, Goto, Aborts, Raises, Over, appOwn, samples
  <2> QED
    BY <1>1, <1>4, <2>1 DEF Window, Sampling
<1>8. CASE ReadRows
  <2>1. /\ UNCHANGED <<previous, plan, emitted, status>> /\ runner = "rows"
        /\ runner' \in {"busy", "closing"}
        /\ current' = [current EXCEPT !.rows = RowCount]
    BY <1>8 DEF ReadRows, Read, At, Goto, Raises, appOwn
  <2>2. current'.counters = current.counters
    BY <1>0, <2>1 DEF Counts
  <2> QED
    BY <1>1, <1>4, <2>1, <2>2 DEF Window, Sampling, Over
<1>9. CASE ReadBusy \/ ReadGauges \/ CountWorkers \/ ReadLevel \/ RestartPeak
  <2>1. /\ UNCHANGED <<previous, current, plan, emitted, status>>
        /\ runner \in {"busy", "gauges", "live", "current", "peak"}
        /\ runner' \in {"gauges", "live", "current", "peak", "emit", "closing"}
    BY <1>9 DEF ReadBusy, ReadGauges, CountWorkers, ReadLevel, RestartPeak, Read, At, Goto, Raises,
                appOwn, samples
  <2> QED
    BY <1>1, <1>4, <2>1 DEF Window, Sampling, Over
<1>10. CASE ReadCounters
  <2>1. /\ UNCHANGED <<previous, plan, emitted, status>> /\ runner = "counters"
        /\ runner' \in {"rows", "closing"}
        /\ current' = [current EXCEPT !.counters = counters]
    BY <1>10 DEF ReadCounters, Read, At, Goto, Raises, appOwn
  <2>2. current'.counters = counters
    BY <1>0, <2>1 DEF Counts
  <2>3. /\ CountsOf(counters, SentBefore(emitted))
        /\ CountsOf(previous.counters, SentBefore(transition))
    BY <2>1, SnapshotCounts DEF Snapshots, Window, Sampling
  <2>4. /\ CountsOf(previous.counters, SentBefore(transition))'
        /\ CountsOf(current.counters, SentBefore(emitted))'
    BY <2>1, <2>2, <2>3 DEF CountsOf, SentBefore, Errors, transition
  <2> QED
    BY <2>4 DEF Snapshots
<1>11. CASE EmitMetrics
  <2>1. CASE runner' = "commands"
    <3>1. /\ UNCHANGED <<plan, status>> /\ runner = "emit"
          /\ previous' = current /\ emitted' = emitted + 1
      BY <1>11, <2>1 DEF EmitMetrics, At, Goto, Raises, appOwn
    <3>2. CountsOf(current.counters, SentBefore(emitted))
      BY <3>1 DEF Snapshots, Sampling
    <3>3. transition' = emitted
      BY <1>0, <3>1 DEF transition
    <3>4. CountsOf(previous.counters, SentBefore(transition))'
      BY <3>1, <3>2, <3>3 DEF CountsOf, SentBefore, Errors
    <3> QED
      BY <2>1, <3>4 DEF Snapshots, Sampling
  <2>2. CASE runner' # "commands"
    <3>1. runner' \in {"errors", "closing"}
      BY <1>11, <2>2 DEF EmitMetrics, Goto, Raises
    <3> QED
      BY <1>4, <3>1 DEF Over
  <2> QED
    BY <2>1, <2>2
<1>12. CASE WaitForWorkers("boot", "reset") \/ WaitForWorkers("rejoin", "baseline") \/ Reset
            \/ Truncate \/ CommandRaised \/ CheckEmitErrors \/ CloseController \/ Closed \/ Finish
  <2>1. runner' \in Over \cup {"reset", "truncate", "rejoin", "baseline", "errors"}
    BY <1>12
       DEF WaitForWorkers, Reset, Truncate, CommandRaised, CheckEmitErrors, CloseController,
           Closed, Finish, ProcessEnds, At, Goto, Aborts, Raises, Over, runnerVars
  <2> QED
    BY <1>4, <2>1
<1>13. CASE Runner
  BY <1>3, <1>5, <1>6, <1>7, <1>8, <1>9, <1>10, <1>11, <1>12, <1>13 DEF Runner
<1> QED
  BY <1>2, <1>3, <1>13, StepsOfCapture

(* The sample of a window counts the requests the window sent, no more and   *)
(* no less, and as errors those that a rejection in effect rejects, whatever *)
(* calls failed before (run_capture.py's differences of _counters, with      *)
(* _should_reject and _record_api of application.py).                        *)
THEOREM WindowsAreAccounted == CaptureSpec => []WindowAccountsForSchedule
<1>1. CaptureInit => CountsExact /\ Verdicts /\ Snapshots
  <2> SUFFICES ASSUME CaptureInit PROVE CountsExact /\ Verdicts /\ Snapshots
    OBVIOUS
  <2>1. /\ runner = "boot" /\ Counted = {} /\ Errors(Counted) = {}
        /\ counters["api_requests"] = 0 /\ counters["api_errors"] = 0
    BY DEF CaptureInit, Init, Counted, Errors, CounterNames
  <2>2. CountsExact
    BY <2>1, FS_EmptySet DEF CountsExact, CountsOf
  <2> QED
    BY <2>1, <2>2 DEF Verdicts, Snapshots, Window, Sampling
<1>2. CaptureTyped /\ Answers /\ Verdicts /\ Snapshots => WindowAccountsForSchedule
  <2> SUFFICES ASSUME CaptureTyped, Answers, Verdicts, Snapshots, runner = "emit"
               PROVE  WindowAccountsForSchedule
    BY DEF WindowAccountsForSchedule, At
  <2> DEFINE before == SentBefore(transition)
             after == SentBefore(emitted)
             rejected == IF ScheduledNow("api_rejection") THEN Submitted \cap RejectedTokens ELSE {}
  <2>1. CountsOf(previous.counters, before) /\ CountsOf(current.counters, after)
    BY DEF Snapshots, Window, Sampling
  <2>2. after = before \cup Submitted /\ before \cap Submitted = {}
    BY PlanType DEF SentBefore, Submitted, transition
  <2>3. Errors(Submitted) = rejected
    <3>1. \A r \in Submitted : apiPc[r] = "answered" /\ status[r] \in {202, 503}
      BY QuietOutsideAwait DEF Accepts, Sampling, Over
    <3>2. \A r \in Submitted : status[r] # 202 <=> r \in rejected
      BY <3>1 DEF Verdicts, Sampling
    <3> QED
      BY <3>2 DEF Errors
  <2>4. /\ IsFiniteSet(before) /\ Cardinality(before) \in Nat
        /\ IsFiniteSet(Submitted) /\ Cardinality(Submitted) \in Nat
        /\ IsFiniteSet(Errors(before)) /\ Cardinality(Errors(before)) \in Nat
        /\ IsFiniteSet(rejected) /\ Cardinality(rejected) \in Nat
    <3>1. /\ before \in SUBSET Requests /\ Submitted \in SUBSET Requests
          /\ Errors(before) \in SUBSET Requests /\ rejected \in SUBSET Requests
      BY DEF SentBefore, Submitted, Errors
    <3> QED
      BY <3>1, ActorsAreFinite
  <2>5. Errors(after) = Errors(before) \cup rejected /\ Errors(before) \cap rejected = {}
    BY <2>2, <2>3 DEF Errors
  <2> HIDE DEF before, after, rejected
  <2>6. Cardinality(after) = Cardinality(before) + Cardinality(Submitted)
    <3>1. Cardinality(before \cap Submitted) = 0
      BY <2>2, FS_EmptySet
    <3>2. Cardinality(before \cup Submitted)
            = Cardinality(before) + Cardinality(Submitted) - Cardinality(before \cap Submitted)
      BY <2>4, FS_Union
    <3> QED
      BY <2>2, <2>4, <3>1, <3>2
  <2>7. Cardinality(Errors(after)) = Cardinality(Errors(before)) + Cardinality(rejected)
    <3>1. Cardinality(Errors(before) \cap rejected) = 0
      BY <2>5, FS_EmptySet
    <3>2. Cardinality(Errors(before) \cup rejected)
            = Cardinality(Errors(before)) + Cardinality(rejected)
              - Cardinality(Errors(before) \cap rejected)
      BY <2>4, FS_Union
    <3> QED
      BY <2>4, <2>5, <3>1, <3>2
  <2>8. Delta("api_requests") = Cardinality(Submitted)
    BY <2>1, <2>4, <2>6 DEF CountsOf, Delta
  <2>9. Delta("api_errors") = Cardinality(rejected)
    BY <2>1, <2>4, <2>7 DEF CountsOf, Delta
  <2>10. Cardinality(rejected) = IF ScheduledNow("api_rejection")
                                 THEN Cardinality(Submitted \cap RejectedTokens) ELSE 0
    BY FS_EmptySet DEF rejected
  <2> QED
    BY <2>8, <2>9, <2>10 DEF WindowAccountsForSchedule
<1> QED
  BY <1>1, <1>2, InitTyped, TypedStep, TimingInit, TimingStep, ControlsInit, ControlsStep,
     AnswersInit, AnswersStep, ItemsInit, ItemsStep, CountsStep, VerdictsStep, SnapshotsStep, PTL
     DEF CaptureSpec

-----------------------------------------------------------------------------
(* The evidence of a run. *)

(* What close() and the boundary after it need: the loop is over before the  *)
(* final DELETE; once close() has returned no action is active and no        *)
(* enqueue delay is set, and so it remains while the boundary is recorded.   *)
Cleared == active = {} /\ keys["redis_enqueue_delay"] = NoAction

ClosingFits ==
  /\ call.step = "wipe" => active = {}
  /\ call.op = "close" /\ call.step = "returned" => Cleared
  /\ runner = "closed" =>
       Cleared /\ call.op = "boundary" /\ (call.step = "post" => call.delay = NoAction)
  /\ call.op = "boundary" /\ call.phase = "closed" /\ call.step \in {"readback", "post"} =>
       runner = "closed"

ClosedBoundariesFit ==
  \A i \in Boundaries("closed") : evidence[i].active = 0 /\ evidence[i].delay = NoAction

(* No exception so far. *)
Orderly == ~failing /\ call.step # "raised"

(* An exception that left main's try is remembered, and keeps the run from *)
(* being done.                                                             *)
FailuresStay ==
  /\ failing => runner \in Over
  /\ runner = "failed" => failing
  /\ runner = "done" => Orderly
  /\ runner \in {"closing", "done"} /\ call.op # "close" /\ call.step = "raised" => failing

(* A run without an exception ends with all its samples and no command left; *)
(* its close() finds no action active.                                       *)
EndsFit ==
  Orderly =>
    /\ runner \in {"closing", "closed", "done"} =>
         emitted = PointCount /\ pending = {} /\ active = {}
    /\ runner = "closing" =>
         call.step \in IF call.op = "close" THEN {"sweep", "wipe", "returned"} ELSE {"returned"}
    /\ runner = "done" => call.step = "returned"

(* The record under way: the one of the boundary that main has begun, or the *)
(* one of the command, with what it will say.                                *)
RecordFits ==
  /\ runner = "opening" /\ call.step \notin {"returned", "raised"} =>
       call.op = "boundary" /\ call.phase = "started" /\ call.step \in {"readback", "post"}
  /\ runner = "closed" /\ call.step \notin {"returned", "raised"} =>
       call.phase = "closed" /\ call.step \in {"readback", "post"}
  /\ runner = "commands" /\ call.step \notin {"returned", "raised"} =>
       /\ call.op = "command" /\ call.action \in scheduled /\ call.phase \in Ctl!Phases
       /\ <<call.action, call.phase>> \notin pending
       /\ call.index = Index(<<call.action, call.phase>>) /\ call.index = transition
       /\ On = IF call.phase = "start" THEN {call.action} ELSE {}
       /\ call.phase = "start" /\ call.step \in {"readback", "post"} =>
            realized[call.action] = call.workers
       /\ call.step = "post" => call.delay = keys["redis_enqueue_delay"]

(* The commands on record: those issued, but the one under way. *)
UnderWay ==
  IF call.op = "command" /\ call.step # "returned" THEN {<<call.action, call.phase>>} ELSE {}

Logged == ((scheduled \X {"start", "stop"}) \ pending) \ UnderWay

Begun == runner \notin Before /\ (runner = "opening" => call.step = "returned")
Ended == runner = "done" \/ (runner = "closed" /\ call.step = "returned")

OnRecord(a, phase, workers, delay) ==
  \E i \in Ctl!Recorded(a, phase) :
    /\ evidence[i].status = "applied" /\ evidence[i].workers = workers
    /\ evidence[i].index = Index(<<a, phase>>)
    /\ Kind[a] = "redis_enqueue_delay" => evidence[i].delay = delay

(* A pause names as many of the workers its start found registered as its    *)
(* magnitude says; and these are all, or something held one of them up.      *)
AsWanted(a, workers) ==
  /\ Cardinality(workers) = Ctl!PauseCount(Cardinality(registered[a]))
  /\ registered[a] = Workers \/ MayLapse(a)

(* The workers of a start are those of its stop: the controller remembers    *)
(* them until the stop is under way, which then carries them.                *)
ActionOnRecord(a) ==
  \E workers \in SUBSET Workers :
    /\ Kind[a] = "worker_pause" => AsWanted(a, workers)
    /\ OnRecord(a, "start", workers, a)
    /\ <<a, "stop">> \in pending => workers = realized[a]
    /\ <<a, "stop">> \in UnderWay => workers = call.workers
    /\ <<a, "stop">> \in Logged => OnRecord(a, "stop", workers, NoAction)

RecordsAreCounted ==
  /\ Cardinality(Boundaries("started")) = Indicator(Begun)
  /\ Cardinality(Boundaries("closed")) = Indicator(Ended)
  /\ Len(evidence) = Indicator(Begun) + Indicator(Ended) + Cardinality(Logged)

RunIsOnRecord ==
  Orderly =>
    /\ RecordsAreCounted
    /\ \A a \in scheduled : <<a, "start">> \in Logged => ActionOnRecord(a)

(* The steps of main that call the controller, and those that do not. *)
Opens == BaselineRows /\ runner' = "opening"
Closes == Closed /\ runner' = "closed"

MainMoves ==
  /\ UNCHANGED <<active, realized, evidence, call, scheduled, pending>>
  /\ runner # "reset" => UNCHANGED keys
  /\ runner = "reset" => runner' \in {"reset", "truncate", "failed"}
  /\ runner # "emit" => UNCHANGED emitted
  /\ \/ UNCHANGED <<runner, failing, emitted>>
     \/ /\ runner' = "failed" /\ failing'
        /\ runner = "closed" => call.step \in {"returned", "raised"}
     \/ runner \in Window \cup {"errors"} /\ runner' = "closing" /\ failing'
     \/ runner = "errors" /\ runner' = "closing" /\ UNCHANGED <<failing, emitted>>
     \/ /\ runner = "closed" /\ call.step = "returned" /\ ~failing
        /\ runner' = "done" /\ UNCHANGED <<failing, emitted>>
     \/ runner \in Before /\ runner' \in Before /\ UNCHANGED failing
     \/ runner = "opening" /\ call.step = "returned" /\ runner' = "busy" /\ UNCHANGED failing
     \/ runner \in Window /\ runner' \in Window \cup {"errors"} /\ UNCHANGED failing

LEMMA CaptureMoves ==
  ASSUME [CaptureNext]_captureVars
  PROVE  \/ Control \/ (\E command \in pending : Issue(command))
         \/ Opens \/ CloseController \/ Closes \/ MainMoves
<1> USE DEF Before, Window, Sampling
<1>1. CASE AppStep \/ UNCHANGED captureVars
  <2>1. UNCHANGED <<ctlOwn, runnerVars>>
    BY <1>1, AppStepFrame DEF captureVars
  <2> QED
    BY <2>1 DEF ctlOwn, runnerVars, samples, MainMoves
<1>2. CASE \E r \in Requests : TimeOut(r)
  BY <1>2 DEF TimeOut, MainMoves, ctlOwn, samples, At
<1>3. CASE WaitForWorkers("boot", "reset") \/ WaitForWorkers("rejoin", "baseline") \/ Reset
           \/ Truncate \/ Baseline
  BY <1>3 DEF WaitForWorkers, Reset, Truncate, Baseline, MainMoves, At, Goto, Aborts, ctlOwn, samples
<1>4. CASE BaselineRows
  <2>1. CASE runner' = "opening"
    BY <1>4, <2>1 DEF Opens
  <2>2. CASE runner' # "opening"
    BY <1>4, <2>2 DEF BaselineRows, MainMoves, At, Goto, Aborts
  <2> QED
    BY <2>1, <2>2
<1>5. CASE Opened \/ CommandRaised \/ Submit \/ Gathered
  BY <1>5 DEF Opened, CommandRaised, Submit, Gathered, MainMoves, At, Goto, Aborts, Raises, Ctl!At,
              ctlOwn, samples
<1>6. CASE ReadCounters \/ ReadRows \/ ReadGauges \/ CountWorkers \/ ReadLevel
  BY <1>6 DEF ReadCounters, ReadRows, ReadGauges, CountWorkers, ReadLevel, Read, MainMoves, At, Goto,
              Raises, ctlOwn
<1>7. CASE ReadBusy \/ RestartPeak \/ EmitMetrics \/ CheckEmitErrors
  BY <1>7 DEF ReadBusy, RestartPeak, EmitMetrics, CheckEmitErrors, MainMoves, At, Goto, Raises,
              ctlOwn, samples
<1>8. CASE Closed
  <2>1. CASE runner' = "closed"
    BY <1>8, <2>1 DEF Closes
  <2>2. CASE runner' # "closed"
    BY <1>8, <2>2 DEF Closed, ProcessEnds, MainMoves, At, Goto, samples
  <2> QED
    BY <2>1, <2>2
<1>9. CASE Finish
  BY <1>9 DEF Finish, ProcessEnds, MainMoves, At, Goto, Ctl!At, Ctl!Idle, samples
<1>10. CASE Runner
  BY <1>3, <1>4, <1>5, <1>6, <1>7, <1>8, <1>9, <1>10 DEF Runner
<1> QED
  BY <1>1, <1>2, <1>10, StepsOfCapture

(* What the calls of main leave behind. *)
LEMMA IssueCalls ==
  ASSUME NEW command \in pending, Issue(command)
  PROVE  /\ runner = "commands" /\ call.step = "returned"
         /\ pending' = pending \ {command} /\ call'.op = "command"
         /\ \/ call'.step = "raised"
            \/ /\ call'.step \in {"select", "lock", "set", "stop"}
               /\ call'.action = command[1] /\ call'.phase = command[2]
               /\ call'.workers = realized[command[1]] /\ call'.index = Index(command)
         /\ UNCHANGED <<active, realized, keys, evidence, scheduled, runner, failing, emitted>>
BY DEF Issue, At, Ctl!At, Ctl!Command, Ctl!Begin, Ctl!FirstStep, Ctl!controls, Ctl!memory, samples

LEMMA BoundaryCalls ==
  /\ Opens => /\ runner = "baselineRows" /\ call'.phase = "started"
              /\ UNCHANGED <<active, realized, keys, evidence, scheduled, pending, failing, emitted>>
              /\ call'.op = "boundary" /\ call'.step = "readback"
  /\ Closes => /\ runner = "closing" /\ call.op = "close" /\ call.step = "returned"
               /\ call'.phase = "closed"
               /\ UNCHANGED <<active, realized, keys, evidence, scheduled, pending, failing, emitted>>
               /\ call'.op = "boundary" /\ call'.step = "readback"
  /\ CloseController =>
       /\ runner = "closing" /\ runner' = "closing" /\ call.op # "close"
       /\ call.step \in {"returned", "raised"} /\ call'.op = "close" /\ call'.step = "sweep"
       /\ UNCHANGED <<active, realized, keys, evidence, scheduled, pending, failing, emitted>>
BY DEF Opens, Closes, BaselineRows, Closed, CloseController, At, Goto, Aborts, Ctl!At, Ctl!Begin,
       Ctl!Close, Ctl!Idle, Ctl!controls, Ctl!memory, ProcessEnds, samples, runnerVars

(* The steps of a start: the action is activated by the last one. *)
LEMMA StartMoves ==
  ASSUME CaptureTyped, Control, call.step \in Starting, call'.step # "raised"
  PROVE  /\ UNCHANGED evidence
         /\ call'.op = call.op /\ call'.action = call.action /\ call'.phase = call.phase
         /\ call'.index = call.index
         /\ \/ /\ call'.step \in Starting /\ UNCHANGED realized
               /\ call.step # "select" => call'.workers = call.workers
            \/ /\ call'.step = "readback" /\ call'.workers = call.workers
               /\ realized' = [realized EXCEPT ![call.action] = call.workers]
<1>1. ~Ctl!Raises
  BY DEF Ctl!Raises, Ctl!Ends
<1>2. CASE Ctl!SelectWorkers
  <2>1. PICK chosen \in SUBSET instances :
          call' = [call EXCEPT !.step = "clear", !.workers = chosen]
    BY <1>1, <1>2 DEF Ctl!SelectWorkers
  <2>2. /\ call'.step = "clear" /\ call'.index = call.index
        /\ call'.op = call.op /\ call'.action = call.action /\ call'.phase = call.phase
    BY <2>1, TypesTogether DEF CaptureTyped, CtlTypes, Ctl!Calls
  <2> QED
    BY <1>2, <2>2 DEF Ctl!SelectWorkers, Ctl!At, Starting
<1>3. CASE Ctl!ClearPaused
  <2>1. Ctl!Goto("pause") /\ UNCHANGED <<evidence, realized>>
    BY <1>1, <1>3 DEF Ctl!ClearPaused, Ctl!memory
  <2> QED
    BY <2>1, CallFieldsStay DEF Starting
<1>4. CASE Ctl!PauseWorkers \/ Ctl!TakeLock \/ Ctl!SetKey
  <2>1. PICK lock : Ctl!Activate(lock)
    BY <1>1, <1>4 DEF Ctl!PauseWorkers, Ctl!TakeLock, Ctl!SetKey
  <2>2. UNCHANGED evidence
    BY <1>4 DEF Ctl!PauseWorkers, Ctl!TakeLock, Ctl!SetKey
  <2> QED
    BY <2>1, <2>2, CallFieldsStay DEF Ctl!Activate
<1> QED
  BY <1>2, <1>3, <1>4
     DEF Control, Ctl!Proceed, Ctl!StopLock, Ctl!StopKey, Ctl!Readback, Ctl!Post, Ctl!Sweep,
         Ctl!Wipe, Ctl!At, Starting

(* The step of a stop forgets the action. *)
LEMMA StopMoves ==
  ASSUME CaptureTyped, Control, call.step = "stop", call'.step # "raised"
  PROVE  /\ UNCHANGED evidence
         /\ call'.op = call.op /\ call'.action = call.action /\ call'.phase = call.phase
         /\ call'.workers = call.workers /\ call'.index = call.index
         /\ call'.step = "readback" \/ (call.op = "close" /\ call'.step = "sweep")
         /\ realized' = [realized EXCEPT ![call.action] = {}]
<1>1. ~Ctl!Raises
  BY DEF Ctl!Raises, Ctl!Ends
<1>2. CASE Ctl!StopLock \/ Ctl!StopKey
  <2>1. Ctl!StopReturns /\ UNCHANGED evidence
    BY <1>1, <1>2 DEF Ctl!StopLock, Ctl!StopKey, Ctl!StopRaises
  <2> QED
    BY <2>1, CallFieldsStay DEF Ctl!StopReturns, Ctl!Forget
<1> QED
  BY <1>2
     DEF Control, Ctl!Proceed, Ctl!SelectWorkers, Ctl!ClearPaused, Ctl!PauseWorkers,
         Ctl!TakeLock, Ctl!SetKey, Ctl!Readback, Ctl!Post, Ctl!Sweep, Ctl!Wipe, Ctl!At

(* The steps of the evidence change no control and no memory. *)
LEMMA EvidenceMoves ==
  ASSUME CaptureTyped, Control, call.step \in {"readback", "post"}
  PROVE  /\ UNCHANGED <<keys, active, realized>> /\ call'.op = call.op
         /\ call.step = "readback" =>
              /\ UNCHANGED evidence
              /\ \/ call'.step = "raised"
                 \/ /\ call'.step = "post" /\ call'.delay = keys["redis_enqueue_delay"]
                    /\ call'.action = call.action /\ call'.phase = call.phase
                    /\ call'.workers = call.workers /\ call'.index = call.index
         /\ call.step = "post" =>
              \/ call'.step = "raised"
              \/ /\ evidence' = Append(evidence, Ctl!Record)
                 /\ call'.step = IF call.op = "close" THEN "sweep" ELSE "returned"
<1>0. call'.op = call.op
  BY ControlIsBusy
<1>1. CASE Ctl!Readback
  <2>1. CASE Ctl!Raises
    BY <1>0, <1>1, <2>1 DEF Ctl!Readback, Ctl!controls, Ctl!memory, Ctl!Raises, Ctl!Ends, Ctl!At
  <2>2. CASE call' = [call EXCEPT !.step = "post", !.delay = keys["redis_enqueue_delay"]]
    <3>1. /\ call'.step = "post" /\ call'.delay = keys["redis_enqueue_delay"]
          /\ call'.action = call.action /\ call'.phase = call.phase
          /\ call'.workers = call.workers /\ call'.index = call.index
      BY <2>2, TypesTogether DEF CaptureTyped, CtlTypes, Ctl!Calls
    <3> QED
      BY <1>0, <1>1, <3>1 DEF Ctl!Readback, Ctl!controls, Ctl!memory, Ctl!At
  <2> QED
    BY <1>1, <2>1, <2>2 DEF Ctl!Readback
<1>2. CASE Ctl!Post
  <2>1. call.step = "post" /\ UNCHANGED <<keys, active, realized>>
    BY <1>2 DEF Ctl!Post, Ctl!At, Ctl!controls
  <2>2. \/ call'.step = "raised"
        \/ /\ evidence' = Append(evidence, Ctl!Record)
           /\ call'.step = IF call.op = "close" THEN "sweep" ELSE "returned"
    BY <1>2, CallFieldsStay DEF Ctl!Post, Ctl!Returns, Ctl!Raises, Ctl!Ends
  <2> QED
    BY <1>0, <2>1, <2>2
<1> QED
  BY <1>1, <1>2
     DEF Control, Ctl!Proceed, Ctl!SelectWorkers, Ctl!ClearPaused, Ctl!PauseWorkers,
         Ctl!TakeLock, Ctl!SetKey, Ctl!StopLock, Ctl!StopKey, Ctl!Sweep, Ctl!Wipe, Ctl!At

(* The loop of close() and the final DELETE record nothing themselves. *)
LEMMA SweepMoves ==
  ASSUME CaptureTyped, Control, call.step \in {"sweep", "wipe"}
  PROVE  /\ UNCHANGED <<evidence, realized>>
         /\ call.step = "sweep" =>
              \/ call'.step = "stop" /\ active # {}
              \/ call'.step = "wipe" /\ active = {} /\ active' = {}
         /\ call.step = "wipe" =>
              /\ UNCHANGED active
              /\ \/ call'.step = "raised"
                 \/ /\ call'.step = "returned"
                    /\ keys' = [k \in Ctl!KeyKinds |-> NoAction]
<1>1. CASE Ctl!Sweep
  <2>1. CASE Ctl!Goto("wipe")
    BY <1>1, <2>1, CallFieldsStay DEF Ctl!Sweep, Ctl!At, Ctl!Goto
  <2>2. CASE \E a \in active :
               call' = [call EXCEPT !.action = a, !.index = Stop[a], !.step = "stop",
                                    !.workers = realized[a]]
    <3>1. call'.step = "stop"
      BY <2>2, TypesTogether DEF CaptureTyped, CtlTypes, Ctl!Calls
    <3> QED
      BY <1>1, <2>2, <3>1 DEF Ctl!Sweep, Ctl!At
  <2> QED
    BY <1>1, <2>1, <2>2 DEF Ctl!Sweep
<1>2. CASE Ctl!Wipe
  BY <1>2 DEF Ctl!Wipe, Ctl!At, Ctl!memory, Ctl!Returns, Ctl!Raises, Ctl!Ends
<1> QED
  BY <1>1, <1>2
     DEF Control, Ctl!Proceed, Ctl!SelectWorkers, Ctl!ClearPaused, Ctl!PauseWorkers,
         Ctl!TakeLock, Ctl!SetKey, Ctl!StopLock, Ctl!StopKey, Ctl!Readback, Ctl!Post, Ctl!At

(* A method that is in progress is at one of its steps. *)
LEMMA MethodSteps ==
  ASSUME CaptureTyped, Control
  PROVE  call.step \in Starting \cup {"stop", "readback", "post", "sweep", "wipe"}
<1>1. \/ call.step = "select" \/ call.step = "clear" \/ call.step = "pause" \/ call.step = "lock"
      \/ call.step = "set" \/ call.step = "stop" \/ call.step = "readback"
      \/ call.step = "post" \/ call.step = "sweep" \/ call.step = "wipe"
  BY DEF Control, Ctl!Proceed, Ctl!SelectWorkers, Ctl!ClearPaused, Ctl!PauseWorkers,
         Ctl!TakeLock, Ctl!SetKey, Ctl!StopLock, Ctl!StopKey, Ctl!Readback, Ctl!Post, Ctl!Sweep,
         Ctl!Wipe, Ctl!At
<1> QED
  BY <1>1 DEF Starting

(* A boundary is two calls: the read-back and the POST. *)
LEMMA BoundarySteps ==
  ASSUME CaptureTyped, Control, call.op = "boundary"
  PROVE  call.step \in {"readback", "post"}
<1>1. call.step \in Starting => call.op = "command"
  BY DEF CaptureTyped, CallShape, StartShape
<1>2. call.step \in {"stop", "sweep", "wipe"} => call.op \in {"command", "close"}
  BY DEF CaptureTyped, CallShape, StopShape, SweepShape
<1> QED
  BY <1>1, <1>2, MethodSteps

-----------------------------------------------------------------------------
(* Once close() has returned, no action is active and no delay is set, until *)
(* the boundary is on record.                                                *)
LEMMA ClosingStep ==
  ASSUME CaptureTyped, Timing, ClosingFits, [CaptureNext]_captureVars
  PROVE  ClosingFits'
<1> USE DEF ClosingFits, Cleared
<1>1. CASE Control
  <2>0. /\ runner' = runner /\ call'.op = call.op
    BY <1>1, ControlIsBusy DEF runnerVars
  <2>1. CASE call'.step = "raised"
    <3>1. runner = "closed" => call.op = "boundary"
      OBVIOUS
    <3>2. runner = "closed" => call.step \in {"readback", "post"}
      BY <1>1, <3>1, BoundarySteps
    <3> QED
      BY <1>1, <2>0, <2>1, <3>1, <3>2, EvidenceMoves
  <2>2. CASE call.step \in Starting /\ call'.step # "raised"
    <3>1. call.op = "command"
      BY <2>2 DEF CaptureTyped, CallShape, StartShape
    <3>2. call'.step \notin {"wipe"}
      BY <1>1, <2>2, StartMoves DEF Starting
    <3> QED
      BY <2>0, <3>1, <3>2
  <2>3. CASE call.step = "stop" /\ call'.step # "raised"
    <3>1. call.op \in {"command", "close"}
      BY <2>3 DEF CaptureTyped, CallShape, StopShape
    <3>2. call'.step \in {"readback", "sweep"}
      BY <1>1, <2>3, StopMoves
    <3> QED
      BY <2>0, <3>1, <3>2
  <2>4. CASE call.step \in {"readback", "post"} /\ call'.step # "raised"
    BY <1>1, <2>0, <2>4, EvidenceMoves
  <2>5. CASE call.step \in {"sweep", "wipe"} /\ call'.step # "raised"
    <3>1. call.op = "close"
      BY <2>5 DEF CaptureTyped, CallShape, SweepShape
    <3>2. call'.step = "returned" => active' = {} /\ keys' = [k \in Ctl!KeyKinds |-> NoAction]
      BY <1>1, <2>5, SweepMoves
    <3>3. call'.step = "wipe" => active' = {}
      BY <1>1, <2>5, SweepMoves
    <3> QED
      BY <2>0, <3>1, <3>2, <3>3 DEF Ctl!KeyKinds
  <2> QED
    BY <1>1, <2>1, <2>2, <2>3, <2>4, <2>5, MethodSteps
<1>2. CASE \E command \in pending : Issue(command)
  BY <1>2, IssueCalls
<1>3. CASE Opens
  BY <1>3, BoundaryCalls DEF Opens
<1>4. CASE CloseController
  BY <1>4, BoundaryCalls
<1>5. CASE Closes
  BY <1>5, BoundaryCalls DEF Closes
<1>6. CASE MainMoves
  <2>1. CASE runner = "reset"
    <3>1. call.step = "returned" /\ call.op # "close"
      BY <2>1 DEF Timing, Rests, Before, Over
    <3>2. runner' # "closed"
      BY <1>6, <2>1 DEF MainMoves
    <3> QED
      BY <1>6, <3>1, <3>2 DEF MainMoves
  <2>2. CASE runner # "reset"
    <3>1. UNCHANGED <<active, keys, call>>
      BY <1>6, <2>2 DEF MainMoves
    <3>2. runner' = "closed" => runner = "closed"
      BY <1>6 DEF MainMoves, Before, Window, Sampling
    <3>3. runner = "closed" /\ runner' # "closed" => call.step \in {"returned", "raised"}
      BY <1>6 DEF MainMoves, Before, Window, Sampling
    <3> QED
      BY <3>1, <3>2, <3>3
  <2> QED
    BY <2>1, <2>2
<1> QED
  BY <1>1, <1>2, <1>3, <1>4, <1>5, <1>6, CaptureMoves

-----------------------------------------------------------------------------
(* The end of a run. *)

(* An exception is not forgotten. *)
LEMMA OrderlyBefore ==
  ASSUME CaptureTyped, Timing, FailuresStay, [CaptureNext]_captureVars, Orderly'
  PROVE  Orderly
<1> USE DEF Orderly
<1>1. CASE Control
  BY <1>1, ControlIsBusy DEF runnerVars
<1>2. CASE \E command \in pending : Issue(command)
  BY <1>2, IssueCalls
<1>3. CASE Opens
  BY <1>3, BoundaryCalls DEF Timing, Rests, Before
<1>4. CASE CloseController
  BY <1>4, BoundaryCalls DEF FailuresStay
<1>5. CASE Closes
  BY <1>5, BoundaryCalls
<1>6. CASE MainMoves
  BY <1>6 DEF MainMoves
<1> QED
  BY <1>1, <1>2, <1>3, <1>4, <1>5, <1>6, CaptureMoves

(* When the loop is over no action is under way. *)
LEMMA NothingUnderWay ==
  ASSUME CaptureTyped, Timing, ControlsFit, runner = "errors"
  PROVE  /\ emitted = PointCount /\ pending = {} /\ active = {}
         /\ call.step = "returned" /\ call.op # "close"
<1>1. call.step = "returned" /\ call.op # "close" /\ pending = {}
  BY DEF Timing, Rests, CommandsOnTime, Over
<1>2. emitted = PointCount
  BY DEF CaptureTyped, SamplesAreCounted
<1>3. On = {} /\ Held = On /\ Live
  BY <1>1 DEF On, Held, Live, Over, Starting
<1> QED
  BY <1>1, <1>2, <1>3 DEF ControlsFit, ControlsOf

(* What an orderly run has reached when main leaves its loop remains. *)
LEMMA EndsStep ==
  ASSUME CaptureTyped, Timing, ControlsFit, ClosingFits, FailuresStay, EndsFit,
         [CaptureNext]_captureVars
  PROVE  EndsFit'
<1> SUFFICES ASSUME Orderly' PROVE EndsFit'
  BY DEF EndsFit
<1>0. /\ Orderly
      /\ runner \in {"closing", "closed", "done"} =>
           emitted = PointCount /\ pending = {} /\ active = {}
      /\ runner = "closing" =>
           call.step \in IF call.op = "close" THEN {"sweep", "wipe", "returned"} ELSE {"returned"}
      /\ runner = "done" => call.step = "returned"
      /\ ~failing' /\ call'.step # "raised"
  BY OrderlyBefore DEF EndsFit, Orderly
<1>1. CASE Control
  <2>1. /\ UNCHANGED <<runner, emitted, pending>> /\ call'.op = call.op
        /\ call.step \notin {"returned", "raised"}
    BY <1>1, ControlIsBusy DEF runnerVars, samples
  <2>2. CASE runner = "closing"
    <3>1. call.op = "close" /\ call.step \in {"sweep", "wipe"} /\ active = {}
      BY <1>0, <2>1, <2>2
    <3>2. call'.step \in {"wipe", "returned"} /\ active' = {}
      BY <1>0, <1>1, <3>1, SweepMoves
    <3> QED
      BY <1>0, <2>1, <2>2, <3>1, <3>2 DEF EndsFit
  <2>3. CASE runner = "closed"
    <3>1. call.op = "boundary"
      BY <2>3 DEF ClosingFits
    <3>2. call.step \in {"readback", "post"}
      BY <1>1, <3>1, BoundarySteps
    <3>3. active' = active
      BY <1>1, <3>2, EvidenceMoves
    <3> QED
      BY <1>0, <2>1, <2>3, <3>3 DEF EndsFit
  <2> QED
    BY <1>0, <2>1, <2>2, <2>3 DEF EndsFit
<1>2. CASE \E command \in pending : Issue(command)
  BY <1>2, IssueCalls DEF EndsFit
<1>3. CASE Opens
  BY <1>3 DEF Opens, EndsFit
<1>4. CASE CloseController
  BY <1>0, <1>4, BoundaryCalls DEF EndsFit
<1>5. CASE Closes
  <2>1. runner = "closing" /\ UNCHANGED <<active, pending, emitted>> /\ runner' = "closed"
    BY <1>5, BoundaryCalls DEF Closes
  <2> QED
    BY <1>0, <2>1 DEF EndsFit
<1>6. CASE MainMoves
  <2>1. UNCHANGED <<active, call, pending>>
    BY <1>6 DEF MainMoves
  <2>2. CASE UNCHANGED <<runner, failing, emitted>>
    BY <1>0, <2>1, <2>2 DEF EndsFit
  <2>3. CASE runner = "errors" /\ runner' = "closing" /\ UNCHANGED <<failing, emitted>>
    BY <2>1, <2>3, NothingUnderWay DEF EndsFit
  <2>4. CASE runner = "closed" /\ call.step = "returned" /\ runner' = "done"
             /\ UNCHANGED <<failing, emitted>>
    BY <1>0, <2>1, <2>4 DEF EndsFit
  <2>5. CASE runner' \notin {"closing", "closed", "done"}
    BY <2>5 DEF EndsFit
  <2> QED
    BY <1>0, <1>6, <2>2, <2>3, <2>4, <2>5 DEF MainMoves, Before, Window, Sampling
<1> QED
  BY <1>1, <1>2, <1>3, <1>4, <1>5, <1>6, CaptureMoves

(* No step forgets an exception, and the process ends well without one only. *)
LEMMA FailuresStep ==
  ASSUME CaptureTyped, Timing, FailuresStay, EndsFit, [CaptureNext]_captureVars
  PROVE  FailuresStay'
<1> USE DEF FailuresStay
<1>1. CASE Control
  <2>1. /\ UNCHANGED <<runner, failing>> /\ call'.op = call.op
        /\ call.step \notin {"returned", "raised"}
    BY <1>1, ControlIsBusy DEF runnerVars
  <2>2. runner # "done" /\ (runner = "closing" /\ call.op # "close" => failing)
    BY <2>1 DEF EndsFit, Orderly
  <2> QED
    BY <2>1, <2>2
<1>2. CASE \E command \in pending : Issue(command)
  BY <1>2, IssueCalls DEF Over
<1>3. CASE Opens
  <2>1. runner = "baselineRows" /\ failing' = failing /\ runner' = "opening"
    BY <1>3, BoundaryCalls DEF Opens
  <2> QED
    BY <2>1 DEF Over
<1>4. CASE CloseController
  BY <1>4, BoundaryCalls
<1>5. CASE Closes
  <2>1. failing' = failing /\ runner' = "closed"
    BY <1>5, BoundaryCalls DEF Closes
  <2> QED
    BY <2>1 DEF Over
<1>6. CASE MainMoves
  <2>1. UNCHANGED call
    BY <1>6 DEF MainMoves
  <2>2. CASE runner = "errors" /\ runner' = "closing" /\ failing' = failing
    <3>1. call.step = "returned"
      BY <2>2 DEF Timing, Rests
    <3> QED
      BY <2>1, <2>2, <3>1 DEF Over
  <2> QED
    BY <1>6, <2>1, <2>2 DEF MainMoves, Before, Window, Sampling, Over, Orderly
<1> QED
  BY <1>1, <1>2, <1>3, <1>4, <1>5, <1>6, CaptureMoves

(* The record under way remains the one main has asked for. *)
LEMMA RecordStep ==
  ASSUME CaptureTyped, Timing, ClosingFits, RecordFits, [CaptureNext]_captureVars
  PROVE  RecordFits'
<1>1. CASE Control
  <2>0. /\ UNCHANGED <<runner, pending, scheduled, emitted>> /\ call'.op = call.op
        /\ call.step \notin {"returned", "raised"}
    BY <1>1, ControlIsBusy DEF runnerVars, samples
  <2>1. CASE call'.step \in {"returned", "raised"}
    BY <2>1 DEF RecordFits
  <2>2. CASE runner \in {"opening", "closed"} /\ call'.step \notin {"returned", "raised"}
    <3>1. call.op = "boundary"
      BY <2>0, <2>2 DEF RecordFits, ClosingFits
    <3>2. call.step \in {"readback", "post"}
      BY <1>1, <3>1, BoundarySteps
    <3>3. call'.step = "post" /\ call'.phase = call.phase
      BY <1>1, <2>2, <3>1, <3>2, EvidenceMoves
    <3> QED
      BY <2>0, <2>2, <3>1, <3>3 DEF RecordFits
  <2>3. CASE runner = "commands" /\ call'.step \notin {"returned", "raised"}
    <3>1. /\ call.op = "command" /\ call.action \in scheduled /\ call.phase \in Ctl!Phases
          /\ <<call.action, call.phase>> \notin pending
          /\ call.index = Index(<<call.action, call.phase>>) /\ call.index = transition
          /\ On = IF call.phase = "start" THEN {call.action} ELSE {}
          /\ call.phase = "start" /\ call.step \in {"readback", "post"} =>
               realized[call.action] = call.workers
      BY <2>0, <2>3 DEF RecordFits
    <3>2. On' = On
      BY <2>0 DEF On
    <3>3. call'.action = call.action /\ call'.phase = call.phase /\ call'.index = call.index
          /\ (call'.phase = "start" /\ call'.step \in {"readback", "post"} =>
                realized'[call.action] = call'.workers)
          /\ (call'.step = "post" => call'.delay = keys'["redis_enqueue_delay"])
      <4>1. CASE call.step \in Starting
        <5>1. call.action \in Actions /\ realized \in [Actions -> SUBSET Workers]
          BY <4>1, TypesTogether DEF CaptureTyped, CtlTypes, CallShape, StartShape
        <5>2. call'.step \in Starting \cup {"readback"}
          BY <1>1, <2>3, <4>1, StartMoves
        <5>3. call'.step # "post"
          BY <5>2 DEF Starting
        <5>4. call'.step = "readback" => realized'[call.action] = call'.workers
          BY <1>1, <2>3, <4>1, <5>1, StartMoves DEF Starting
        <5> QED
          BY <1>1, <2>3, <4>1, <5>3, <5>4, StartMoves
      <4>2. CASE call.step = "stop"
        <5>1. call.phase = "stop"
          BY <3>1, <4>2 DEF CaptureTyped, CallShape, StopShape
        <5>2. call'.step = "readback"
          BY <1>1, <2>3, <3>1, <4>2, StopMoves
        <5> QED
          BY <1>1, <2>3, <4>2, <5>1, <5>2, StopMoves
      <4>3. CASE call.step \in {"readback", "post"}
        <5>1. call.step = "readback" /\ call'.step = "post"
          BY <1>1, <2>3, <3>1, <4>3, EvidenceMoves
        <5> QED
          BY <1>1, <2>3, <3>1, <5>1, EvidenceMoves
      <4> QED
        BY <1>1, <3>1, <4>1, <4>2, <4>3, MethodSteps DEF CaptureTyped, CallShape, SweepShape
    <3>4. transition' = transition
      BY <2>0 DEF transition
    <3> QED
      BY <2>0, <2>3, <3>1, <3>2, <3>3, <3>4 DEF RecordFits
  <2> QED
    BY <2>0, <2>1, <2>2, <2>3 DEF RecordFits
<1>2. CASE \E command \in pending : Issue(command)
  <2>1. PICK command \in pending : Issue(command)
    BY <1>2
  <2>2. /\ runner = "commands" /\ UNCHANGED <<runner, scheduled, emitted>>
        /\ pending' = pending \ {command} /\ call'.op = "command"
        /\ \/ call'.step = "raised"
           \/ /\ call'.step \in {"select", "lock", "set", "stop"}
              /\ call'.action = command[1] /\ call'.phase = command[2]
              /\ call'.index = Index(command)
    BY <2>1, IssueCalls
  <2>3. CASE call'.step = "raised"
    BY <2>3 DEF RecordFits
  <2>4. CASE call'.step # "raised"
    <3>1. /\ command[1] \in scheduled /\ command[2] \in {"start", "stop"}
          /\ Index(command) = transition /\ transition' = transition
          /\ On' = IF command[2] = "start" THEN {command[1]} ELSE {}
      BY <2>1, <2>2, IssueFits DEF transition
    <3>2. <<command[1], command[2]>> \notin pending' /\ command = <<command[1], command[2]>>
      BY <2>2, <3>1, IndexType
    <3> QED
      BY <2>2, <2>4, <3>1, <3>2 DEF RecordFits, Ctl!Phases
  <2> QED
    BY <2>3, <2>4
<1>3. CASE Opens
  <2>1. /\ runner' = "opening"
        /\ call'.op = "boundary" /\ call'.phase = "started" /\ call'.step = "readback"
    BY <1>3, BoundaryCalls DEF Opens
  <2> QED
    BY <2>1 DEF RecordFits
<1>4. CASE CloseController
  BY <1>4, BoundaryCalls DEF RecordFits
<1>5. CASE Closes
  <2>1. runner' = "closed" /\ call'.phase = "closed" /\ call'.step = "readback"
    BY <1>5, BoundaryCalls DEF Closes
  <2> QED
    BY <2>1 DEF RecordFits
<1>6. CASE MainMoves
  <2>1. UNCHANGED <<realized, call, scheduled, pending>> /\ On' = On
    BY <1>6 DEF MainMoves, On
  <2>2. CASE UNCHANGED runner
    <3>1. runner = "commands" => UNCHANGED keys /\ transition' = transition
      BY <1>6 DEF MainMoves, transition
    <3> QED
      BY <2>1, <2>2, <3>1 DEF RecordFits
  <2>3. CASE runner' # runner /\ runner' \in {"opening", "closed"}
    BY <1>6, <2>3 DEF MainMoves, Before, Window, Sampling
  <2>4. CASE runner' # runner /\ runner' = "commands"
    <3>1. runner \in Window \ {"commands"}
      BY <1>6, <2>4 DEF MainMoves, Before, Window, Sampling
    <3>2. call.step = "returned"
      BY <3>1 DEF Timing, Rests
    <3> QED
      BY <2>1, <2>4, <3>2 DEF RecordFits
  <2> QED
    BY <2>2, <2>3, <2>4 DEF RecordFits
<1> QED
  BY <1>1, <1>2, <1>3, <1>4, <1>5, <1>6, CaptureMoves

-----------------------------------------------------------------------------
(* The workers of a pause. *)

(* No failed call is taken back. *)
LEMMA FaultsStay ==
  ASSUME CaptureTyped, [CaptureNext]_captureVars
  PROVE  faults \in Nat /\ faults' \in Nat /\ (faults' = 0 => faults = 0)
<1> DEFINE Counts1 == Works \/ Breaks \/ BreaksTwice
<1>1. faults \in Nat
  BY TypesTogether DEF CaptureTyped, TypeOK
<1>2. Counts1 => faults' \in Nat /\ (faults' = 0 => faults = 0)
  BY <1>1 DEF Works, Breaks, BreaksTwice
<1> HIDE DEF Counts1
<1>3. CASE UNCHANGED faults
  BY <1>1, <1>3
<1>4. ASSUME NEW r \in Requests, Send(r) \/ Handler(r) PROVE Counts1 \/ UNCHANGED faults
  BY <1>4 DEF Counts1, Send, Handler, Enter, Gate, Push, Stamp, TallyEnqueue, Leave, Record, Emit,
              Reply
<1>5. ASSUME NEW w \in Workers, Work(w) PROVE Counts1
  BY <1>5 DEF Counts1, Work, Register, Check, Pop, Fetch, TallyDequeue, Claim, Mark, Lock, Insert,
              Unmark, RecordWrite, Release, EmitCompletion
<1>6. CASE Control
  <2>1. Ctl!Works \/ Ctl!Breaks \/ UNCHANGED faults
    BY <1>6 DEF Control, Ctl!Proceed, Ctl!SelectWorkers, Ctl!ClearPaused, Ctl!PauseWorkers,
                Ctl!TakeLock, Ctl!SetKey, Ctl!StopLock, Ctl!StopKey, Ctl!Readback, Ctl!Post,
                Ctl!Sweep, Ctl!Wipe
  <2> QED
    BY <1>1, <2>1 DEF Ctl!Works, Ctl!Breaks
<1>7. CASE \/ WaitForWorkers("boot", "reset") \/ WaitForWorkers("rejoin", "baseline") \/ Reset
           \/ Truncate \/ Baseline \/ BaselineRows \/ ReadCounters \/ ReadRows \/ ReadBusy
           \/ ReadGauges \/ CountWorkers \/ ReadLevel \/ RestartPeak \/ EmitMetrics
           \/ CheckEmitErrors \/ (\E r \in Requests : TimeOut(r))
  <2>1. Counts1
    BY <1>7 DEF Counts1, WaitForWorkers, Reset, Truncate, Baseline, BaselineRows, ReadCounters,
                ReadRows, ReadBusy, ReadGauges, CountWorkers, ReadLevel, Read, RestartPeak,
                EmitMetrics, CheckEmitErrors, TimeOut
  <2> QED
    BY <1>1, <1>2, <2>1
<1>8. CASE \/ Opened \/ (\E command \in pending : Issue(command)) \/ CommandRaised \/ Submit
           \/ Gathered \/ CloseController \/ Closed \/ Finish \/ UNCHANGED captureVars
  <2>1. UNCHANGED faults
    BY <1>8 DEF Opened, Issue, CommandRaised, Submit, Gathered, CloseController, Closed, Finish,
                Ctl!Command, Ctl!Close, shared, captureVars
  <2> QED
    BY <1>3, <2>1
<1>9. CASE AppStep
  BY <1>1, <1>2, <1>4, <1>5, <1>9 DEF AppStep
<1> QED
  BY <1>6, <1>7, <1>8, <1>9, StepsOfCapture DEF Runner

(* Before the first request, and without a failed call, every worker renews *)
(* its registration.                                                        *)
Unsent == \A r \in Requests : apiPc[r] = "idle"

AllAttend ==
  faults = 0 /\ Unsent =>
    /\ queue = <<>>
    /\ \A w \in Workers : hand[w] = Nobody /\ workerPc[w] \in {"register", "check", "pop"}
    /\ runner \notin {"boot", "reset", "truncate", "rejoin"} => instances = Workers

LEMMA AttendInit ==
  ASSUME CaptureInit
  PROVE  AllAttend
BY DEF CaptureInit, Init, AllAttend

(* No step of a handler is one of an unsent request. *)
LEMMA HandlersAreSent ==
  ASSUME CaptureTyped, NEW r \in Requests, Send(r) \/ Handler(r)
  PROVE  ~Unsent'
<1>1. apiPc \in [Requests -> ApiSteps]
  BY TypesTogether DEF CaptureTyped, TypeOK
<1>2. apiPc'[r] # "idle"
  BY <1>1 DEF Send, Handler, Enter, Gate, Push, Stamp, TallyEnqueue, Leave, Record, Emit, Reply,
              ApiGoto
<1> QED
  BY <1>2 DEF Unsent

(* While nobody is held up, no registration is overdue. *)
LEMMA NobodyOverdue ==
  ASSUME \A w \in Workers : hand[w] = Nobody /\ workerPc[w] \in {"register", "check", "pop"},
         instances \subseteq Workers
  PROVE  Overdue = {}
BY DEF Overdue

LEMMA AttendStep ==
  ASSUME CaptureTyped, AllAttend, [CaptureNext]_captureVars
  PROVE  AllAttend'
<1> SUFFICES ASSUME faults' = 0, Unsent' PROVE AllAttend'
  BY DEF AllAttend
<1>1. faults = 0 /\ faults' = faults
  BY FaultsStay
<1>2. /\ instances \subseteq Workers /\ workerPc \in [Workers -> WorkerSteps]
      /\ hand \in [Workers -> Requests \cup {Nobody}] /\ runner \in RunnerSteps
  BY TypesTogether DEF CaptureTyped, TypeOK, RunnerTypes
<1>3. ~Breaks /\ ~BreaksTwice
  BY <1>1 DEF Breaks, BreaksTwice
<1>4. CASE AppStep
  <2>1. PICK w \in Workers : ServeItem(w) /\ Work(w)
    BY <1>4, HandlersAreSent DEF AppStep
  <2>2. apiPc' = apiPc /\ runner' = runner
    BY <2>1 DEF ServeItem, runnerVars, Work, Register, Check, Pop, Fetch, TallyDequeue, Claim, Mark,
                Lock, Insert, Unmark, RecordWrite, Release, EmitCompletion, apiVars
  <2>3. /\ queue = <<>>
        /\ \A v \in Workers : hand[v] = Nobody /\ workerPc[v] \in {"register", "check", "pop"}
        /\ runner \notin {"boot", "reset", "truncate", "rejoin"} => instances = Workers
    BY <1>1, <2>2 DEF AllAttend, Unsent
  <2>4. Register(w) \/ Check(w) \/ Pop(w)
    <3>1. workerPc[w] \in {"register", "check", "pop"}
      BY <2>3
    <3> QED
      BY <2>1, <3>1 DEF Work, Fetch, TallyDequeue, Claim, Mark, Lock, Insert, Unmark, RecordWrite,
                        Release, EmitCompletion
  <2>5. /\ queue' = queue /\ hand' = hand
        /\ \E step \in {"register", "check", "pop"} : workerPc' = [workerPc EXCEPT ![w] = step]
    BY <1>3, <2>3, <2>4 DEF Register, Check, Pop, Take, WorkerGoto, redisVars
  <2>6. runner \notin {"boot", "reset", "truncate", "rejoin"} => instances' = Workers
    <3>1. CASE Register(w)
      <4>1. Overdue = {}
        BY <1>2, <2>3, NobodyOverdue
      <4>2. instances' = instances \cup {w}
        BY <1>3, <3>1, <4>1 DEF Register
      <4> QED
        BY <2>3, <4>2
    <3>2. CASE Check(w) \/ Pop(w)
      BY <2>3, <3>2 DEF Check, Pop, redisVars
    <3> QED
      BY <2>4, <3>1, <3>2
  <2> QED
    BY <1>2, <2>2, <2>3, <2>5, <2>6 DEF AllAttend
<1>5. ASSUME UNCHANGED <<apiPc, queue, hand, workerPc>>,
             \/ UNCHANGED <<runner, instances>>
             \/ runner' \in {"boot", "reset", "truncate", "rejoin"}
             \/ instances' = Workers
             \/ instances' = instances /\ runner \notin {"boot", "reset", "truncate", "rejoin"}
      PROVE  AllAttend'
  BY <1>1, <1>5 DEF AllAttend, Unsent
<1>6. CASE Control \/ UNCHANGED captureVars
  <2>1. UNCHANGED <<apiPc, queue, hand, workerPc, runner, instances>>
    BY <1>6 DEF Control, captureVars, appOwn, runnerVars, shared, Ctl!Proceed, Ctl!SelectWorkers,
                Ctl!ClearPaused, Ctl!PauseWorkers, Ctl!TakeLock, Ctl!SetKey, Ctl!StopLock,
                Ctl!StopKey, Ctl!Readback, Ctl!Post, Ctl!Sweep, Ctl!Wipe
  <2> QED
    BY <1>5, <2>1
<1>7. CASE Runner \/ \E r \in Requests : TimeOut(r)
  <2>1. UNCHANGED <<apiPc, hand, workerPc>>
    BY <1>7, RunnerLeavesHandlers
  <2>2. /\ queue = <<>>
        /\ \A v \in Workers : hand[v] = Nobody /\ workerPc[v] \in {"register", "check", "pop"}
    BY <1>1, <2>1 DEF AllAttend, Unsent
  <2>3. queue' = queue
    BY <1>7, <2>2, RunnerLeavesHandlers DEF Reset
  <2>4. Overdue = {}
    BY <1>2, <2>2, NobodyOverdue
  <2>5. CASE WaitForWorkers("boot", "reset") \/ WaitForWorkers("rejoin", "baseline")
    BY <1>3, <1>5, <2>1, <2>2, <2>3, <2>5 DEF WaitForWorkers, Goto
  <2>6. CASE Reset \/ Truncate
    BY <1>3, <1>5, <2>1, <2>3, <2>6 DEF Reset, Truncate, Goto
  <2>7. CASE CountWorkers
    BY <1>5, <2>1, <2>3, <2>4, <2>7 DEF CountWorkers, DropOverdue, Read, At
  <2>8. CASE Baseline \/ BaselineRows \/ Opened \/ (\E command \in pending : Issue(command))
             \/ CommandRaised \/ Submit \/ Gathered \/ ReadCounters \/ ReadRows \/ ReadBusy
             \/ ReadGauges
    <3>1. instances' = instances /\ runner \notin {"boot", "reset", "truncate", "rejoin"}
      BY <2>8 DEF Baseline, BaselineRows, Opened, Issue, CommandRaised, Submit, Gathered,
                  ReadCounters, ReadRows, ReadBusy, ReadGauges, Read, At, shared, Ctl!Command
    <3> QED
      BY <1>5, <2>1, <2>3, <3>1
  <2>9. CASE ReadLevel \/ RestartPeak \/ EmitMetrics \/ CheckEmitErrors \/ CloseController
             \/ Closed \/ Finish \/ (\E r \in Requests : TimeOut(r))
    <3>1. instances' = instances /\ runner \notin {"boot", "reset", "truncate", "rejoin"}
      BY <2>9 DEF ReadLevel, RestartPeak, EmitMetrics, CheckEmitErrors, CloseController, Closed,
                  Finish, TimeOut, Read, At, Ctl!Close
    <3> QED
      BY <1>5, <2>1, <2>3, <3>1
  <2> QED
    BY <1>7, <2>5, <2>6, <2>7, <2>8, <2>9 DEF Runner
<1> QED
  BY <1>4, <1>6, <1>7, StepsOfCapture

(* The choice for the start under way. *)
ChoiceFits ==
  runner = "commands" /\ call.phase = "start" /\ Kind[call.action] = "worker_pause"
  /\ call.step \in {"clear", "pause", "readback", "post"}
    => AsWanted(call.action, call.workers)

(* Only the choice of the workers of a pause writes down who is registered. *)
LEMMA RegisteredStays ==
  ASSUME CaptureTyped, [CaptureNext]_captureVars
  PROVE  \/ UNCHANGED registered
         \/ /\ Control /\ call.step = "select"
            /\ registered' = [registered EXCEPT ![call.action] = instances]
<1>1. CASE Control
  BY <1>1 DEF Control, Ctl!Proceed, Ctl!SelectWorkers, Ctl!ClearPaused, Ctl!PauseWorkers,
              Ctl!TakeLock, Ctl!SetKey, Ctl!StopLock, Ctl!StopKey, Ctl!Readback, Ctl!Post,
              Ctl!Sweep, Ctl!Wipe, Ctl!At, Ctl!memory
<1>2. CASE AppStep \/ UNCHANGED captureVars
  BY <1>2, AppStepFrame DEF captureVars, ctlOwn
<1>3. CASE Runner \/ \E r \in Requests : TimeOut(r)
  <2>1. CASE WaitForWorkers("boot", "reset") \/ WaitForWorkers("rejoin", "baseline") \/ Reset
             \/ Truncate \/ Baseline \/ BaselineRows \/ Opened
             \/ (\E command \in pending : Issue(command)) \/ CommandRaised \/ Submit \/ Gathered
    BY <2>1 DEF WaitForWorkers, Reset, Truncate, Baseline, BaselineRows, Opened, Issue,
                CommandRaised, Submit, Gathered, Ctl!Command, Ctl!memory, ctlOwn
  <2>2. CASE ReadCounters \/ ReadRows \/ ReadBusy \/ ReadGauges \/ CountWorkers \/ ReadLevel
             \/ RestartPeak \/ EmitMetrics \/ CheckEmitErrors \/ CloseController \/ Closed
             \/ Finish \/ (\E r \in Requests : TimeOut(r))
    BY <2>2 DEF ReadCounters, ReadRows, ReadBusy, ReadGauges, CountWorkers, ReadLevel, Read,
                RestartPeak, EmitMetrics, CheckEmitErrors, CloseController, Closed, Finish, TimeOut,
                Ctl!Close, Ctl!memory, ctlOwn
  <2> QED
    BY <1>3, <2>1, <2>2 DEF Runner
<1> QED
  BY <1>1, <1>2, <1>3, StepsOfCapture

(* What a pause was chosen from is not forgotten. *)
LEMMA WantedStays ==
  ASSUME CaptureTyped, [CaptureNext]_captureVars, NEW a \in Actions,
         call.step = "select" => call.action # a
  PROVE  /\ registered'[a] = registered[a]
         /\ \A workers : AsWanted(a, workers) => AsWanted(a, workers)'
<1>1. registered'[a] = registered[a]
  <2>1. registered \in [Actions -> SUBSET Workers]
    BY TypesTogether DEF CaptureTyped, CtlTypes
  <2> QED
    BY <2>1, RegisteredStays
<1>2. plan' = plan
  <2>1. CASE Control \/ AppStep \/ UNCHANGED captureVars
    BY <2>1, AppStepFrame DEF Control, captureVars, runnerVars
  <2> QED
    BY <2>1, RunnerLeavesHandlers, StepsOfCapture
<1>3. MayLapse(a) => MayLapse(a)'
  BY <1>2, FaultsStay DEF MayLapse
<1> QED
  BY <1>1, <1>3 DEF AsWanted

(* The choice: nobody lapses before the first request of the run.            *)
LEMMA ChoiceIsAsWanted ==
  ASSUME CaptureTyped, Answers, AllAttend, RecordFits,
         runner = "commands", Control, call.step = "select", call'.step # "raised"
  PROVE  AsWanted(call.action, call.workers)'
<1>1. /\ call.op = "command" /\ call.phase = "start" /\ call.action \in Actions
      /\ call.action \in scheduled /\ call.index = Index(<<call.action, "start">>)
  BY DEF CaptureTyped, CallShape, StartShape, Starting, RecordFits
<1>2. ~Ctl!Raises
  BY DEF Ctl!Raises, Ctl!Ends
<1>3. Ctl!SelectWorkers
  BY DEF Control, Ctl!Proceed, Ctl!ClearPaused, Ctl!PauseWorkers, Ctl!TakeLock, Ctl!SetKey,
         Ctl!StopLock, Ctl!StopKey, Ctl!Readback, Ctl!Post, Ctl!Sweep, Ctl!Wipe, Ctl!At
<1>4. PICK chosen \in SUBSET instances :
        /\ Ctl!Cardinality(chosen) = Ctl!PauseCount(Ctl!Cardinality(instances))
        /\ call' = [call EXCEPT !.step = "clear", !.workers = chosen]
        /\ registered' = [registered EXCEPT ![call.action] = instances]
  BY <1>2, <1>3 DEF Ctl!SelectWorkers
<1>5. call'.action = call.action /\ call'.workers = chosen /\ registered'[call.action] = instances
  BY <1>1, <1>4, TypesTogether DEF CaptureTyped, CtlTypes, Ctl!Calls
<1>6. instances = Workers \/ MayLapse(call.action)
  <2> SUFFICES ASSUME ~MayLapse(call.action) PROVE instances = Workers
    OBVIOUS
  <2>1. faults = 0 /\ \A r \in Requests : ~(plan[r] < Start[call.action])
    BY TypesTogether DEF MayLapse, CaptureTyped, TypeOK
  <2>2. Start[call.action] = transition
    BY <1>1, IndexType DEF RecordFits
  <2>3. \A r \in Requests : NotSent(r)
    BY <1>1, <2>1, <2>2, PlanType DEF NotSent
  <2>4. Unsent
    BY <2>3 DEF Answers, Over, Unsent
  <2> QED
    BY <2>1, <2>4 DEF AllAttend
<1>7. UNCHANGED <<plan, faults>>
  BY <1>2, <1>3 DEF Control, runnerVars, Ctl!SelectWorkers, Ctl!Works
<1> QED
  BY <1>4, <1>5, <1>6, <1>7, SameCardinality DEF AsWanted, MayLapse

(* The choice is carried to the POST of the start. *)
LEMMA ChoiceStep ==
  ASSUME CaptureTyped, Timing, Answers, AllAttend, RecordFits, ChoiceFits,
         [CaptureNext]_captureVars
  PROVE  ChoiceFits'
<1> SUFFICES ASSUME runner' = "commands", call'.phase = "start",
                    Kind[call'.action] = "worker_pause",
                    call'.step \in {"clear", "pause", "readback", "post"}
             PROVE  AsWanted(call.action, call.workers)'
  BY DEF ChoiceFits
<1>1. CASE Control
  <2>1. /\ runner = "commands" /\ call'.op = call.op /\ call.step \notin {"returned", "raised"}
    BY <1>1, ControlIsBusy DEF runnerVars
  <2>2. call.op = "command" /\ call.action \in Actions
    BY <2>1, IndexType DEF RecordFits
  <2>3. call'.step # "raised"
    OBVIOUS
  <2>4. CASE call.step = "select"
    BY <1>1, <2>1, <2>3, <2>4, ChoiceIsAsWanted
  <2>5. CASE call.step # "select"
    <3>1. /\ call'.action = call.action /\ call'.phase = call.phase
          /\ call'.workers = call.workers
          /\ call.step \in {"clear", "pause", "readback", "post"}
      <4>1. CASE call.step \in Starting
        <5>1. call'.action = call.action /\ call'.phase = call.phase
              /\ call'.workers = call.workers
          BY <1>1, <2>3, <2>5, <4>1, StartMoves
        <5>2. call.step \in {"clear", "pause"}
          BY <2>5, <4>1, <5>1 DEF CaptureTyped, CallShape, StartShape, Starting, Ctl!KeyKinds
        <5> QED
          BY <5>1, <5>2
      <4>2. CASE call.step = "stop"
        BY <1>1, <2>2, <2>3, <4>2, StopMoves DEF CaptureTyped, CallShape, StopShape
      <4>3. CASE call.step \in {"readback", "post"}
        BY <1>1, <2>2, <2>3, <4>3, EvidenceMoves
      <4> QED
        BY <1>1, <2>2, <4>1, <4>2, <4>3, MethodSteps DEF CaptureTyped, CallShape, SweepShape
    <3>2. PICK a, workers : a \in Actions /\ a = call.action /\ workers = call.workers
      BY <2>2
    <3>3. AsWanted(a, workers)
      BY <2>1, <3>1, <3>2 DEF ChoiceFits, AsWanted
    <3>4. AsWanted(a, workers)'
      BY <2>5, <3>2, <3>3, WantedStays
    <3> QED
      BY <3>1, <3>2, <3>4 DEF AsWanted, MayLapse
  <2> QED
    BY <2>4, <2>5
<1>2. CASE \E command \in pending : Issue(command)
  BY <1>2, IssueCalls
<1>3. CASE Opens \/ CloseController \/ Closes
  BY <1>3, BoundaryCalls DEF Opens, Closes
<1>4. CASE MainMoves
  <2>1. call' = call
    BY <1>4 DEF MainMoves
  <2>2. runner = "commands"
    <3>1. runner \in Window
      BY <1>4 DEF MainMoves, Before, Window, Sampling
    <3> QED
      BY <2>1, <3>1 DEF Timing, Rests
  <2>3. call.action \in Actions /\ call.step # "select"
    BY <2>1, <2>2, IndexType DEF RecordFits
  <2>4. PICK a, workers : a \in Actions /\ a = call.action /\ workers = call.workers
    BY <2>3
  <2>5. AsWanted(a, workers)
    BY <2>1, <2>2, <2>4 DEF ChoiceFits, AsWanted
  <2>6. AsWanted(a, workers)'
    BY <2>3, <2>4, <2>5, WantedStays
  <2> QED
    BY <2>1, <2>4, <2>6 DEF AsWanted, MayLapse
<1> QED
  BY <1>1, <1>2, <1>3, <1>4, CaptureMoves

-----------------------------------------------------------------------------
(* The records. *)

(* The POST appends the record under way. *)
LEMMA PostAppends ==
  ASSUME CaptureTyped, call.step = "post", evidence' = Append(evidence, Ctl!Record)
  PROVE  LET n == Len(evidence) + 1
         IN  /\ Len(evidence) \in Nat /\ Len(evidence') = n
             /\ evidence'[n] = Ctl!Record
             /\ \A i \in 1 .. Len(evidence) : evidence'[i] = evidence[i]
             /\ 1 .. Len(evidence') = (1 .. Len(evidence)) \cup {n} /\ n \notin 1 .. Len(evidence)
<1>1. evidence \in Seq(Ctl!Records)
  BY TypesTogether DEF CaptureTyped, CtlTypes
<1>2. Ctl!Record \in Ctl!Records
  BY CtlRecordType DEF CaptureTyped, CaptureTypeOK, CallShape, Ctl!At
<1> QED
  BY <1>1, <1>2

(* Every other step leaves the evidence alone. *)
LEMMA OnlyPostRecords ==
  ASSUME [CaptureNext]_captureVars
  PROVE  UNCHANGED evidence \/ (call.step = "post" /\ evidence' = Append(evidence, Ctl!Record))
<1>1. CASE Control
  BY <1>1 DEF Control, Ctl!Proceed, Ctl!SelectWorkers, Ctl!ClearPaused, Ctl!PauseWorkers,
              Ctl!TakeLock, Ctl!SetKey, Ctl!StopLock, Ctl!StopKey, Ctl!Readback, Ctl!Post,
              Ctl!Sweep, Ctl!Wipe, Ctl!At, Ctl!MayApply, Ctl!memory
<1> QED
  BY <1>1, CaptureMoves, IssueCalls, BoundaryCalls DEF MainMoves

(* A POST adds to the boundaries of a phase the one under way, if it is one. *)
LEMMA BoundariesGrow ==
  ASSUME CaptureTyped, call.step = "post", evidence' = Append(evidence, Ctl!Record), NEW phase
  PROVE  Boundaries(phase)' = IF call.op = "boundary" /\ call.phase = phase
                              THEN Boundaries(phase) \cup {Len(evidence) + 1}
                              ELSE Boundaries(phase)
<1> DEFINE n == Len(evidence) + 1
<1>1. /\ evidence'[n] = Ctl!Record
      /\ \A i \in 1 .. Len(evidence) : evidence'[i] = evidence[i]
      /\ 1 .. Len(evidence') = (1 .. Len(evidence)) \cup {n} /\ n \notin 1 .. Len(evidence)
  BY PostAppends
<1>2. Ctl!Record.event = "boundary" /\ Ctl!Record.phase = phase
        <=> call.op = "boundary" /\ call.phase = phase
  BY DEF Ctl!Record
<1> HIDE DEF n
<1>3. Boundaries(phase)' = {i \in (1 .. Len(evidence)) \cup {n} :
                              evidence'[i].event = "boundary" /\ evidence'[i].phase = phase}
  BY <1>1 DEF Boundaries
<1> QED
  BY <1>1, <1>2, <1>3 DEF Boundaries, n

(* A POST takes no record away, and adds that of the command under way. *)
LEMMA RecordedGrows ==
  ASSUME CaptureTyped, call.step = "post", evidence' = Append(evidence, Ctl!Record)
  PROVE  /\ \A a, phase : \A i \in Ctl!Recorded(a, phase) :
              i \in Ctl!Recorded(a, phase)' /\ evidence'[i] = evidence[i]
         /\ \A a, phase :
              call.op = "command" /\ a = call.action /\ phase = call.phase =>
                \E n \in Ctl!Recorded(a, phase)' :
                  /\ evidence'[n].status = "applied"
                  /\ evidence'[n].workers = call.workers /\ evidence'[n].delay = call.delay
                  /\ evidence'[n].index = call.index
<1> DEFINE n == Len(evidence) + 1
<1>1. /\ evidence'[n] = Ctl!Record
      /\ \A i \in 1 .. Len(evidence) : evidence'[i] = evidence[i]
      /\ 1 .. Len(evidence') = (1 .. Len(evidence)) \cup {n}
  BY PostAppends
<1> HIDE DEF n
<1>2. ASSUME call.op = "command", NEW a, NEW phase, a = call.action, phase = call.phase
      PROVE  /\ n \in Ctl!Recorded(a, phase)'
             /\ evidence'[n].status = "applied" /\ evidence'[n].workers = call.workers
             /\ evidence'[n].delay = call.delay /\ evidence'[n].index = call.index
  <2>1. /\ Ctl!Record.event = "command" /\ Ctl!Record.action = a
        /\ Ctl!Record.phase = phase /\ Ctl!Record.status = "applied"
        /\ Ctl!Record.workers = call.workers /\ Ctl!Record.delay = call.delay
        /\ Ctl!Record.index = call.index
    BY <1>2 DEF Ctl!Record
  <2> QED
    BY <1>1, <2>1 DEF Ctl!Recorded
<1>3. \A a, phase : \A i \in Ctl!Recorded(a, phase) :
        i \in Ctl!Recorded(a, phase)' /\ evidence'[i] = evidence[i]
  BY <1>1 DEF Ctl!Recorded
<1> QED
  BY <1>2, <1>3

(* A closed boundary is recorded when the controls are cleared. *)
LEMMA ClosedBoundariesStep ==
  ASSUME CaptureTyped, ClosingFits, ClosedBoundariesFit, [CaptureNext]_captureVars
  PROVE  ClosedBoundariesFit'
<1>1. CASE UNCHANGED evidence
  BY <1>1 DEF ClosedBoundariesFit, Boundaries
<1>2. CASE call.step = "post" /\ evidence' = Append(evidence, Ctl!Record)
  <2>1. ASSUME NEW i \in Boundaries("closed")'
        PROVE  evidence'[i].active = 0 /\ evidence'[i].delay = NoAction
    <3>1. CASE i \in Boundaries("closed")
      <4>1. evidence'[i] = evidence[i]
        BY <1>2, <3>1, PostAppends DEF Boundaries
      <4> QED
        BY <3>1, <4>1 DEF ClosedBoundariesFit
    <3>2. CASE i \notin Boundaries("closed")
      <4>1. i = Len(evidence) + 1 /\ call.op = "boundary" /\ call.phase = "closed"
        BY <1>2, <2>1, <3>2, BoundariesGrow
      <4>2. Cleared /\ call.delay = NoAction
        BY <1>2, <4>1 DEF ClosingFits
      <4>3. evidence'[i] = Ctl!Record
        BY <1>2, <4>1, PostAppends
      <4>4. Ctl!Cardinality(active) = 0
        BY <4>2, SameCardinality, FS_EmptySet DEF Cleared
      <4> QED
        BY <4>1, <4>2, <4>3, <4>4 DEF Ctl!Record
    <3> QED
      BY <3>1, <3>2
  <2> QED
    BY <2>1 DEF ClosedBoundariesFit
<1> QED
  BY <1>1, <1>2, OnlyPostRecords

-----------------------------------------------------------------------------
(* The commands on record. *)

(* They are finitely many, two of each scheduled action in the end. *)
LEMMA LoggedFinite ==
  ASSUME CaptureTyped
  PROVE  /\ IsFiniteSet(scheduled) /\ Cardinality(scheduled) \in Nat
         /\ IsFiniteSet(Logged) /\ Cardinality(Logged) \in Nat
         /\ IsFiniteSet(scheduled \X {"start", "stop"})
         /\ Cardinality(scheduled \X {"start", "stop"}) = 2 * Cardinality(scheduled)
<1>1. IsFiniteSet(scheduled) /\ Cardinality(scheduled) \in Nat
  <2>1. scheduled \in SUBSET Actions
    BY IndexType
  <2> QED
    BY <2>1, ActionsAssumption, FS_Subset, FS_CardinalityType
<1>2. IsFiniteSet({"start", "stop"}) /\ Cardinality({"start", "stop"}) = 2
  <2>1. IsFiniteSet({"start"}) /\ Cardinality({"start"}) = 1
    BY FS_Singleton
  <2>2. {"start"} \cup {"stop"} = {"start", "stop"} /\ "stop" \notin {"start"}
    OBVIOUS
  <2>3. /\ IsFiniteSet({"start"} \cup {"stop"})
        /\ Cardinality({"start"} \cup {"stop"}) = Cardinality({"start"}) + 1
    BY <2>1, <2>2, FS_AddElement
  <2> QED
    BY <2>1, <2>2, <2>3
<1>3. /\ IsFiniteSet(scheduled \X {"start", "stop"})
      /\ Cardinality(scheduled \X {"start", "stop"}) = Cardinality(scheduled) * 2
  BY <1>1, <1>2, FS_Product
<1>4. Logged \in SUBSET (scheduled \X {"start", "stop"})
  BY DEF Logged
<1>5. IsFiniteSet(Logged) /\ Cardinality(Logged) \in Nat
  BY <1>3, <1>4, FS_Subset, FS_CardinalityType
<1> QED
  BY <1>1, <1>3, <1>5

(* No step disturbs what a pause on record was chosen from. *)
LEMMA LoggedStaysWanted ==
  ASSUME CaptureTyped, [CaptureNext]_captureVars,
         NEW a \in scheduled, <<a, "start">> \in Logged
  PROVE  \A workers : AsWanted(a, workers) => AsWanted(a, workers)'
<1>1. a \in Actions
  BY IndexType
<1>2. call.step = "select" => call.action # a
  BY DEF CaptureTyped, CallShape, StartShape, Starting, Logged, UnderWay
<1> QED
  BY <1>1, <1>2, WantedStays

(* A step that records nothing. *)
LEMMA NothingRecorded ==
  ASSUME CaptureTyped, [CaptureNext]_captureVars,
         RunIsOnRecord, Orderly, UNCHANGED <<evidence, scheduled>>,
         Logged' = Logged, Begun' = Begun, Ended' = Ended,
         \A a \in scheduled : <<a, "start">> \in Logged =>
           /\ <<a, "stop">> \in pending' => <<a, "stop">> \in pending /\ realized'[a] = realized[a]
           /\ <<a, "stop">> \in UnderWay' =>
                \/ <<a, "stop">> \in UnderWay /\ call'.workers = call.workers
                \/ <<a, "stop">> \in pending /\ call'.workers = realized[a]
  PROVE  RunIsOnRecord'
<1>1. RecordsAreCounted'
  BY DEF RunIsOnRecord, RecordsAreCounted, Boundaries, Indicator
<1>2. ASSUME NEW a \in scheduled, <<a, "start">> \in Logged PROVE ActionOnRecord(a)'
  <2>1. PICK workers \in SUBSET Workers :
          /\ Kind[a] = "worker_pause" => AsWanted(a, workers)
          /\ OnRecord(a, "start", workers, a)
          /\ <<a, "stop">> \in pending => workers = realized[a]
          /\ <<a, "stop">> \in UnderWay => workers = call.workers
          /\ <<a, "stop">> \in Logged => OnRecord(a, "stop", workers, NoAction)
    BY <1>2 DEF RunIsOnRecord, ActionOnRecord
  <2>2. /\ OnRecord(a, "start", workers, a)'
        /\ <<a, "stop">> \in Logged => OnRecord(a, "stop", workers, NoAction)'
    BY <2>1 DEF OnRecord, Ctl!Recorded
  <2>3. /\ <<a, "stop">> \in pending' => workers = realized'[a]
        /\ <<a, "stop">> \in UnderWay' => workers = call'.workers
    BY <1>2, <2>1
  <2>4. Kind[a] = "worker_pause" => AsWanted(a, workers)'
    BY <1>2, <2>1, LoggedStaysWanted
  <2> QED
    BY <2>2, <2>3, <2>4 DEF ActionOnRecord
<1> QED
  BY <1>1, <1>2 DEF RunIsOnRecord

(* What is on record stays on record. *)
LEMMA StaysOnRecord ==
  ASSUME CaptureTyped, call.step = "post", evidence' = Append(evidence, Ctl!Record),
         NEW a, NEW phase, NEW workers, NEW delay, OnRecord(a, phase, workers, delay)
  PROVE  OnRecord(a, phase, workers, delay)'
BY RecordedGrows DEF OnRecord

(* A boundary is on record. *)
LEMMA BoundaryRecorded ==
  ASSUME CaptureTyped, [CaptureNext]_captureVars, RunIsOnRecord, Orderly, Orderly',
         call.step = "post", evidence' = Append(evidence, Ctl!Record),
         call.op = "boundary", call'.op = "boundary",
         UNCHANGED <<realized, scheduled, pending>>,
         \/ call.phase = "started" /\ ~Begun /\ Begun' /\ Ended' = Ended
         \/ call.phase = "closed" /\ ~Ended /\ Ended' /\ Begun' = Begun
  PROVE  RunIsOnRecord'
<1>1. UnderWay = {} /\ UnderWay' = {} /\ Logged' = Logged
  BY DEF UnderWay, Logged
<1>2. RecordsAreCounted'
  <2>1. RecordsAreCounted
    BY DEF RunIsOnRecord
  <2>2. /\ Len(evidence) \in Nat /\ Len(evidence') = Len(evidence) + 1
        /\ Len(evidence) + 1 \notin 1 .. Len(evidence)
    BY PostAppends
  <2>3. ASSUME NEW phase
        PROVE  Cardinality(Boundaries(phase)') =
                 Cardinality(Boundaries(phase)) + Indicator(call.phase = phase)
    <3>1. IsFiniteSet(Boundaries(phase)) /\ Cardinality(Boundaries(phase)) \in Nat
          /\ Len(evidence) + 1 \notin Boundaries(phase)
      <4>1. IsFiniteSet(1 .. Len(evidence))
        BY <2>2, FS_Interval
      <4>2. Boundaries(phase) \in SUBSET (1 .. Len(evidence))
        BY DEF Boundaries
      <4> QED
        BY <2>2, <4>1, <4>2, FS_Subset, FS_CardinalityType
    <3>2. Boundaries(phase)' = IF call.phase = phase
                               THEN Boundaries(phase) \cup {Len(evidence) + 1}
                               ELSE Boundaries(phase)
      BY BoundariesGrow
    <3>3. Cardinality(Boundaries(phase) \cup {Len(evidence) + 1})
            = Cardinality(Boundaries(phase)) + 1
      BY <3>1, FS_AddElement
    <3> QED
      BY <3>1, <3>2, <3>3 DEF Indicator
  <2>4. Cardinality(Logged') = Cardinality(Logged) /\ Cardinality(Logged) \in Nat
    BY <1>1, LoggedFinite
  <2>5. /\ Cardinality(Boundaries("started")') =
             Cardinality(Boundaries("started")) + Indicator(call.phase = "started")
        /\ Cardinality(Boundaries("closed")') =
             Cardinality(Boundaries("closed")) + Indicator(call.phase = "closed")
    BY <2>3
  <2>6. /\ Cardinality(Boundaries("started"))' = Cardinality(Boundaries("started")')
        /\ Cardinality(Boundaries("closed"))' = Cardinality(Boundaries("closed")')
        /\ Cardinality(Logged)' = Cardinality(Logged')
    OBVIOUS
  <2> QED
    BY <2>1, <2>2, <2>4, <2>5, <2>6 DEF RecordsAreCounted, Indicator
<1>3. ASSUME NEW a \in scheduled, <<a, "start">> \in Logged PROVE ActionOnRecord(a)'
  <2>1. PICK workers \in SUBSET Workers :
          /\ Kind[a] = "worker_pause" => AsWanted(a, workers)
          /\ OnRecord(a, "start", workers, a)
          /\ <<a, "stop">> \in pending => workers = realized[a]
          /\ <<a, "stop">> \in Logged => OnRecord(a, "stop", workers, NoAction)
    BY <1>3 DEF RunIsOnRecord, ActionOnRecord
  <2>2. /\ OnRecord(a, "start", workers, a)'
        /\ <<a, "stop">> \in Logged => OnRecord(a, "stop", workers, NoAction)'
    BY <2>1, StaysOnRecord
  <2>3. Kind[a] = "worker_pause" => AsWanted(a, workers)'
    BY <1>3, <2>1, LoggedStaysWanted
  <2> QED
    BY <1>1, <2>1, <2>2, <2>3 DEF ActionOnRecord
<1> QED
  BY <1>1, <1>2, <1>3 DEF RunIsOnRecord

(* A command is on record: a start with the delay it has set and the workers *)
(* the controller remembers, a stop with no delay and the workers it took    *)
(* from there.                                                               *)
LEMMA CommandRecorded ==
  ASSUME CaptureTyped, Timing, ControlsFit, RecordFits, ChoiceFits, RunIsOnRecord,
         Orderly, Orderly', [CaptureNext]_captureVars,
         runner = "commands", call.step = "post", evidence' = Append(evidence, Ctl!Record),
         UNCHANGED <<realized, scheduled, pending, runner>>, call'.step = "returned"
  PROVE  RunIsOnRecord'
<1> DEFINE b == call.action
           p == call.phase
           c == <<b, p>>
<1>1. /\ call.op = "command" /\ b \in scheduled /\ p \in {"start", "stop"} /\ c \notin pending
      /\ On = IF p = "start" THEN {b} ELSE {}
      /\ p = "start" => realized[b] = call.workers
      /\ call.delay = keys["redis_enqueue_delay"] /\ call.index = Index(c)
  BY DEF RecordFits, Ctl!Phases
<1> HIDE DEF b, p, c
<1>2. UnderWay = {c} /\ UnderWay' = {} /\ c \notin Logged /\ Logged' = Logged \cup {c}
  BY <1>1 DEF UnderWay, Logged, b, p, c
<1>3. /\ Kind[b] = "redis_enqueue_delay" => call.delay = IF p = "start" THEN b ELSE NoAction
      /\ call.workers \in SUBSET Workers
  <2>1. ControlsOf(On)
    BY DEF ControlsFit, Live, Over, Held, Starting, Orderly
  <2>2. On = {} => keys["redis_enqueue_delay"] = NoAction
    BY <2>1 DEF ControlsOf, Ctl!KeyKinds
  <2>3. b \in On /\ Kind[b] = "redis_enqueue_delay" => keys["redis_enqueue_delay"] = b
    BY <2>1 DEF ControlsOf, Ctl!InForce
  <2>4. call.workers \in SUBSET Workers
    BY TypesTogether DEF CaptureTyped, CtlTypes, Ctl!Calls
  <2> QED
    BY <1>1, <2>2, <2>3, <2>4
<1>4. RecordsAreCounted'
  <2>1. RecordsAreCounted /\ Begun /\ Begun' /\ ~Ended /\ ~Ended'
    BY DEF RunIsOnRecord, Begun, Ended, Before
  <2>2. Len(evidence) \in Nat /\ Len(evidence') = Len(evidence) + 1
    BY PostAppends
  <2>3. \A phase : Boundaries(phase)' = Boundaries(phase)
    BY <1>1, BoundariesGrow
  <2>4. Cardinality(Logged') = Cardinality(Logged) + 1 /\ Cardinality(Logged) \in Nat
    BY <1>2, LoggedFinite, FS_AddElement
  <2> QED
    BY <2>1, <2>2, <2>3, <2>4 DEF RecordsAreCounted, Indicator
<1>5. PICK a0, p0, w0, d0 : a0 = b /\ p0 = p /\ w0 = call.workers /\ d0 = call.delay
  OBVIOUS
<1>6. \A delay : (Kind[a0] = "redis_enqueue_delay" => delay = d0) => OnRecord(a0, p0, w0, delay)'
  <2>1. PICK n \in Ctl!Recorded(a0, p0)' :
          /\ evidence'[n].status = "applied" /\ evidence'[n].workers = w0
          /\ evidence'[n].delay = d0 /\ evidence'[n].index = call.index
    BY <1>1, <1>5, RecordedGrows DEF b, p
  <2>2. call.index = Index(<<a0, p0>>)
    BY <1>1, <1>5 DEF c
  <2> QED
    BY <2>1, <2>2 DEF OnRecord
<1>7. ASSUME NEW a \in scheduled, <<a, "start">> \in Logged' PROVE ActionOnRecord(a)'
  <2>1. CASE <<a, "start">> \in Logged
    <3>1. PICK workers \in SUBSET Workers :
            /\ Kind[a] = "worker_pause" => AsWanted(a, workers)
            /\ OnRecord(a, "start", workers, a)
            /\ <<a, "stop">> \in pending => workers = realized[a]
            /\ <<a, "stop">> \in UnderWay => workers = call.workers
            /\ <<a, "stop">> \in Logged => OnRecord(a, "stop", workers, NoAction)
      BY <2>1 DEF RunIsOnRecord, ActionOnRecord
    <3>2. /\ OnRecord(a, "start", workers, a)'
          /\ <<a, "stop">> \in Logged => OnRecord(a, "stop", workers, NoAction)'
      BY <3>1, StaysOnRecord
    <3>3. <<a, "stop">> = c => OnRecord(a, "stop", workers, NoAction)'
      <4>1. <<a, "stop">> = c => a = a0 /\ p0 = "stop" /\ p = "stop" /\ workers = w0
        BY <1>2, <1>5, <3>1 DEF c
      <4> QED
        BY <1>3, <1>5, <1>6, <4>1
    <3>4. Kind[a] = "worker_pause" => AsWanted(a, workers)'
      BY <2>1, <3>1, LoggedStaysWanted
    <3> QED
      BY <1>2, <3>1, <3>2, <3>3, <3>4 DEF ActionOnRecord
  <2>2. CASE <<a, "start">> \notin Logged
    <3>1. a = b /\ p = "start"
      BY <1>2, <1>7, <2>2 DEF c
    <3>2. OnRecord(a, "start", w0, a)'
      BY <1>3, <1>5, <1>6, <3>1
    <3>3. <<a, "stop">> \in pending /\ w0 = realized[a]
      BY <1>1, <1>5, <3>1 DEF On
    <3>4. <<a, "stop">> \notin Logged'
      BY <3>3 DEF Logged
    <3>5. Kind[a] = "worker_pause" => AsWanted(a, w0)'
      <4>1. Kind[a] = "worker_pause" => AsWanted(a, w0)
        BY <1>5, <3>1 DEF ChoiceFits, AsWanted, b, p
      <4>2. a \in Actions
        BY IndexType
      <4> QED
        BY <4>1, <4>2, WantedStays
    <3> QED
      BY <1>2, <1>3, <1>5, <3>2, <3>3, <3>4, <3>5 DEF ActionOnRecord
  <2> QED
    BY <2>1, <2>2
<1> QED
  BY <1>4, <1>7 DEF RunIsOnRecord

(* The steps of main itself record nothing. *)
LEMMA MainRecordsNothing ==
  ASSUME CaptureTyped, [CaptureNext]_captureVars, FailuresStay, RunIsOnRecord,
         Orderly, Orderly', MainMoves
  PROVE  RunIsOnRecord'
<1>1. /\ UNCHANGED <<evidence, scheduled, pending, realized, call>>
      /\ UnderWay' = UnderWay /\ Logged' = Logged
  BY DEF MainMoves, UnderWay, Logged
<1>2. runner' # "failed" /\ ~failing /\ ~failing'
  BY DEF MainMoves, FailuresStay, Orderly, Before, Window, Sampling
<1>3. Begun' = Begun /\ Ended' = Ended
  BY <1>1, <1>2 DEF MainMoves, Begun, Ended, Before, Window, Sampling
<1> QED
  BY <1>1, <1>3, NothingRecorded

(* Nor do the calls that main makes. *)
LEMMA CallsRecordNothing ==
  ASSUME CaptureTyped, [CaptureNext]_captureVars, Timing, RunIsOnRecord, Orderly,
         Opens \/ CloseController \/ Closes
  PROVE  RunIsOnRecord'
<1>1. /\ UNCHANGED <<evidence, scheduled, pending, realized>> /\ call'.op # "command"
      /\ call.step = "returned" /\ Begun' = Begun /\ Ended' = Ended
  <2>1. CASE Opens
    <3>1. /\ runner = "baselineRows" /\ runner' = "opening" /\ call'.step = "readback"
      BY <2>1, BoundaryCalls DEF Opens
    <3>2. call.step = "returned"
      BY <3>1 DEF Timing, Rests, Before
    <3> QED
      BY <2>1, <3>1, <3>2, BoundaryCalls DEF Begun, Ended, Before
  <2>2. CASE CloseController
    BY <2>2, BoundaryCalls DEF Begun, Ended, Before, Orderly
  <2>3. CASE Closes
    <3>1. runner = "closing" /\ runner' = "closed" /\ call'.step = "readback"
      BY <2>3, BoundaryCalls DEF Closes
    <3> QED
      BY <2>3, <3>1, BoundaryCalls DEF Begun, Ended, Before
  <2> QED
    BY <2>1, <2>2, <2>3
<1>2. UnderWay = {} /\ UnderWay' = {} /\ Logged' = Logged
  BY <1>1 DEF UnderWay, Logged
<1> QED
  BY <1>1, <1>2, NothingRecorded

(* A command that is issued is under way, and was not on record before. *)
LEMMA IssueRecordsNothing ==
  ASSUME CaptureTyped, [CaptureNext]_captureVars, Timing, RunIsOnRecord, Orderly, Orderly',
         NEW command \in pending, Issue(command)
  PROVE  RunIsOnRecord'
<1>1. /\ runner = "commands" /\ call.step = "returned" /\ runner' = runner
      /\ pending' = pending \ {command} /\ call'.op = "command" /\ call'.step # "returned"
      /\ call'.action = command[1] /\ call'.phase = command[2]
      /\ call'.workers = realized[command[1]]
      /\ UNCHANGED <<evidence, scheduled, realized>>
  BY IssueCalls DEF Orderly
<1>2. command \in scheduled \X {"start", "stop"} /\ command = <<command[1], command[2]>>
  BY IndexType
<1>3. UnderWay = {} /\ UnderWay' = {command} /\ Logged' = Logged
  BY <1>1, <1>2 DEF UnderWay, Logged
<1>4. Begun' = Begun /\ Ended' = Ended
  BY <1>1 DEF Begun, Ended, Before
<1>5. ASSUME NEW a \in scheduled
      PROVE  /\ <<a, "stop">> \in pending' => <<a, "stop">> \in pending /\ realized'[a] = realized[a]
             /\ <<a, "stop">> \in UnderWay' =>
                  <<a, "stop">> \in pending /\ call'.workers = realized[a]
  BY <1>1, <1>3
<1> QED
  BY <1>1, <1>3, <1>4, <1>5, NothingRecorded

-----------------------------------------------------------------------------
(* The steps of a command: its own start or stop is not on record yet. *)
LEMMA CommandStepRecords ==
  ASSUME CaptureTyped, Timing, ControlsFit, RecordFits, ChoiceFits, RunIsOnRecord,
         Orderly, Orderly', [CaptureNext]_captureVars, Control, runner = "commands"
  PROVE  RunIsOnRecord'
<1>1. /\ UNCHANGED <<runner, pending, scheduled>> /\ call'.op = call.op
      /\ call.step \notin {"returned", "raised"} /\ call'.step # "raised"
  BY ControlIsBusy DEF runnerVars, Orderly
<1>2. /\ call.op = "command" /\ call.action \in scheduled
      /\ <<call.action, call.phase>> \notin pending
  BY <1>1 DEF RecordFits
<1>3. CASE call.step = "post"
  <2>1. evidence' = Append(evidence, Ctl!Record) /\ call'.step = "returned" /\ realized' = realized
    BY <1>1, <1>2, <1>3, EvidenceMoves
  <2> QED
    BY <1>1, <1>3, <2>1, CommandRecorded
<1>4. CASE call.step # "post"
  <2>1. call.step \in Starting \cup {"stop", "readback"}
    BY <1>2, <1>4, MethodSteps DEF CaptureTyped, CallShape, SweepShape
  <2>2. /\ evidence' = evidence /\ call'.step # "returned"
        /\ call'.action = call.action /\ call'.phase = call.phase
    BY <1>1, <1>2, <2>1, StartMoves, StopMoves, EvidenceMoves DEF Starting
  <2>3. UnderWay = {<<call.action, call.phase>>} /\ UnderWay' = UnderWay /\ Logged' = Logged
    BY <1>1, <1>2, <2>2 DEF UnderWay, Logged
  <2>4. Begun' = Begun /\ Ended' = Ended
    BY <1>1 DEF Begun, Ended, Before
  <2>5. ASSUME NEW a \in scheduled, <<a, "start">> \in Logged
        PROVE  /\ <<a, "stop">> \in pending' =>
                    <<a, "stop">> \in pending /\ realized'[a] = realized[a]
               /\ <<a, "stop">> \in UnderWay' =>
                    <<a, "stop">> \in UnderWay /\ call'.workers = call.workers
    <3>1. CASE call.step \in Starting
      <4>1. call.phase = "start" /\ call.action \in Actions
        BY <3>1 DEF CaptureTyped, CallShape, StartShape
      <4>2. a # call.action
        BY <2>3, <2>5, <4>1 DEF Logged
      <4>3. realized \in [Actions -> SUBSET Workers] /\ a \in Actions
        BY TypesTogether, IndexType DEF CaptureTyped, CtlTypes
      <4>4. realized'[a] = realized[a]
        BY <1>1, <3>1, <4>2, <4>3, StartMoves
      <4> QED
        BY <1>1, <2>3, <4>1, <4>4
    <3>2. CASE call.step = "stop"
      <4>1. call.phase = "stop"
        BY <1>2, <3>2 DEF CaptureTyped, CallShape, StopShape
      <4>2. realized \in [Actions -> SUBSET Workers] /\ a \in Actions
        BY TypesTogether, IndexType DEF CaptureTyped, CtlTypes
      <4>3. a # call.action => realized'[a] = realized[a]
        BY <1>1, <3>2, <4>2, StopMoves
      <4> QED
        BY <1>1, <1>2, <2>3, <3>2, <4>1, <4>3, StopMoves
    <3>3. CASE call.step = "readback"
      BY <1>1, <2>3, <3>3, EvidenceMoves
    <3> QED
      BY <2>1, <3>1, <3>2, <3>3
  <2> QED
    BY <1>1, <2>2, <2>3, <2>4, <2>5, NothingRecorded
<1> QED
  BY <1>3, <1>4

(* The steps of a boundary: the POST puts it on record. *)
LEMMA BoundaryStepRecords ==
  ASSUME CaptureTyped, ClosingFits, RecordFits, RunIsOnRecord, Orderly, Orderly',
         [CaptureNext]_captureVars, Control, runner \in {"opening", "closed"}
  PROVE  RunIsOnRecord'
<1>1. /\ UNCHANGED <<runner, pending, scheduled>> /\ call'.op = call.op
      /\ call.step \notin {"returned", "raised"} /\ call'.step # "raised"
  BY ControlIsBusy DEF runnerVars, Orderly
<1>2. /\ call.op = "boundary" /\ call.step \in {"readback", "post"}
      /\ call.phase = IF runner = "opening" THEN "started" ELSE "closed"
  BY <1>1 DEF RecordFits, ClosingFits
<1>3. realized' = realized
  BY <1>2, EvidenceMoves
<1>4. CASE call.step = "readback"
  <2>1. evidence' = evidence /\ call'.step = "post"
    BY <1>1, <1>4, EvidenceMoves
  <2>2. UnderWay = {} /\ UnderWay' = {} /\ Logged' = Logged
    BY <1>1, <1>2 DEF UnderWay, Logged
  <2>3. Begun' = Begun /\ Ended' = Ended
    BY <1>1, <1>4, <2>1 DEF Begun, Ended
  <2> QED
    BY <1>1, <1>3, <2>1, <2>2, <2>3, NothingRecorded
<1>5. CASE call.step = "post"
  <2>1. evidence' = Append(evidence, Ctl!Record) /\ call'.step = "returned"
    BY <1>1, <1>2, <1>5, EvidenceMoves
  <2>2. CASE runner = "opening"
    <3>1. ~Begun /\ Begun' /\ Ended' = Ended
      BY <1>1, <1>5, <2>1, <2>2 DEF Begun, Ended, Before
    <3> QED
      BY <1>1, <1>2, <1>3, <1>5, <2>1, <2>2, <3>1, BoundaryRecorded
  <2>3. CASE runner = "closed"
    <3>1. ~Ended /\ Ended' /\ Begun' = Begun
      BY <1>1, <1>5, <2>1, <2>3 DEF Begun, Ended, Before
    <3> QED
      BY <1>1, <1>2, <1>3, <1>5, <2>1, <2>3, <3>1, BoundaryRecorded
  <2> QED
    BY <2>2, <2>3
<1> QED
  BY <1>2, <1>4, <1>5

(* In an orderly run close() stops nothing, and so records nothing. *)
LEMMA ClosingStepRecords ==
  ASSUME CaptureTyped, EndsFit, RunIsOnRecord, Orderly, [CaptureNext]_captureVars, Control,
         runner = "closing"
  PROVE  RunIsOnRecord'
<1>1. /\ UNCHANGED <<runner, pending, scheduled>> /\ call'.op = call.op
      /\ call.step \notin {"returned", "raised"}
  BY ControlIsBusy DEF runnerVars
<1>2. call.op = "close" /\ call.step \in {"sweep", "wipe"}
  BY <1>1 DEF EndsFit
<1>3. UNCHANGED <<evidence, realized>>
  BY <1>2, SweepMoves
<1>4. UnderWay = {} /\ UnderWay' = {} /\ Logged' = Logged
  BY <1>1, <1>2 DEF UnderWay, Logged
<1>5. Begun' = Begun /\ Ended' = Ended
  BY <1>1 DEF Begun, Ended, Before
<1> QED
  BY <1>1, <1>3, <1>4, <1>5, NothingRecorded

(* What is on record is what main has done so far. *)
LEMMA RunRecordStep ==
  ASSUME CaptureTyped, Timing, ControlsFit, ClosingFits, FailuresStay, EndsFit, RecordFits,
         ChoiceFits, RunIsOnRecord, [CaptureNext]_captureVars
  PROVE  RunIsOnRecord'
<1> SUFFICES ASSUME Orderly' PROVE RunIsOnRecord'
  BY DEF RunIsOnRecord
<1>0. Orderly
  BY OrderlyBefore
<1>1. CASE Control
  <2>1. call.step \notin {"returned", "raised"}
    BY <1>1, ControlIsBusy
  <2>2. runner \in {"opening", "commands", "closing", "closed"}
    <3>1. runner \in RunnerSteps
      BY TypesTogether DEF CaptureTyped, RunnerTypes
    <3>2. runner \notin Before \cup (Window \ {"commands"}) \cup {"errors"}
      BY <2>1 DEF Timing, Rests
    <3>3. runner \notin {"done", "failed"}
      BY <1>0, <2>1 DEF EndsFit, FailuresStay, Orderly
    <3> QED
      BY <3>1, <3>2, <3>3 DEF RunnerSteps, Before, Window, Sampling
  <2> QED
    BY <1>0, <1>1, <2>2, CommandStepRecords, BoundaryStepRecords, ClosingStepRecords
<1>2. CASE \E command \in pending : Issue(command)
  BY <1>0, <1>2, IssueRecordsNothing
<1>3. CASE Opens \/ CloseController \/ Closes
  BY <1>0, <1>3, CallsRecordNothing
<1>4. CASE MainMoves
  BY <1>0, <1>4, MainRecordsNothing
<1> QED
  BY <1>1, <1>2, <1>3, <1>4, CaptureMoves

(* A run begins with nothing on record. *)
LEMMA RecordInit ==
  ASSUME CaptureInit
  PROVE  /\ ClosingFits /\ ClosedBoundariesFit /\ FailuresStay /\ EndsFit /\ RecordFits
         /\ ChoiceFits /\ RunIsOnRecord
<1>1. /\ runner = "boot" /\ failing = FALSE /\ evidence = <<>> /\ Len(evidence) = 0
      /\ call.op = "none" /\ call.step = "returned"
      /\ pending = scheduled \X {"start", "stop"}
  BY DEF CaptureInit, Ctl!Init
<1>2. \A phase : Boundaries(phase) = {}
  BY <1>1 DEF Boundaries
<1>3. Logged = {} /\ ~Begun /\ ~Ended
  BY <1>1 DEF Logged, Begun, Ended, Before
<1>4. Cardinality(Boundaries("started")) = 0 /\ Cardinality(Boundaries("closed")) = 0
      /\ Cardinality(Logged) = 0
  BY <1>2, <1>3, FS_EmptySet
<1>5. RunIsOnRecord
  BY <1>1, <1>3, <1>4 DEF RunIsOnRecord, RecordsAreCounted, Indicator
<1> QED
  BY <1>1, <1>2, <1>5
     DEF ClosingFits, ClosedBoundariesFit, FailuresStay, EndsFit, RecordFits, ChoiceFits, Over

(* A run that ends without an exception has all its samples, one record of   *)
(* each boundary, and the two commands of each action once, applied, at      *)
(* their logical indices and naming the same workers: as many as the         *)
(* assessor expects, or, when a registration had lapsed before the pause,    *)
(* as many as the magnitude gives of those that were left; and no            *)
(* registration lapses before the first request of a run without a failed    *)
(* call.  Any closed boundary, of a failed run too, finds no action active   *)
(* and no enqueue delay (_commands_match, _cleanup_boundary_matches and      *)
(* metric_completeness of action_dynamics_lab.py, on what run_capture.py and *)
(* interventions.py post).                                                   *)
THEOREM RunsPassTheGate == CaptureSpec => []SuccessfulRunPassesTheGate
<1> DEFINE IInv == /\ CaptureTyped /\ Timing /\ ControlsFit /\ Answers /\ AllAttend
                   /\ ClosingFits /\ ClosedBoundariesFit /\ FailuresStay /\ EndsFit /\ RecordFits
                   /\ ChoiceFits /\ RunIsOnRecord
<1>1. CaptureInit => IInv
  BY InitTyped, TimingInit, ControlsInit, AnswersInit, AttendInit, RecordInit
<1>2. IInv /\ [CaptureNext]_captureVars => IInv'
  BY TypedStep, TimingStep, ControlsStep, AnswersStep, AttendStep, ClosingStep,
     ClosedBoundariesStep, FailuresStep, EndsStep, RecordStep, ChoiceStep, RunRecordStep
<1>3. IInv => SuccessfulRunPassesTheGate
  <2> SUFFICES ASSUME IInv PROVE SuccessfulRunPassesTheGate
    OBVIOUS
  <2>1. \A i \in Boundaries("closed") : evidence[i].active = 0 /\ evidence[i].delay = NoAction
    BY DEF ClosedBoundariesFit
  <2>2. ASSUME runner = "done"
        PROVE  /\ emitted = PointCount
               /\ Cardinality(Boundaries("started")) = 1 /\ Cardinality(Boundaries("closed")) = 1
               /\ Len(evidence) = 2 + 2 * Cardinality(scheduled)
               /\ \A a \in scheduled : CommandsMatch(a)
    <3>1. Orderly /\ emitted = PointCount /\ pending = {} /\ call.step = "returned"
      BY <2>2 DEF FailuresStay, EndsFit
    <3>2. Begun /\ Ended /\ Logged = scheduled \X {"start", "stop"}
      BY <2>2, <3>1 DEF Begun, Ended, Before, Logged, UnderWay
    <3>3. RecordsAreCounted /\ (\A a \in scheduled : <<a, "start">> \in Logged => ActionOnRecord(a))
      BY <3>1 DEF RunIsOnRecord
    <3>4. /\ Cardinality(Boundaries("started")) = 1 /\ Cardinality(Boundaries("closed")) = 1
          /\ Len(evidence) = 1 + 1 + Cardinality(Logged)
      BY <3>2, <3>3 DEF RecordsAreCounted, Indicator
    <3>5. Len(evidence) = 2 + 2 * Cardinality(scheduled)
      <4>1. Cardinality(Logged) = 2 * Cardinality(scheduled) /\ Cardinality(scheduled) \in Nat
        BY <3>2, LoggedFinite
      <4> QED
        BY <3>4, <4>1
    <3>6. ASSUME NEW a \in scheduled
          PROVE  CommandsMatch(a)
      <4>1. PICK workers \in SUBSET Workers :
              /\ OnRecord(a, "start", workers, a) /\ OnRecord(a, "stop", workers, NoAction)
              /\ Kind[a] = "worker_pause" => AsWanted(a, workers)
        BY <3>2, <3>3 DEF ActionOnRecord
      <4>2. PICK i \in Ctl!Recorded(a, "start") :
              /\ evidence[i].status = "applied" /\ evidence[i].workers = workers
              /\ evidence[i].index = Start[a]
              /\ Kind[a] = "redis_enqueue_delay" => evidence[i].delay = a
        BY <4>1, IndexType DEF OnRecord
      <4>3. PICK j \in Ctl!Recorded(a, "stop") :
              /\ evidence[j].status = "applied" /\ evidence[j].workers = workers
              /\ evidence[j].index = Stop[a]
              /\ Kind[a] = "redis_enqueue_delay" => evidence[j].delay = NoAction
        BY <4>1, IndexType DEF OnRecord
      <4>4. i \in 1 .. Len(evidence) /\ j \in 1 .. Len(evidence)
        BY DEF Ctl!Recorded
      <4>5. Kind[a] = "worker_pause" =>
              \/ Cardinality(workers) = Ctl!PauseCount(Cardinality(Workers))
              \/ /\ registered[a] # Workers /\ MayLapse(a)
                 /\ Cardinality(workers) = Ctl!PauseCount(Cardinality(registered[a]))
        BY <4>1 DEF AsWanted
      <4> QED
        BY <4>2, <4>3, <4>4, <4>5 DEF CommandsMatch
    <3> QED
      BY <3>1, <3>4, <3>5, <3>6
  <2> QED
    BY <2>1, <2>2 DEF SuccessfulRunPassesTheGate, At
<1> QED
  BY <1>1, <1>2, <1>3, PTL DEF CaptureSpec
=============================================================================
