-------------------------- MODULE InterventionsProofs --------------------------
(***************************************************************************)
(* Theorems about Interventions, for any plan of actions, any workers and  *)
(* any number of failed calls.                                             *)
(***************************************************************************)
EXTENDS Interventions, FiniteSetTheorems, TLAPS

-----------------------------------------------------------------------------
(* The shape of the method in progress.  The steps of a start belong to a   *)
(* command whose action is not active yet and has a kind that takes them;   *)
(* the stop of a command concerns an active action, that of close() one it  *)
(* has popped; the loop and the final DELETE belong to close().             *)

Starting == {"select", "clear", "pause", "lock", "set"}

StartShape ==
  call.step \in Starting =>
    /\ call.op = "command" /\ call.phase = "start"
    /\ call.action \in Actions /\ call.action \notin active
    /\ CASE call.step = "lock" -> Kind[call.action] = "postgres_lock"
         [] call.step = "set"  -> Kind[call.action] \in KeyKinds
         [] OTHER              -> Kind[call.action] = "worker_pause"

StopShape ==
  call.step = "stop" =>
    /\ call.action \in Actions
    /\ \/ call.op = "command" /\ call.phase = "stop" /\ call.action \in active
       \/ call.op = "close" /\ call.action \notin active

EvidenceShape ==
  call.step \in {"readback", "post"} =>
    \/ call.op = "boundary" /\ call.phase \in {"started", "closed"}
    \/ call.op = "command" /\ call.phase \in Phases /\ call.action \in Actions
    \/ call.op = "close" /\ call.action \in Actions

SweepShape ==
  call.step \in {"sweep", "wipe"} => call.op = "close"

Shape == StartShape /\ StopShape /\ EvidenceShape /\ SweepShape

(* The logical index a command is given with. *)
IndexOf(a, phase) == IF phase = "start" THEN Start[a] ELSE Stop[a]

(* The methods of the interface. *)
CallStep ==
  \/ \E a \in Actions, phase \in Phases : Command(a, phase, IndexOf(a, phase))
  \/ \E phase \in {"started", "closed"} : Boundary(phase)
  \/ Close

(* Every step is a call, a step of a method, or one of the workers'. *)
LEMMA StepsOfNext ==
  ASSUME Next
  PROVE  CallStep \/ Proceed \/ WorkersRegister \/ WorkerLocks
BY DEF Next, Caller, CallStep, IndexOf

(* The budget of failed calls is never exceeded. *)
LEMMA FaultType ==
  ASSUME faults \in 0 .. MaxFaults, Works \/ Breaks
  PROVE  faults' \in 0 .. MaxFaults
BY FaultsAssumption DEF Works, Breaks

(* Moving to a step, and ending the method, keep the type of the call. *)
LEMMA CallType ==
  ASSUME call \in Calls
  PROVE  /\ \A step \in Steps : Goto(step) => call' \in Calls
         /\ Returns => call' \in Calls
         /\ Raises => call' \in Calls
BY DEF Calls, Goto, Returns, Raises, Ends, Steps

(* Forgetting an action and activating one keep the types of the memory. *)
LEMMA MemoryType ==
  ASSUME TypeOK, call.action \in Actions
  PROVE  /\ Forget(call.action) \/ Inactive
            \/ (\E lock \in {"none", "open"} : Activate(lock))
            => /\ active' \in SUBSET Actions
               /\ session' \in [Actions -> {"none", "open", "closed"}]
               /\ realized' \in [Actions -> SUBSET Workers]
         /\ \A lock \in {"none", "closed"} :
              StopRaises(lock)
              => /\ active' \in SUBSET Actions
                 /\ session' \in [Actions -> {"none", "open", "closed"}]
                 /\ realized' \in [Actions -> SUBSET Workers]
                 /\ call' \in Calls
         /\ StopReturns
            => /\ active' \in SUBSET Actions
               /\ session' \in [Actions -> {"none", "open", "closed"}]
               /\ realized' \in [Actions -> SUBSET Workers]
               /\ call' \in Calls
         /\ \A lock \in {"none", "open"} : Activate(lock) => call' \in Calls
<1>1. /\ active \in SUBSET Actions
      /\ session \in [Actions -> {"none", "open", "closed"}]
      /\ realized \in [Actions -> SUBSET Workers]
      /\ call \in Calls /\ call.workers \in SUBSET Workers
  BY DEF TypeOK, Calls
<1>2. "sweep" \in Steps /\ "readback" \in Steps
  BY DEF Steps
<1> QED
  BY <1>1, <1>2, CallType DEF Forget, Inactive, Activate, StopRaises, StopReturns

(* What is posted is a record. *)
LEMMA RecordType ==
  ASSUME TypeOK, EvidenceShape, At("post")
  PROVE  Record \in Records
<1>1. Cardinality(active) \in Nat
  BY ActionsAssumption, FS_Subset, FS_CardinalityType DEF TypeOK
<1>2. /\ call.workers \in SUBSET Workers
      /\ call.delay \in Actions \cup {NoAction} /\ call.index \in Nat
  BY DEF TypeOK, Calls
<1> QED
  BY <1>1, <1>2 DEF EvidenceShape, At, Record, Records, Phases

-----------------------------------------------------------------------------
(* Types *)

(* A step of a method keeps the types. *)
LEMMA ProceedType ==
  ASSUME TypeOK, Shape, Proceed
  PROVE  TypeOK'
<1> USE DEF controls, memory
<1>0. call \in Calls /\ call.workers \in SUBSET Workers
  BY DEF TypeOK, Calls
<1>1. CASE SelectWorkers
  <2>1. faults' \in 0 .. MaxFaults
    BY <1>1, FaultType DEF SelectWorkers, TypeOK
  <2>2. call' \in Calls
    <3>1. CASE Raises
      BY <3>1, <1>0, CallType
    <3>2. CASE \E chosen \in SUBSET instances :
                 call' = [call EXCEPT !.step = "clear", !.workers = chosen]
      BY <3>2 DEF TypeOK, Calls, Steps
    <3> QED
      BY <1>1, <3>1, <3>2 DEF SelectWorkers
  <2>3. registered' \in [Actions -> SUBSET Workers]
    BY <1>1 DEF SelectWorkers, TypeOK
  <2> QED
    BY <1>1, <2>1, <2>2, <2>3 DEF SelectWorkers, TypeOK
<1>2. CASE ClearPaused
  <2>1. faults' \in 0 .. MaxFaults
    BY <1>2, FaultType DEF ClearPaused, TypeOK
  <2>2. call' \in Calls
    BY <1>2, <1>0, CallType DEF ClearPaused, Steps
  <2> QED
    BY <1>2, <2>1, <2>2 DEF ClearPaused, MayApply, TypeOK
<1>3. CASE PauseWorkers
  <2>1. faults' \in 0 .. MaxFaults
    BY <1>3, FaultType DEF PauseWorkers, TypeOK
  <2>2. call.action \in Actions
    BY <1>3 DEF PauseWorkers, At, Shape, StartShape, Starting
  <2>3. call' \in Calls
    BY <1>3, <1>0, <2>2, CallType, MemoryType DEF PauseWorkers
  <2>4. /\ active' \in SUBSET Actions
        /\ session' \in [Actions -> {"none", "open", "closed"}]
        /\ realized' \in [Actions -> SUBSET Workers]
    BY <1>3, <2>2, MemoryType DEF PauseWorkers
  <2>5. paused' \in SUBSET Workers
    BY <1>3, <1>0 DEF PauseWorkers, MayApply, TypeOK
  <2> QED
    BY <1>3, <2>1, <2>3, <2>4, <2>5 DEF PauseWorkers, TypeOK
<1>4. CASE TakeLock
  <2>1. faults' \in 0 .. MaxFaults
    BY <1>4, FaultType DEF TakeLock, TypeOK
  <2>2. call.action \in Actions
    BY <1>4 DEF TakeLock, At, Shape, StartShape, Starting
  <2>3. call' \in Calls
    BY <1>4, <1>0, <2>2, CallType, MemoryType DEF TakeLock
  <2>4. /\ active' \in SUBSET Actions
        /\ session' \in [Actions -> {"none", "open", "closed"}]
        /\ realized' \in [Actions -> SUBSET Workers]
    BY <1>4, <2>2, MemoryType DEF TakeLock
  <2> QED
    BY <1>4, <2>1, <2>3, <2>4 DEF TakeLock, TypeOK
<1>5. CASE SetKey
  <2>1. faults' \in 0 .. MaxFaults
    BY <1>5, FaultType DEF SetKey, TypeOK
  <2>2. call.action \in Actions
    BY <1>5 DEF SetKey, At, Shape, StartShape, Starting
  <2>3. call' \in Calls
    BY <1>5, <1>0, <2>2, CallType, MemoryType DEF SetKey
  <2>4. /\ active' \in SUBSET Actions
        /\ session' \in [Actions -> {"none", "open", "closed"}]
        /\ realized' \in [Actions -> SUBSET Workers]
    BY <1>5, <2>2, MemoryType DEF SetKey
  <2>5. keys' \in [KeyKinds -> Actions \cup {NoAction}]
    BY <1>5, <2>2 DEF SetKey, MayApply, TypeOK
  <2> QED
    BY <1>5, <2>1, <2>3, <2>4, <2>5 DEF SetKey, TypeOK
<1>6. CASE StopLock
  <2>1. faults' \in 0 .. MaxFaults
    BY <1>6, FaultType DEF StopLock, TypeOK
  <2>2. call.action \in Actions
    BY <1>6 DEF StopLock, OfKind
  <2>3. /\ active' \in SUBSET Actions
        /\ session' \in [Actions -> {"none", "open", "closed"}]
        /\ realized' \in [Actions -> SUBSET Workers]
        /\ call' \in Calls
    BY <1>6, <2>2, MemoryType DEF StopLock
  <2> QED
    BY <1>6, <2>1, <2>3 DEF StopLock, TypeOK
<1>7. CASE StopKey
  <2>1. faults' \in 0 .. MaxFaults
    BY <1>7, FaultType DEF StopKey, TypeOK
  <2>2. call.action \in Actions
    BY <1>7 DEF StopKey, Shape, StopShape, At
  <2>3. /\ active' \in SUBSET Actions
        /\ session' \in [Actions -> {"none", "open", "closed"}]
        /\ realized' \in [Actions -> SUBSET Workers]
        /\ call' \in Calls
    BY <1>7, <2>2, MemoryType DEF StopKey
  <2>4. /\ paused' \in SUBSET Workers
        /\ keys' \in [KeyKinds -> Actions \cup {NoAction}]
    BY <1>7 DEF StopKey, MayApply, TypeOK
  <2> QED
    BY <1>7, <2>1, <2>3, <2>4 DEF StopKey, TypeOK
<1>8. CASE Readback
  <2>1. faults' \in 0 .. MaxFaults
    BY <1>8, FaultType DEF Readback, TypeOK
  <2>2. keys["redis_enqueue_delay"] \in Actions \cup {NoAction}
    BY DEF TypeOK, KeyKinds
  <2>3. call' \in Calls
    <3>1. CASE Raises
      BY <3>1, <1>0, CallType
    <3>2. CASE call' = [call EXCEPT !.step = "post", !.delay = keys["redis_enqueue_delay"]]
      BY <3>2, <1>0, <2>2 DEF Calls, Steps
    <3> QED
      BY <1>8, <3>1, <3>2 DEF Readback
  <2> QED
    BY <1>8, <2>1, <2>3 DEF Readback, TypeOK
<1>9. CASE Post
  <2>1. faults' \in 0 .. MaxFaults
    BY <1>9, FaultType DEF Post, TypeOK
  <2>2. call' \in Calls
    BY <1>9, <1>0, CallType DEF Post, Steps
  <2>3. evidence' \in Seq(Records)
    <3>1. Record \in Records
      BY <1>9, RecordType DEF Post, Shape
    <3>2. evidence' = Append(evidence, Record) \/ evidence' = evidence
      BY <1>9 DEF Post, MayApply
    <3>3. evidence \in Seq(Records)
      BY DEF TypeOK
    <3> QED
      BY <3>1, <3>2, <3>3
  <2>4. commandIds' \in SUBSET (Actions \X Phases)
    <3>1. call.op # "boundary" => <<call.action, Record.phase>> \in Actions \X Phases
      BY <1>9 DEF Post, At, Shape, EvidenceShape, Record, Phases
    <3>2. \/ commandIds' = commandIds
          \/ /\ call.op # "boundary"
             /\ commandIds' = commandIds \cup {<<call.action, Record.phase>>}
      BY <1>9 DEF Post
    <3> QED
      BY <3>1, <3>2 DEF TypeOK
  <2> QED
    BY <1>9, <2>1, <2>2, <2>3, <2>4 DEF Post, TypeOK
<1>10. CASE Sweep
  <2>1. call' \in Calls
    <3>1. CASE Goto("wipe")
      BY <3>1, <1>0, CallType DEF Steps
    <3>2. CASE \E a \in active :
                 call' = [call EXCEPT !.action = a, !.index = Stop[a], !.step = "stop",
                                      !.workers = realized[a]]
      <4>1. PICK a \in active :
              call' = [call EXCEPT !.action = a, !.index = Stop[a], !.step = "stop",
                                   !.workers = realized[a]]
        BY <3>2
      <4>2. a \in Actions /\ Stop[a] \in Nat /\ realized[a] \in SUBSET Workers
        BY IndexAssumption DEF TypeOK
      <4> QED
        BY <1>0, <4>1, <4>2 DEF Calls, Steps
    <3> QED
      BY <1>10, <3>1, <3>2 DEF Sweep
  <2> QED
    BY <1>10, <2>1 DEF Sweep, TypeOK
<1>11. CASE Wipe
  <2>1. faults' \in 0 .. MaxFaults
    BY <1>11, FaultType DEF Wipe, TypeOK
  <2>2. call' \in Calls
    BY <1>11, <1>0, CallType DEF Wipe
  <2> QED
    BY <1>11, <2>1, <2>2 DEF Wipe, MayApply, TypeOK
<1> QED
  BY <1>1, <1>2, <1>3, <1>4, <1>5, <1>6, <1>7, <1>8, <1>9, <1>10, <1>11 DEF Proceed

(* A call and a step of the workers keep the types. *)
LEMMA OtherType ==
  ASSUME TypeOK, CallStep \/ WorkersRegister \/ WorkerLocks
  PROVE  TypeOK'
<1> USE DEF controls, memory
<1>1. CASE \E a \in Actions, phase \in Phases : Command(a, phase, IndexOf(a, phase))
  <2>1. PICK a \in Actions, phase \in Phases : Command(a, phase, IndexOf(a, phase))
    BY <1>1
  <2>2. realized[a] \in SUBSET Workers
    BY DEF TypeOK
  <2>3. FirstStep(a, phase) \in Steps
    BY DEF FirstStep, Steps
  <2>4. IndexOf(a, phase) \in Nat
    BY IndexAssumption DEF IndexOf
  <2>5. call' \in Calls
    BY <2>1, <2>2, <2>3, <2>4 DEF Command, Begin, Calls, Phases, Steps
  <2> QED
    BY <2>1, <2>5 DEF Command, TypeOK
<1>2. CASE \E phase \in {"started", "closed"} : Boundary(phase)
  <2>1. call' \in Calls
    BY <1>2 DEF Boundary, Begin, Calls, Steps
  <2> QED
    BY <1>2, <2>1 DEF Boundary, TypeOK
<1>3. CASE Close
  <2>1. call' \in Calls
    BY <1>3 DEF Close, Begin, Calls, Steps
  <2> QED
    BY <1>3, <2>1 DEF Close, TypeOK
<1>4. CASE WorkersRegister
  BY <1>4 DEF WorkersRegister, TypeOK
<1>5. CASE WorkerLocks
  BY <1>5 DEF WorkerLocks, TypeOK
<1> QED
  BY <1>1, <1>2, <1>3, <1>4, <1>5 DEF CallStep

-----------------------------------------------------------------------------
(* The shape of the method in progress holds in every state. *)

LEMMA ShapeStep ==
  ASSUME TypeOK, Shape, Next
  PROVE  Shape'
<1> USE DEF controls, memory, Shape, StartShape, StopShape, EvidenceShape, SweepShape,
            Starting, Phases
<1>0. call \in Calls
  BY DEF TypeOK
<1>1. CASE \E a \in Actions, phase \in Phases : Command(a, phase, IndexOf(a, phase))
  <2>1. PICK a \in Actions, phase \in Phases : Command(a, phase, IndexOf(a, phase))
    BY <1>1
  <2>2. CASE Refused(a, phase)
    BY <2>1, <2>2 DEF Command, Begin
  <2>3. CASE ~Refused(a, phase)
    BY <2>1, <2>3, ActionsAssumption DEF Command, Refused, FirstStep, Kinds, KeyKinds
  <2> QED
    BY <2>2, <2>3
<1>2. CASE \E phase \in {"started", "closed"} : Boundary(phase)
  BY <1>2 DEF Boundary, Begin
<1>3. CASE Close
  BY <1>3 DEF Close, Begin
<1>4. CASE WorkersRegister \/ WorkerLocks
  BY <1>4 DEF WorkersRegister, WorkerLocks
<1>5. ASSUME Proceed
      PROVE  Shape'
  <2> USE DEF Returns, Raises, Ends, Goto, At, Calls
  <2>1. CASE SelectWorkers
    <3>1. CASE Raises
      BY <3>1
    <3>2. CASE \E chosen \in SUBSET instances :
                 call' = [call EXCEPT !.step = "clear", !.workers = chosen]
      <4>1. /\ call'.step = "clear" /\ call'.op = call.op /\ call'.phase = call.phase
            /\ call'.action = call.action
        BY <1>0, <3>2
      <4> QED
        BY <4>1, <2>1 DEF SelectWorkers
    <3> QED
      BY <2>1, <3>1, <3>2 DEF SelectWorkers
  <2>2. CASE ClearPaused
    BY <1>0, <2>2 DEF ClearPaused
  <2>3. CASE PauseWorkers
    BY <1>0, <2>3 DEF PauseWorkers, Activate
  <2>4. CASE TakeLock
    BY <1>0, <2>4 DEF TakeLock, Activate
  <2>5. CASE SetKey
    BY <1>0, <2>5 DEF SetKey, Activate
  <2>6. CASE StopLock
    BY <1>0, <2>6 DEF StopLock, StopReturns, StopRaises
  <2>7. CASE StopKey
    BY <1>0, <2>7 DEF StopKey, StopReturns, StopRaises
  <2>8. CASE Readback
    <3>1. CASE Raises
      BY <3>1
    <3>2. CASE call' = [call EXCEPT !.step = "post", !.delay = keys["redis_enqueue_delay"]]
      <4>1. /\ call'.step = "post" /\ call'.op = call.op /\ call'.phase = call.phase
            /\ call'.action = call.action
        BY <1>0, <3>2
      <4> QED
        BY <4>1, <2>8 DEF Readback
    <3> QED
      BY <2>8, <3>1, <3>2 DEF Readback
  <2>9. CASE Post
    BY <1>0, <2>9 DEF Post
  <2>10. CASE Sweep
    BY <1>0, <2>10 DEF Sweep, TypeOK
  <2>11. CASE Wipe
    BY <1>0, <2>11 DEF Wipe
  <2> QED
    BY <1>5, <2>1, <2>2, <2>3, <2>4, <2>5, <2>6, <2>7, <2>8, <2>9, <2>10, <2>11 DEF Proceed
<1> QED
  BY <1>1, <1>2, <1>3, <1>4, <1>5, StepsOfNext DEF CallStep

(* Types and shape together are inductive: what a method posts is a record   *)
(* only because of its shape.                                               *)
Typed == TypeOK /\ Shape

LEMMA TypedInductive == Init /\ [][Next]_vars => []Typed
<1>1. Init => Typed
  BY ActionsAssumption, FaultsAssumption
  DEF Init, Typed, TypeOK, Shape, StartShape, StopShape, EvidenceShape, SweepShape, Starting,
      Calls, Steps, Records, KeyKinds
<1>2. ASSUME Typed, [Next]_vars
      PROVE  Typed'
  <2>1. CASE Next
    BY <1>2, <2>1, ProceedType, OtherType, ShapeStep, StepsOfNext DEF Typed
  <2>2. CASE UNCHANGED vars
    BY <1>2, <2>2 DEF Typed, TypeOK, Shape, StartShape, StopShape, EvidenceShape, SweepShape,
                      vars, controls, memory
  <2> QED
    BY <1>2, <2>1, <2>2
<1> QED
  BY <1>1, <1>2, PTL

(* Every variable of the controller, of the stores and of the collector      *)
(* keeps its type (all methods of ReversibleInterventionController).         *)
THEOREM TypeCorrect == Spec => []TypeOK
BY TypedInductive, PTL DEF Spec, Typed

-----------------------------------------------------------------------------
(* The advisory lock *)

(* An open session is the controller's, belongs to an action of the lock     *)
(* kind that is active or popped by close(), and there is one at most; the   *)
(* lock is the controller's only through a session.                          *)
SessionsOwnLock ==
  /\ \A a \in Actions :
       session[a] = "open" =>
         /\ Kind[a] = "postgres_lock" /\ lockOwner = Controller
         /\ a \in active \/ (call.op = "close" /\ call.step = "stop" /\ call.action = a)
  /\ \A a, b \in Actions : session[a] = "open" /\ session[b] = "open" => a = b
  /\ lockOwner = Controller => \E a \in Actions : session[a] = "open"

(* A step of a method that leaves the sessions and the lock alone, and is    *)
(* neither a sweep nor the stop of close(), keeps the ownership.             *)
LEMMA QuietKeepsOwnership ==
  ASSUME Typed, SessionsOwnLock, UNCHANGED <<lockOwner, session>>,
         active \subseteq active', ~(call.op = "close" /\ call.step = "stop")
  PROVE  SessionsOwnLock'
BY DEF SessionsOwnLock

(* The start of an action that takes no lock opens no session.               *)
LEMMA ActivateKeepsOwnership ==
  ASSUME Typed, SessionsOwnLock, call.step \in {"pause", "set"}, Activate("none") \/ Inactive,
         lockOwner' = lockOwner
  PROVE  SessionsOwnLock'
<1>1. call.action \in Actions /\ call.op = "command" /\ Kind[call.action] # "postgres_lock"
  BY DEF Typed, Shape, StartShape, Starting, KeyKinds
<1>2. CASE Activate("none")
  BY <1>1, <1>2 DEF Activate, SessionsOwnLock, Typed, TypeOK
<1>3. CASE Inactive
  BY <1>1, <1>3 DEF Inactive, SessionsOwnLock
<1> QED
  BY <1>2, <1>3

LEMMA LockStep ==
  ASSUME Typed, SessionsOwnLock, Next
  PROVE  SessionsOwnLock'
<1> USE DEF controls, memory
<1>0. /\ session \in [Actions -> {"none", "open", "closed"}]
      /\ call \in Calls /\ active \subseteq Actions
  BY DEF Typed, TypeOK
<1>1. CASE CallStep
  <2>1. UNCHANGED <<lockOwner, session, active>> /\ Idle
    BY <1>1 DEF CallStep, Command, Boundary, Close
  <2> QED
    BY <2>1, QuietKeepsOwnership DEF Idle
<1>2. CASE WorkersRegister
  BY <1>2 DEF WorkersRegister, SessionsOwnLock
<1>3. CASE WorkerLocks
  <2>1. lockOwner # Controller /\ lockOwner' # Controller
    BY <1>3, ControllerAssumption DEF WorkerLocks
  <2> QED
    BY <1>3, <2>1 DEF WorkerLocks, SessionsOwnLock
<1>4. CASE SelectWorkers \/ ClearPaused \/ Readback \/ Post \/ Wipe
  <2>1. UNCHANGED <<lockOwner, session, active>> /\ call.step # "stop"
    BY <1>4 DEF SelectWorkers, ClearPaused, Readback, Post, Wipe, At
  <2> QED
    BY <2>1, QuietKeepsOwnership
<1>5. CASE PauseWorkers
  BY <1>5, ActivateKeepsOwnership DEF PauseWorkers, At
<1>6. CASE SetKey
  BY <1>6, ActivateKeepsOwnership DEF SetKey, At
<1>7. CASE TakeLock
  <2>1. /\ call.action \in Actions /\ call.op = "command"
        /\ Kind[call.action] = "postgres_lock"
    BY <1>7 DEF TakeLock, At, Typed, Shape, StartShape, Starting
  <2>2. CASE lockOwner = Nobody /\ lockOwner' = Controller /\ Activate("open")
    <3>1. \A a \in Actions : session[a] # "open"
      BY <2>2, ControllerAssumption DEF SessionsOwnLock
    <3> QED
      BY <1>0, <2>1, <2>2, <3>1 DEF Activate, SessionsOwnLock
  <2>3. CASE Inactive /\ UNCHANGED lockOwner
    BY <2>1, <2>3, <1>7, QuietKeepsOwnership DEF Inactive, TakeLock, At
  <2> QED
    BY <1>7, <2>2, <2>3 DEF TakeLock
<1>8. CASE StopLock
  <2>1. call.action \in Actions
    BY <1>8 DEF StopLock, OfKind
  <2>2. CASE /\ session[call.action] = "open" /\ lockOwner' = Nobody
             /\ StopReturns \/ StopRaises("closed")
    <3>1. session'[call.action] # "open"
      BY <1>0, <2>1, <2>2 DEF StopReturns, StopRaises, Forget
    <3>2. \A a \in Actions : session'[a] # "open"
      BY <1>0, <2>1, <2>2, <3>1 DEF StopReturns, StopRaises, Forget, SessionsOwnLock
    <3> QED
      BY <2>2, <3>2, ControllerAssumption DEF SessionsOwnLock
  <2>3. CASE /\ session[call.action] = "closed" /\ StopRaises("closed")
             /\ UNCHANGED lockOwner
    BY <1>0, <2>1, <2>3 DEF StopRaises, Forget, SessionsOwnLock
  <2> QED
    BY <1>8, <2>2, <2>3 DEF StopLock
<1>9. CASE StopKey
  <2>1. call.action \in Actions /\ session[call.action] # "open"
    BY <1>9 DEF StopKey, At, OfKind, Typed, Shape, StopShape, SessionsOwnLock
  <2>2. StopReturns \/ StopRaises("none")
    BY <1>9 DEF StopKey
  <2> QED
    BY <1>0, <1>9, <2>1, <2>2 DEF StopKey, StopReturns, StopRaises, Forget, SessionsOwnLock
<1>10. CASE Sweep
  <2>1. call.op = "close" /\ call.step = "sweep"
    BY <1>10 DEF Sweep, At, Typed, Shape, SweepShape
  <2>2. CASE active = {} /\ UNCHANGED active
    BY <1>10, <2>1, <2>2, QuietKeepsOwnership DEF Sweep
  <2>3. CASE active # {}
    <3>1. PICK a \in active :
            /\ active' = active \ {a}
            /\ call' = [call EXCEPT !.action = a, !.index = Stop[a], !.step = "stop",
                                    !.workers = realized[a]]
      BY <1>10, <2>3 DEF Sweep
    <3>2. call'.op = "close" /\ call'.step = "stop" /\ call'.action = a
      BY <1>0, <2>1, <3>1 DEF Calls
    <3>3. UNCHANGED <<lockOwner, session>>
      BY <1>10 DEF Sweep
    <3> QED
      BY <2>1, <3>1, <3>2, <3>3 DEF SessionsOwnLock
  <2> QED
    BY <2>2, <2>3, <1>10 DEF Sweep
<1> QED
  BY <1>1, <1>2, <1>3, <1>4, <1>5, <1>6, <1>7, <1>8, <1>9, <1>10, StepsOfNext DEF Proceed

(* One owner makes a set of at most one. *)
LEMMA OwnersOfTheLock ==
  ASSUME Typed, SessionsOwnLock
  PROVE  LockIsRecoverable
<1> DEFINE owners == {a \in Actions : session[a] = "open"}
<1>1. Cardinality(owners) <= 1
  <2>1. CASE owners = {}
    BY <2>1, FS_EmptySet
  <2>2. CASE owners # {}
    <3>1. PICK a : owners = {a}
      BY <2>2 DEF SessionsOwnLock
    <3>2. Cardinality({a}) = 1
      BY FS_Singleton
    <3> QED
      BY <3>1, <3>2
  <2> QED
    BY <2>1, <2>2
<1>2. lockOwner = Controller <=> owners # {}
  BY DEF SessionsOwnLock
<1>3. owners \subseteq active \cup (IF call.op = "close" /\ At("stop") THEN {call.action} ELSE {})
  BY DEF SessionsOwnLock, At
<1> QED
  BY <1>1, <1>2, <1>3 DEF LockIsRecoverable

LEMMA LockInductive == Spec => [](Typed /\ SessionsOwnLock)
<1>1. Init => SessionsOwnLock
  BY ControllerAssumption DEF Init, SessionsOwnLock
<1>2. ASSUME Typed, SessionsOwnLock, [Next]_vars
      PROVE  SessionsOwnLock'
  <2>1. CASE UNCHANGED vars
    BY <1>2, <2>1 DEF SessionsOwnLock, vars, controls, memory
  <2> QED
    BY <1>2, <2>1, LockStep
<1> QED
  BY <1>1, <1>2, TypedInductive, PTL DEF Spec

(* The lock is never orphaned: while the controller holds it, its connection *)
(* belongs to one active action or to the one that close() is about to       *)
(* unlock (_start, _stop and close, with every call failing at will).        *)
THEOREM LockStaysRecoverable == Spec => []LockIsRecoverable
BY LockInductive, OwnersOfTheLock, PTL

-----------------------------------------------------------------------------
(* close() *)

(* close() comes to its final DELETE with no action active. *)
CloseSweeps == call.step = "wipe" => active = {}

LEMMA CleanStep ==
  ASSUME Typed, SessionsOwnLock, CloseSweeps, ReturnedCloseIsClean, Next
  PROVE  CloseSweeps' /\ ReturnedCloseIsClean'
<1> USE DEF controls, memory, CloseSweeps, ReturnedCloseIsClean
<1>0. call \in Calls
  BY DEF Typed, TypeOK
<1>1. CASE CallStep
  BY <1>1 DEF CallStep, Command, Boundary, Close, Begin, FirstStep
<1>2. CASE WorkersRegister
  BY <1>2 DEF WorkersRegister, ControlsClear
<1>3. CASE WorkerLocks
  BY <1>3, ControllerAssumption DEF WorkerLocks, ControlsClear
<1>4. CASE Wipe
  <2>1. lockOwner # Controller /\ active = {}
    BY <1>4 DEF Wipe, At, SessionsOwnLock
  <2>2. CASE paused' = {} /\ keys' = [k \in KeyKinds |-> NoAction] /\ Returns
    BY <1>4, <2>1, <2>2 DEF Wipe, Returns, Ends, ControlsClear
  <2>3. CASE Raises
    BY <2>3 DEF Raises, Ends
  <2> QED
    BY <1>4, <2>2, <2>3 DEF Wipe
<1>5. CASE Sweep
  <2>1. CASE active = {} /\ Goto("wipe") /\ UNCHANGED active
    BY <1>0, <2>1 DEF Goto, Calls
  <2>2. CASE \E a \in active :
               call' = [call EXCEPT !.action = a, !.index = Stop[a], !.step = "stop",
                                    !.workers = realized[a]]
    <3>1. call'.step = "stop"
      BY <1>0, <2>2 DEF Calls
    <3> QED
      BY <3>1
  <2> QED
    BY <1>5, <2>1, <2>2 DEF Sweep
<1>6. ASSUME SelectWorkers \/ ClearPaused \/ PauseWorkers \/ TakeLock \/ SetKey
             \/ StopLock \/ StopKey \/ Readback \/ Post
      PROVE  call'.step # "wipe" /\ (call'.op = "close" => call'.step # "returned")
  <2> USE DEF Returns, Raises, Ends, Goto, Calls
  <2>1. CASE SelectWorkers
    <3>1. CASE \E chosen \in SUBSET instances :
                 call' = [call EXCEPT !.step = "clear", !.workers = chosen]
      <4>1. call'.step = "clear"
        BY <1>0, <3>1
      <4> QED
        BY <4>1
    <3>2. CASE Raises
      BY <3>2
    <3>3. Raises \/ \E chosen \in SUBSET instances :
                      call' = [call EXCEPT !.step = "clear", !.workers = chosen]
      BY <2>1 DEF SelectWorkers
    <3> QED
      BY <3>1, <3>2, <3>3
  <2>2. CASE ClearPaused \/ PauseWorkers \/ TakeLock \/ SetKey
    BY <1>0, <2>2 DEF ClearPaused, PauseWorkers, TakeLock, SetKey, Activate
  <2>3. CASE StopLock \/ StopKey
    BY <1>0, <2>3 DEF StopLock, StopKey, StopReturns, StopRaises
  <2>4. CASE Readback
    <3>1. CASE call' = [call EXCEPT !.step = "post", !.delay = keys["redis_enqueue_delay"]]
      <4>1. call'.step = "post"
        BY <1>0, <3>1
      <4> QED
        BY <4>1
    <3> QED
      BY <2>4, <3>1 DEF Readback
  <2>5. CASE Post
    BY <1>0, <2>5 DEF Post
  <2> QED
    BY <1>6, <2>1, <2>2, <2>3, <2>4, <2>5
<1> QED
  BY <1>1, <1>2, <1>3, <1>4, <1>5, <1>6, StepsOfNext DEF Proceed

(* A close() that returned left no action active, no control key set and no  *)
(* lock held (close, after any commands that failed).                        *)
THEOREM CloseLeavesNothing == Spec => []ReturnedCloseIsClean
<1>1. Init => CloseSweeps /\ ReturnedCloseIsClean
  BY DEF Init, CloseSweeps, ReturnedCloseIsClean
<1>2. ASSUME Typed, SessionsOwnLock, CloseSweeps, ReturnedCloseIsClean, [Next]_vars
      PROVE  CloseSweeps' /\ ReturnedCloseIsClean'
  <2>1. CASE UNCHANGED vars
    BY <1>2, <2>1
    DEF CloseSweeps, ReturnedCloseIsClean, ControlsClear, vars, controls, memory
  <2> QED
    BY <1>2, <2>1, CleanStep
<1> QED
  BY <1>1, <1>2, LockInductive, PTL DEF Spec

-----------------------------------------------------------------------------
(* Evidence *)

(* What a stopped action no longer does to the system. *)
Undone(a) ==
  CASE Kind[a] = "worker_pause"  -> paused = {}
    [] Kind[a] = "postgres_lock" -> session[a] # "open"
    [] OTHER                     -> keys[Kind[a]] = NoAction

(* Between the external call of a command and its record nothing undoes the  *)
(* call: a start is in force and a stop is undone until it is recorded, and  *)
(* the delay that was read back is still the one that is set.                *)
StartDue ==
  /\ call.step \in {"clear", "pause"} => call.workers # {}
  /\ call.step = "pause" => paused = {}
  /\ call.step \in {"readback", "post"} /\ call.op = "command" /\ call.phase = "start" =>
       InForce(call.action)

StopDue ==
  (/\ call.step \in {"readback", "post"}
   /\ call.op = "close" \/ (call.op = "command" /\ call.phase = "stop"))
  => Undone(call.action)

DelayDue == call.step = "post" => call.delay = keys["redis_enqueue_delay"]

EffectsLast == StartDue /\ StopDue /\ DelayDue

(* A pause takes at least one of the registered workers. *)
LEMMA PauseTakesSomeone ==
  ASSUME NEW available \in SUBSET Workers, available # {},
         NEW chosen \in SUBSET available,
         Cardinality(chosen) = PauseCount(Cardinality(available))
  PROVE  chosen # {}
<1>1. IsFiniteSet(available) /\ Cardinality(available) \in Nat
  BY WorkersAssumption, FS_Subset, FS_CardinalityType
<1>2. Cardinality(available) >= 1
  BY <1>1, FS_EmptySet
<1>3. PauseCount(Cardinality(available)) >= 1
  <2> DEFINE n == Cardinality(available)
             rounded == (2 * PauseFraction[1] * n + PauseFraction[2]) \div (2 * PauseFraction[2])
             wanted == IF rounded < 1 THEN 1 ELSE rounded
  <2>1. rounded \in Int
    <3>1. PauseFraction[1] \in Nat /\ PauseFraction[2] \in Nat /\ PauseFraction[2] > 0
      BY FractionAssumption
    <3> DEFINE p == PauseFraction[1]
               q == PauseFraction[2]
    <3>2. 2 * p * n + q \in Int /\ 2 * q \in Int /\ 2 * q > 0
      <4> HIDE DEF n, p, q
      <4>1. n \in Nat /\ p \in Nat /\ q \in Nat /\ q > 0
        BY <1>1, <3>1 DEF n, p, q
      <4>2. 2 * p * n \in Nat
        BY <4>1
      <4> QED
        BY <4>1, <4>2
    <3> HIDE DEF p, q, n
    <3>3. (2 * p * n + q) \div (2 * q) \in Int
      BY <3>2
    <3> QED
      BY <3>3 DEF p, q, n
  <2> HIDE DEF rounded
  <2>2. wanted \in Int /\ wanted >= 1
    BY <2>1
  <2>3. PauseCount(n) = IF wanted < n THEN wanted ELSE n
    BY DEF PauseCount, rounded
  <2> HIDE DEF wanted
  <2> QED
    BY <2>2, <2>3, <1>2
<1> QED
  BY <1>2, <1>3, FS_EmptySet

(* A step that changes no control, no session, no choice of workers and not  *)
(* the call undoes nothing.                                                  *)
LEMMA QuietKeepsEffects ==
  ASSUME EffectsLast, UNCHANGED <<paused, keys, session, realized, call>>,
         lockOwner = Controller => lockOwner' = Controller
  PROVE  EffectsLast'
BY DEF EffectsLast, StartDue, StopDue, DelayDue, InForce, Undone

(* A step after which no record is due keeps the promise trivially. *)
LEMMA NothingDue ==
  ASSUME call'.step \notin {"clear", "pause", "readback", "post"}
  PROVE  EffectsLast'
BY DEF EffectsLast, StartDue, StopDue, DelayDue

LEMMA EffectsStep ==
  ASSUME Typed, SessionsOwnLock, EffectsLast, Next
  PROVE  EffectsLast'
<1> USE DEF controls, memory
<1>0. /\ call \in Calls /\ session \in [Actions -> {"none", "open", "closed"}]
      /\ realized \in [Actions -> SUBSET Workers] /\ active \subseteq Actions
      /\ keys \in [KeyKinds -> Actions \cup {NoAction}]
  BY DEF Typed, TypeOK
<1>1. CASE \E a \in Actions, phase \in Phases : Command(a, phase, IndexOf(a, phase))
  <2>1. call'.step \notin {"clear", "pause", "readback", "post"}
    BY <1>1 DEF Command, Begin, FirstStep
  <2> QED
    BY <2>1, NothingDue
<1>2. CASE \E phase \in {"started", "closed"} : Boundary(phase)
  BY <1>2 DEF Boundary, Begin, EffectsLast, StartDue, StopDue, DelayDue
<1>3. CASE Close
  <2>1. call'.step = "sweep"
    BY <1>3 DEF Close, Begin
  <2> QED
    BY <2>1, NothingDue
<1>4. CASE WorkersRegister
  BY <1>4, QuietKeepsEffects DEF WorkersRegister
<1>5. CASE WorkerLocks
  BY <1>5, QuietKeepsEffects, ControllerAssumption DEF WorkerLocks
<1>6. CASE Raises \/ Returns
  <2>1. call'.step \notin {"clear", "pause", "readback", "post"}
    BY <1>6 DEF Raises, Returns, Ends
  <2> QED
    BY <2>1, NothingDue
<1>7. CASE SelectWorkers /\ ~Raises
  <2>1. PICK chosen \in SUBSET instances :
          /\ instances # {}
          /\ Cardinality(chosen) = PauseCount(Cardinality(instances))
          /\ call' = [call EXCEPT !.step = "clear", !.workers = chosen]
    BY <1>7 DEF SelectWorkers
  <2>2. chosen # {}
    BY <2>1, PauseTakesSomeone DEF Typed, TypeOK
  <2>3. call'.step = "clear" /\ call'.workers = chosen
    BY <1>0, <2>1 DEF Calls
  <2> QED
    BY <2>2, <2>3 DEF EffectsLast, StartDue, StopDue, DelayDue
<1>8. CASE ClearPaused /\ ~Raises
  BY <1>0, <1>8 DEF ClearPaused, At, Goto, Calls, EffectsLast, StartDue, StopDue, DelayDue
<1>9. CASE PauseWorkers /\ ~Raises
  <2>1. /\ call.op = "command" /\ call.phase = "start" /\ call.action \in Actions
        /\ Kind[call.action] = "worker_pause"
    BY <1>9 DEF PauseWorkers, At, Typed, Shape, StartShape, Starting
  <2>2. paused' = call.workers /\ call.workers # {}
    BY <1>9 DEF PauseWorkers, At, EffectsLast, StartDue
  <2>3. realized'[call.action] = call.workers /\ call' = [call EXCEPT !.step = "readback"]
    BY <1>0, <1>9, <2>1 DEF PauseWorkers, Activate, Goto
  <2>4. /\ call'.step = "readback" /\ call'.op = "command" /\ call'.phase = "start"
        /\ call'.action = call.action
    BY <1>0, <2>1, <2>3 DEF Calls
  <2> QED
    BY <2>1, <2>2, <2>3, <2>4 DEF EffectsLast, StartDue, StopDue, DelayDue, InForce
<1>10. CASE TakeLock /\ ~Raises
  <2>1. /\ call.op = "command" /\ call.phase = "start" /\ call.action \in Actions
        /\ Kind[call.action] = "postgres_lock"
    BY <1>10 DEF TakeLock, At, Typed, Shape, StartShape, Starting
  <2>2. lockOwner' = Controller /\ session'[call.action] = "open"
        /\ call' = [call EXCEPT !.step = "readback"]
    BY <1>0, <1>10, <2>1 DEF TakeLock, Activate, Goto
  <2>3. /\ call'.step = "readback" /\ call'.op = "command" /\ call'.phase = "start"
        /\ call'.action = call.action
    BY <1>0, <2>1, <2>2 DEF Calls
  <2> QED
    BY <2>1, <2>2, <2>3 DEF EffectsLast, StartDue, StopDue, DelayDue, InForce
<1>11. CASE SetKey /\ ~Raises
  <2>1. /\ call.op = "command" /\ call.phase = "start" /\ call.action \in Actions
        /\ Kind[call.action] \in KeyKinds
    BY <1>11 DEF SetKey, At, Typed, Shape, StartShape, Starting
  <2>2. keys'[Kind[call.action]] = call.action /\ call' = [call EXCEPT !.step = "readback"]
    BY <1>0, <1>11, <2>1 DEF SetKey, Activate, Goto
  <2>3. /\ call'.step = "readback" /\ call'.op = "command" /\ call'.phase = "start"
        /\ call'.action = call.action
    BY <1>0, <2>1, <2>2 DEF Calls
  <2> QED
    BY <2>1, <2>2, <2>3 DEF EffectsLast, StartDue, StopDue, DelayDue, InForce, KeyKinds
<1>12. CASE StopLock /\ ~Raises
  <2>1. call.action \in Actions /\ Kind[call.action] = "postgres_lock" /\ StopReturns
        /\ call.step = "stop"
    BY <1>12 DEF StopLock, OfKind, StopRaises, At
  <2>2. call'.action = call.action /\ call'.op = call.op /\ call'.phase = call.phase
        /\ call'.step \in {"readback", "sweep"}
    BY <1>0, <2>1 DEF StopReturns, Goto, Calls
  <2>3. session'[call.action] # "open"
    BY <1>0, <2>1 DEF StopReturns, Forget
  <2>4. call.op = "command" => call.phase = "stop"
    BY <2>1 DEF Typed, Shape, StopShape
  <2> QED
    BY <2>1, <2>2, <2>3, <2>4 DEF EffectsLast, StartDue, StopDue, DelayDue, Undone
<1>13. CASE StopKey /\ ~Raises
  <2>1. call.action \in Actions /\ Kind[call.action] # "postgres_lock" /\ StopReturns
        /\ call.step = "stop"
    BY <1>13 DEF StopKey, OfKind, StopRaises, At, Typed, Shape, StopShape
  <2>2. call'.action = call.action /\ call'.op = call.op /\ call'.phase = call.phase
        /\ call'.step \in {"readback", "sweep"}
    BY <1>0, <2>1 DEF StopReturns, Goto, Calls
  <2>3. IF Kind[call.action] = "worker_pause" THEN paused' = {}
        ELSE keys' = [keys EXCEPT ![Kind[call.action]] = NoAction]
    BY <1>13, <2>1 DEF StopKey, OfKind, StopRaises
  <2>4. Kind[call.action] \in KeyKinds \cup {"worker_pause"}
    BY <2>1, ActionsAssumption DEF Kinds, KeyKinds
  <2>5. Kind[call.action] # "worker_pause" => keys'[Kind[call.action]] = NoAction
    BY <1>0, <2>3, <2>4
  <2>6. call.op = "command" => call.phase = "stop"
    BY <2>1 DEF Typed, Shape, StopShape
  <2> QED
    BY <2>1, <2>2, <2>3, <2>5, <2>6 DEF EffectsLast, StartDue, StopDue, DelayDue, Undone
<1>14. CASE Readback /\ ~Raises
  <2>1. call' = [call EXCEPT !.step = "post", !.delay = keys["redis_enqueue_delay"]]
    BY <1>14 DEF Readback
  <2>2. /\ call'.step = "post" /\ call'.delay = keys["redis_enqueue_delay"]
        /\ call'.op = call.op /\ call'.phase = call.phase /\ call'.action = call.action
    BY <1>0, <2>1 DEF Calls
  <2>3. call.step = "readback" /\ UNCHANGED <<paused, keys, lockOwner, session, realized>>
    BY <1>14 DEF Readback, At
  <2> QED
    BY <2>2, <2>3 DEF EffectsLast, StartDue, StopDue, DelayDue, InForce, Undone
<1>15. CASE Post /\ ~Raises /\ ~Returns
  <2>1. call'.step = "sweep"
    BY <1>0, <1>15 DEF Post, Goto, Calls
  <2> QED
    BY <2>1, NothingDue
<1>16. CASE Sweep
  <2>1. call'.step \in {"wipe", "stop"}
    <3>1. CASE Goto("wipe")
      BY <1>0, <3>1 DEF Goto, Calls
    <3>2. CASE \E a \in active :
                 call' = [call EXCEPT !.action = a, !.index = Stop[a], !.step = "stop",
                                      !.workers = realized[a]]
      BY <1>0, <3>2 DEF Calls
    <3> QED
      BY <1>16, <3>1, <3>2 DEF Sweep
  <2> QED
    BY <2>1, NothingDue
<1>17. Wipe => Raises \/ Returns
  BY DEF Wipe
<1> QED
  BY <1>1, <1>2, <1>3, <1>4, <1>5, <1>6, <1>7, <1>8, <1>9, <1>10, <1>11, <1>12, <1>13, <1>14,
     <1>15, <1>16, <1>17, StepsOfNext DEF Proceed, CallStep

(* What a step adds to the stream is the record that Post appends, and it is *)
(* of the action and phase of the command in progress.                       *)
LEMMA OnlyPostRecords ==
  ASSUME Typed, Next, NEW a \in Actions, NEW phase \in Phases,
         Recorded(a, phase)' # Recorded(a, phase)
  PROVE  /\ At("post") /\ call.op \in {"command", "close"} /\ call.action = a
         /\ phase = (IF call.op = "close" THEN "stop" ELSE call.phase)
         /\ evidence' = Append(evidence, Record)
         /\ UNCHANGED controls /\ UNCHANGED <<session, realized>>
<1>1. evidence' # evidence
  BY DEF Recorded
<1>2. Post
  BY <1>1, StepsOfNext
  DEF CallStep, Command, Boundary, Close, WorkersRegister, WorkerLocks, Proceed,
      SelectWorkers, ClearPaused, PauseWorkers, TakeLock, SetKey, StopLock, StopKey,
      Readback, Sweep, Wipe
<1>3. At("post") /\ evidence' = Append(evidence, Record)
  BY <1>1, <1>2 DEF Post, MayApply
<1>4. evidence \in Seq(Records) /\ Record \in Records
  BY <1>3, RecordType DEF Typed, TypeOK, Shape
<1>5. Record.event = "command" /\ Record.action = a /\ Record.phase = phase
  <2>1. /\ Len(evidence') = Len(evidence) + 1
        /\ evidence'[Len(evidence) + 1] = Record
        /\ \A i \in 1 .. Len(evidence) : evidence'[i] = evidence[i]
        /\ Len(evidence) \in Nat
    BY <1>3, <1>4
  <2> SUFFICES ASSUME ~(Record.event = "command" /\ Record.action = a /\ Record.phase = phase)
               PROVE  Recorded(a, phase)' = Recorded(a, phase)
    OBVIOUS
  <2>2. 1 .. Len(evidence') = (1 .. Len(evidence)) \cup {Len(evidence) + 1}
    BY <2>1
  <2> QED
    BY <2>1, <2>2 DEF Recorded
<1>6. call.op \in {"command", "close"} /\ call.action = a
      /\ phase = (IF call.op = "close" THEN "stop" ELSE call.phase)
  BY <1>3, <1>5 DEF Record, At, Typed, Shape, EvidenceShape
<1> QED
  BY <1>2, <1>3, <1>6 DEF Post, controls

(* What a command did lasts until its record. *)
LEMMA EffectsHold == Spec => [](Typed /\ SessionsOwnLock /\ EffectsLast)
<1>1. Init => EffectsLast
  BY DEF Init, EffectsLast, StartDue, StopDue, DelayDue
<1>2. ASSUME Typed, SessionsOwnLock, EffectsLast, [Next]_vars
      PROVE  EffectsLast'
  <2>1. CASE UNCHANGED vars
    BY <1>2, <2>1, QuietKeepsEffects DEF vars, controls, memory
  <2> QED
    BY <1>2, <2>1, EffectsStep
<1> QED
  BY <1>1, <1>2, LockInductive, PTL DEF Spec

(* Evidence follows the effect: whatever fails, a start is recorded only     *)
(* while its action is in force and a stop only when it is not, with the     *)
(* delay that is then set (command, _emit and close).                        *)
THEOREM EvidenceIsTrue == Spec => EvidenceFollowsEffect
<1> DEFINE Step ==
      \A a \in Actions :
        /\ Recorded(a, "start")' # Recorded(a, "start") => InForce(a) /\ ReadsBack(a)
        /\ Recorded(a, "stop")' # Recorded(a, "stop") =>
             ~InForce(a) /\ ReadsBack(NoAction)
<1>1. ASSUME Typed, EffectsLast, Next
      PROVE  Step
  <2>1. ASSUME NEW a \in Actions, NEW phase \in Phases,
               Recorded(a, phase)' # Recorded(a, phase), NEW delay,
               Kind[a] = "redis_enqueue_delay" => keys["redis_enqueue_delay"] = delay
        PROVE  ReadsBack(delay)
    <3>1. At("post") /\ call.op # "boundary" /\ call.action = a
          /\ evidence' = Append(evidence, Record)
      BY <1>1, <2>1, OnlyPostRecords
    <3>2. evidence \in Seq(Records)
      BY <1>1 DEF Typed, TypeOK
    <3>3. DOMAIN evidence' \ DOMAIN evidence = {Len(evidence) + 1}
          /\ evidence'[Len(evidence) + 1] = Record
      BY <3>1, <3>2
    <3>4. Record.action = a /\ Record.delay = keys["redis_enqueue_delay"]
      BY <1>1, <3>1 DEF Record, At, EffectsLast, DelayDue
    <3> QED
      BY <2>1, <3>3, <3>4 DEF ReadsBack
  <2>2. ASSUME NEW a \in Actions, Recorded(a, "start")' # Recorded(a, "start")
        PROVE  InForce(a) /\ ReadsBack(a)
    <3>1. At("post") /\ call.op = "command" /\ call.phase = "start" /\ call.action = a
      BY <1>1, <2>2, OnlyPostRecords DEF Phases
    <3>2. InForce(a)
      BY <1>1, <3>1 DEF EffectsLast, StartDue, At
    <3> QED
      BY <2>1, <2>2, <3>2 DEF InForce, Phases
  <2>3. ASSUME NEW a \in Actions, Recorded(a, "stop")' # Recorded(a, "stop")
        PROVE  ~InForce(a) /\ ReadsBack(NoAction)
    <3>1. /\ At("post") /\ call.action = a
          /\ call.op = "close" \/ (call.op = "command" /\ call.phase = "stop")
      BY <1>1, <2>3, OnlyPostRecords DEF Phases
    <3>2. Undone(a)
      BY <1>1, <3>1 DEF EffectsLast, StopDue, At
    <3>3. ~InForce(a)
      BY <3>2, ActionsAssumption DEF Undone, InForce
    <3> QED
      BY <2>1, <2>3, <3>2, <3>3 DEF Undone, Phases
  <2> QED
    BY <2>2, <2>3
<1>2. ASSUME UNCHANGED vars
      PROVE  [Step]_vars
  BY <1>2
<1> HIDE DEF Step
<1>3. Spec => [][Step]_vars
  BY <1>1, <1>2, EffectsHold, PTL DEF Spec
<1> QED
  BY <1>3 DEF EvidenceFollowsEffect, Step
-----------------------------------------------------------------------------
(* The evidence and the controller's memory *)

(* A command that is under way has not been recorded yet. *)
CommandIsFresh ==
  /\ call.op = "command" /\ call.step \in Starting \cup {"stop", "readback", "post"}
       => <<call.action, call.phase>> \notin commandIds
  /\ call.op = "close" /\ call.step \in {"readback", "post"}
       => <<call.action, "stop">> \notin commandIds

Indicator(b) == IF b THEN 1 ELSE 0

(* A command id stands for a record, and each further record of the command *)
(* for a POST that failed after the collector had stored it.                *)
RecordsAreCounted ==
  \A a \in Actions, phase \in Phases :
    /\ <<a, phase>> \in commandIds => Recorded(a, phase) # {}
    /\ Cardinality(Recorded(a, phase)) <= Indicator(<<a, phase>> \in commandIds) + faults

(* The actions that the command ids say are active. *)
Open == {a \in Actions : <<a, "start">> \in commandIds /\ <<a, "stop">> \notin commandIds}

(* The action whose start, or whose stop, is done and not recorded. *)
StartPending ==
  call.op = "command" /\ call.phase = "start" /\ call.step \in {"readback", "post"}
StopPending ==
  \/ call.op = "command" /\ call.phase = "stop" /\ call.step \in {"readback", "post"}
  \/ call.op = "close" /\ call.step \in {"stop", "readback", "post"}

(* As long as no call failed, the controller's memory differs from its *)
(* command ids by the action whose record is due.                      *)
MemoryAgrees ==
  faults = 0 =>
    /\ \A a \in Actions : /\ session[a] # "closed"
                          /\ <<a, "stop">> \in commandIds => <<a, "start">> \in commandIds
    /\ StartPending => active = Open \cup {call.action}
    /\ StopPending => call.action \in Open /\ active = Open \ {call.action}
    /\ ~StartPending /\ ~StopPending => active = Open

(* The workers that the start of an action named are the ones the controller *)
(* remembers, and the ones that a stop under way is about to name.           *)
WorkersAgree ==
  faults = 0 =>
    /\ \A a \in active : \A i \in Recorded(a, "start") : evidence[i].workers = realized[a]
    /\ StartPending => call.workers = realized[call.action]
    /\ StopPending \/ call.step = "stop" =>
         \A i \in Recorded(call.action, "start") : evidence[i].workers = call.workers
    /\ \A a \in Actions : \A i \in Recorded(a, "start"), j \in Recorded(a, "stop") :
         i < j => evidence[i].workers = evidence[j].workers

(* A pause names some of the workers that were registered when it began, and *)
(* of those as many as its magnitude asks for: from the choice on, and as     *)
(* long as the action is active.                                              *)
AsAsked(a, workers) ==
  /\ workers # {} /\ workers \subseteq registered[a]
  /\ Cardinality(workers) = PauseCount(Cardinality(registered[a]))

PausesAsAsked ==
  /\ \A a \in active : Kind[a] = "worker_pause" => AsAsked(a, realized[a])
  /\ call.step \in {"clear", "pause"} => AsAsked(call.action, call.workers)

(* What the end of a method and a move to its next step leave of the call. *)
LEMMA CallMoves ==
  ASSUME call \in Calls, NEW step
  PROVE  /\ Goto(step) => /\ call'.step = step /\ call'.op = call.op
                          /\ call'.action = call.action /\ call'.phase = call.phase
                          /\ call'.workers = call.workers
         /\ Ends(step) => call'.step = step /\ call'.op = call.op
BY DEF Calls, Goto, Ends

(* The POST appends one record, of the command in progress. *)
LEMMA PostAppends ==
  ASSUME Typed, At("post"), evidence' = Append(evidence, Record)
  PROVE  LET n == Len(evidence) + 1
             phase == IF call.op = "close" THEN "stop" ELSE call.phase
         IN  /\ evidence'[n] = Record
             /\ n \notin 1 .. Len(evidence)
             /\ \A i \in 1 .. Len(evidence) : evidence'[i] = evidence[i] /\ i < n
             /\ \A a \in Actions, p \in Phases :
                  Recorded(a, p)' =
                    IF call.op # "boundary" /\ a = call.action /\ p = phase
                    THEN Recorded(a, p) \cup {n} ELSE Recorded(a, p)
<1> DEFINE n == Len(evidence) + 1
           phase == IF call.op = "close" THEN "stop" ELSE call.phase
<1>1. evidence \in Seq(Records) /\ Record \in Records
  BY RecordType DEF Typed, TypeOK, Shape
<1>2. /\ Len(evidence') = n /\ Len(evidence) \in Nat
      /\ evidence'[n] = Record
      /\ n \notin 1 .. Len(evidence)
      /\ \A i \in 1 .. Len(evidence) : evidence'[i] = evidence[i] /\ i < n
  BY <1>1
<1>3. 1 .. Len(evidence') = (1 .. Len(evidence)) \cup {n}
  BY <1>2
<1>4. ASSUME NEW a \in Actions, NEW p \in Phases
      PROVE  /\ Record.event = "command" /\ Record.action = a /\ Record.phase = p
                <=> call.op # "boundary" /\ a = call.action /\ p = phase
  BY DEF Record, At, Typed, Shape, EvidenceShape
<1> HIDE DEF n, phase
<1>5. ASSUME NEW a \in Actions, NEW p \in Phases
      PROVE  Recorded(a, p)' = IF call.op # "boundary" /\ a = call.action /\ p = phase
                               THEN Recorded(a, p) \cup {n} ELSE Recorded(a, p)
  <2>1. Recorded(a, p)' = {i \in (1 .. Len(evidence)) \cup {n} :
                             /\ evidence'[i].event = "command"
                             /\ evidence'[i].action = a
                             /\ evidence'[i].phase = p}
    BY <1>2, <1>3 DEF Recorded
  <2>2. CASE call.op # "boundary" /\ a = call.action /\ p = phase
    <3>1. Record.event = "command" /\ Record.action = a /\ Record.phase = p
      BY <1>4, <2>2
    <3> QED
      BY <1>2, <2>1, <2>2, <3>1 DEF Recorded
  <2>3. CASE ~(call.op # "boundary" /\ a = call.action /\ p = phase)
    <3>1. ~(Record.event = "command" /\ Record.action = a /\ Record.phase = p)
      BY <1>4, <2>3
    <3> QED
      BY <1>2, <2>1, <2>3, <3>1 DEF Recorded
  <2> QED
    BY <2>2, <2>3
<1> QED
  BY <1>2, <1>5 DEF n, phase

(* Every other step records nothing. *)
LEMMA OthersRecordNothing ==
  ASSUME Next, ~Post
  PROVE  UNCHANGED <<evidence, commandIds>>
BY StepsOfNext
   DEF CallStep, Command, Boundary, Close, WorkersRegister, WorkerLocks, Proceed,
       SelectWorkers, ClearPaused, PauseWorkers, TakeLock, SetKey, StopLock, StopKey,
       Readback, Sweep, Wipe, memory

(* No step takes back a failure; one without a failure is a call that worked, *)
(* a call of the interface, a step of the loop or one of the workers'.        *)
LEMMA FaultsGrow ==
  ASSUME Typed, Next
  PROVE  /\ faults \in Nat /\ faults' \in Nat /\ faults <= faults'
         /\ faults' = 0 => faults = 0 /\ ~Breaks
<1>1. faults \in Nat
  BY FaultsAssumption DEF Typed, TypeOK
<1>2. UNCHANGED faults \/ Works \/ Breaks
  BY StepsOfNext
     DEF CallStep, Command, Boundary, Close, WorkersRegister, WorkerLocks, Proceed,
         SelectWorkers, ClearPaused, PauseWorkers, TakeLock, SetKey, StopLock, StopKey,
         Readback, Post, Sweep, Wipe
<1> QED
  BY <1>1, <1>2 DEF Works, Breaks

(* The records of a command are finitely many. *)
LEMMA RecordedFinite ==
  ASSUME Typed, NEW a, NEW phase
  PROVE  IsFiniteSet(Recorded(a, phase)) /\ Cardinality(Recorded(a, phase)) \in Nat
<1>1. Len(evidence) \in Nat
  BY DEF Typed, TypeOK
<1>2. IsFiniteSet(1 .. Len(evidence))
  BY <1>1, FS_Interval
<1>3. Recorded(a, phase) \in SUBSET (1 .. Len(evidence))
  BY DEF Recorded
<1> QED
  BY <1>2, <1>3, FS_Subset, FS_CardinalityType

(* A command that begins, or that moves on, is still not recorded. *)
LEMMA FreshStep ==
  ASSUME Typed, CommandIsFresh, Next
  PROVE  CommandIsFresh'
<1> USE DEF CommandIsFresh, Starting
<1>0. call \in Calls
  BY DEF Typed, TypeOK
<1>1. CASE \E a \in Actions, phase \in Phases : Command(a, phase, IndexOf(a, phase))
  BY <1>1 DEF Command, Begin, Refused, memory
<1>2. CASE \E phase \in {"started", "closed"} : Boundary(phase)
  BY <1>2 DEF Boundary, Begin
<1>3. CASE Close
  BY <1>3 DEF Close, Begin
<1>4. CASE WorkersRegister \/ WorkerLocks
  BY <1>4 DEF WorkersRegister, WorkerLocks, memory
<1>5. CASE Raises \/ Returns
  BY <1>0, <1>5, CallMoves DEF Raises, Returns
<1>6. ASSUME UNCHANGED commandIds,
             \/ /\ call.step \in Starting \cup {"readback"}
                /\ call' = [call EXCEPT !.step = call'.step]
             \/ /\ call.step = "readback"
                /\ call' = [call EXCEPT !.step = "post", !.delay = call'.delay]
             \/ /\ call.step = "select"
                /\ call' = [call EXCEPT !.step = "clear", !.workers = call'.workers]
      PROVE  CommandIsFresh'
  <2>1. call'.op = call.op /\ call'.action = call.action /\ call'.phase = call.phase
    BY <1>0, <1>6 DEF Calls
  <2>2. call.step \in Starting => call.op = "command"
    BY DEF Typed, Shape, StartShape
  <2> QED
    BY <1>6, <2>1, <2>2
<1>7. CASE SelectWorkers /\ ~Raises
  BY <1>0, <1>6, <1>7 DEF SelectWorkers, At, memory, Calls
<1>8. CASE (ClearPaused \/ PauseWorkers \/ TakeLock \/ SetKey) /\ ~Raises
  <2>1. call.step \in Starting /\ UNCHANGED commandIds
        /\ \E step \in {"pause", "readback"} : Goto(step)
    BY <1>8 DEF ClearPaused, PauseWorkers, TakeLock, SetKey, Activate, At, memory
  <2>2. PICK step \in {"pause", "readback"} : Goto(step)
    BY <2>1
  <2> QED
    BY <1>0, <1>6, <2>1, <2>2 DEF Goto, Calls
<1>9. CASE (StopLock \/ StopKey) /\ ~Raises
  <2>1. StopReturns /\ UNCHANGED commandIds /\ call.step = "stop"
    BY <1>9 DEF StopLock, StopKey, StopRaises, At
  <2>2. PICK step \in {"sweep", "readback"} :
          /\ Goto(step)
          /\ call.op = "close" /\ <<call.action, "stop">> \in commandIds => step = "sweep"
    BY <2>1 DEF StopReturns
  <2>3. call'.step = step /\ call'.op = call.op /\ call'.action = call.action
        /\ call'.phase = call.phase
    BY <1>0, <2>2, CallMoves
  <2> QED
    BY <2>1, <2>2, <2>3
<1>10. CASE Readback /\ ~Raises
  BY <1>0, <1>6, <1>10 DEF Readback, At, memory, Calls
<1>11. CASE Post /\ ~Raises
  BY <1>0, <1>5, <1>11, CallMoves DEF Post
<1>12. CASE Sweep
  <2>1. call.op = "close"
    BY <1>12 DEF Sweep, At, Typed, Shape, SweepShape
  <2> QED
    BY <1>0, <1>12, <2>1 DEF Sweep, Goto, Calls
<1>13. CASE Wipe /\ ~Raises
  BY <1>5, <1>13 DEF Wipe
<1> QED
  BY <1>1, <1>2, <1>3, <1>4, <1>5, <1>7, <1>8, <1>9, <1>10, <1>11, <1>12, <1>13, StepsOfNext
     DEF CallStep, Proceed

(* The POST adds a record and its command id, or a record and a failure. *)
LEMMA CountedStep ==
  ASSUME Typed, CommandIsFresh, RecordsAreCounted, Next
  PROVE  RecordsAreCounted'
<1>0. /\ faults \in Nat /\ faults' \in Nat /\ faults <= faults'
  BY FaultsGrow
<1>1. CASE UNCHANGED <<evidence, commandIds>>
  <2>1. ASSUME NEW a \in Actions, NEW phase \in Phases
        PROVE  /\ UNCHANGED Recorded(a, phase)
               /\ UNCHANGED Indicator(<<a, phase>> \in commandIds)
               /\ Indicator(<<a, phase>> \in commandIds) \in Nat
               /\ Cardinality(Recorded(a, phase)) \in Nat
    <3>1. UNCHANGED Recorded(a, phase)
      BY <1>1 DEF Recorded
    <3>2. Cardinality(Recorded(a, phase)) \in Nat
      BY RecordedFinite
    <3> QED
      BY <1>1, <3>1, <3>2 DEF Indicator
  <2>2. ASSUME NEW a \in Actions, NEW phase \in Phases
        PROVE  /\ Cardinality(Recorded(a, phase))'
                   <= Indicator(<<a, phase>> \in commandIds)' + faults'
               /\ <<a, phase>> \in commandIds' => Recorded(a, phase)' # {}
    <3>1. /\ Cardinality(Recorded(a, phase))
                   <= Indicator(<<a, phase>> \in commandIds) + faults
          /\ <<a, phase>> \in commandIds => Recorded(a, phase) # {}
      BY DEF RecordsAreCounted
    <3> HIDE DEF Recorded, Indicator
    <3> QED
      BY <1>0, <1>1, <2>1, <3>1
  <2> QED
    BY <2>2 DEF RecordsAreCounted
<1>2. CASE Post /\ ~UNCHANGED <<evidence, commandIds>>
  <2> DEFINE phase == IF call.op = "close" THEN "stop" ELSE call.phase
             n == Len(evidence) + 1
             due == call.op # "boundary"
  <2>1. /\ At("post") /\ evidence' = Append(evidence, Record)
        /\ \/ Works /\ commandIds' = IF due THEN commandIds \cup {<<call.action, phase>>}
                                     ELSE commandIds
           \/ Breaks /\ UNCHANGED commandIds
    BY <1>2 DEF Post, MayApply, Record
  <2>2. /\ n \notin 1 .. Len(evidence)
        /\ \A a \in Actions, p \in Phases :
             Recorded(a, p)' = IF due /\ a = call.action /\ p = phase
                               THEN Recorded(a, p) \cup {n} ELSE Recorded(a, p)
    BY <2>1, PostAppends
  <2>3. due => <<call.action, phase>> \notin commandIds
    BY <2>1 DEF At, CommandIsFresh, Typed, Shape, EvidenceShape
  <2> HIDE DEF phase, n, due
  <2>4. ASSUME NEW a \in Actions, NEW p \in Phases
        PROVE  /\ Cardinality(Recorded(a, p)')
                   <= Indicator(<<a, p>> \in commandIds') + faults'
               /\ <<a, p>> \in commandIds' => Recorded(a, p)' # {}
    <3>1. /\ Cardinality(Recorded(a, p)) <= Indicator(<<a, p>> \in commandIds) + faults
          /\ <<a, p>> \in commandIds => Recorded(a, p) # {}
      BY DEF RecordsAreCounted
    <3>2. IsFiniteSet(Recorded(a, p)) /\ Cardinality(Recorded(a, p)) \in Nat
      BY RecordedFinite
    <3>3. CASE due /\ a = call.action /\ p = phase
      <4>1. Recorded(a, p)' = Recorded(a, p) \cup {n} /\ n \notin Recorded(a, p)
        BY <2>2, <3>3 DEF Recorded
      <4>2. Cardinality(Recorded(a, p)') = Cardinality(Recorded(a, p)) + 1
        BY <3>2, <4>1, FS_AddElement
      <4>3. Indicator(<<a, p>> \in commandIds) = 0
        BY <2>3, <3>3 DEF Indicator
      <4>4. \/ faults' = faults /\ Indicator(<<a, p>> \in commandIds') = 1
            \/ faults' = faults + 1 /\ Indicator(<<a, p>> \in commandIds') = 0
        BY <2>1, <2>3, <3>3 DEF Works, Breaks, Indicator
      <4>5. Recorded(a, p)' # {}
        BY <4>1
      <4> HIDE DEF Recorded, Indicator
      <4> QED
        BY <1>0, <3>1, <3>2, <4>2, <4>3, <4>4, <4>5
    <3>4. CASE ~(due /\ a = call.action /\ p = phase)
      <4>1. Recorded(a, p)' = Recorded(a, p)
        BY <2>2, <3>4
      <4>2. <<a, p>> \in commandIds' <=> <<a, p>> \in commandIds
        BY <2>1, <3>4
      <4>3. Indicator(<<a, p>> \in commandIds') = Indicator(<<a, p>> \in commandIds)
            /\ Indicator(<<a, p>> \in commandIds) \in Nat
        BY <4>2 DEF Indicator
      <4> HIDE DEF Recorded, Indicator
      <4> QED
        BY <1>0, <3>1, <3>2, <4>1, <4>2, <4>3
    <3> QED
      BY <3>3, <3>4
  <2> QED
    BY <2>4 DEF RecordsAreCounted, Recorded, Indicator
<1> QED
  BY <1>1, <1>2, OthersRecordNothing

(* A call or a step of the loop changes the memory as the records do not, and *)
(* the record that is due makes up for it.                                    *)
LEMMA MemoryStep ==
  ASSUME Typed, CommandIsFresh, MemoryAgrees, Next
  PROVE  MemoryAgrees'
<1> SUFFICES ASSUME faults' = 0
             PROVE  /\ \A a \in Actions :
                         /\ session'[a] # "closed"
                         /\ <<a, "stop">> \in commandIds' => <<a, "start">> \in commandIds'
                    /\ StartPending' => active' = Open' \cup {call'.action}
                    /\ StopPending' => call'.action \in Open' /\ active' = Open' \ {call'.action}
                    /\ ~StartPending' /\ ~StopPending' => active' = Open'
  BY DEF MemoryAgrees
<1> USE DEF StartPending, StopPending
<1>0. /\ ~Breaks
      /\ \A a \in Actions : /\ session[a] # "closed"
                            /\ <<a, "stop">> \in commandIds => <<a, "start">> \in commandIds
      /\ StartPending => active = Open \cup {call.action}
      /\ StopPending => call.action \in Open /\ active = Open \ {call.action}
      /\ ~StartPending /\ ~StopPending => active = Open
  BY FaultsGrow DEF MemoryAgrees
<1>1. call \in Calls /\ session \in [Actions -> {"none", "open", "closed"}]
  BY DEF Typed, TypeOK
<1>2. UNCHANGED commandIds => UNCHANGED Open
  BY DEF Open
<1>3. CASE CallStep
  <2>1. Idle /\ UNCHANGED memory
    BY <1>3 DEF CallStep, Command, Boundary, Close
  <2>2. ~(call'.step \in {"readback", "post"} /\ call'.op \in {"command", "close"})
        /\ ~(call'.op = "close" /\ call'.step = "stop")
    BY <1>3 DEF CallStep, Command, Boundary, Close, Begin, FirstStep
  <2> QED
    BY <1>0, <1>2, <2>1, <2>2 DEF Idle, memory
<1>4. CASE WorkersRegister \/ WorkerLocks
  BY <1>0, <1>2, <1>4 DEF WorkersRegister, WorkerLocks, memory
<1>5. CASE SelectWorkers \/ ClearPaused
  <2>1. /\ UNCHANGED <<active, session, commandIds>>
        /\ call.op = "command" /\ call.step \in {"select", "clear"}
    BY <1>5 DEF SelectWorkers, ClearPaused, At, Typed, Shape, StartShape, Starting, memory
  <2>2. call'.op = "command" /\ call'.step \in {"clear", "pause", "raised"}
    <3>1. \/ Raises \/ Goto("pause")
          \/ \E chosen : call' = [call EXCEPT !.step = "clear", !.workers = chosen]
      BY <1>5 DEF SelectWorkers, ClearPaused
    <3>2. CASE Raises \/ Goto("pause")
      BY <1>1, <2>1, <3>2, CallMoves DEF Raises
    <3>3. CASE \E chosen : call' = [call EXCEPT !.step = "clear", !.workers = chosen]
      BY <1>1, <2>1, <3>3 DEF Calls
    <3> QED
      BY <3>1, <3>2, <3>3
  <2> QED
    BY <1>0, <1>2, <2>1, <2>2 DEF memory
<1>6. CASE PauseWorkers \/ TakeLock \/ SetKey
  <2>1. /\ UNCHANGED commandIds /\ call.step \in Starting
        /\ \E lock \in {"none", "open"} : Activate(lock)
    BY <1>0, <1>6 DEF PauseWorkers, TakeLock, SetKey, At, Starting
  <2>2. PICK lock \in {"none", "open"} : Activate(lock)
    BY <2>1
  <2>3. call.op = "command" /\ call.phase = "start" /\ call.action \in Actions
    BY <2>1 DEF Typed, Shape, StartShape
  <2>4. /\ active' = active \cup {call.action}
        /\ session' = [session EXCEPT ![call.action] = lock]
        /\ call'.step = "readback" /\ call'.op = call.op /\ call'.action = call.action
        /\ call'.phase = call.phase
    BY <1>1, <2>2, CallMoves DEF Activate
  <2>5. ~StartPending /\ ~StopPending
    BY <2>1, <2>3 DEF Starting
  <2>6. \A a \in Actions : session'[a] # "closed"
    BY <1>0, <1>1, <2>4
  <2> QED
    BY <1>0, <1>2, <2>1, <2>3, <2>4, <2>5, <2>6
<1>7. CASE StopLock \/ StopKey
  <2>1. call.step = "stop" /\ UNCHANGED commandIds /\ call.action \in Actions
    BY <1>7 DEF StopLock, StopKey, At, Typed, Shape, StopShape
  <2>2. StopReturns
    BY <1>0, <1>7, <2>1 DEF StopLock, StopKey
  <2>3. \/ call.op = "command" /\ call.phase = "stop" /\ call.action \in active
        \/ call.op = "close"
    BY <2>1 DEF Typed, Shape, StopShape
  <2>4. call.action \in Open /\ active \ {call.action} = Open \ {call.action}
    BY <1>0, <2>1, <2>3
  <2>5. active' = active \ {call.action}
        /\ session' = [session EXCEPT ![call.action] = "none"]
        /\ Goto("readback")
    BY <2>2, <2>4 DEF StopReturns, Forget, Open
  <2>6. call'.step = "readback" /\ call'.op = call.op /\ call'.action = call.action
        /\ call'.phase = call.phase
    BY <1>1, <2>5, CallMoves
  <2>7. \A a \in Actions : session'[a] # "closed"
    BY <1>0, <1>1, <2>5
  <2> QED
    BY <1>0, <1>2, <2>1, <2>3, <2>4, <2>5, <2>6, <2>7
<1>8. CASE Readback
  <2>1. UNCHANGED memory /\ call.step = "readback"
        /\ call' = [call EXCEPT !.step = "post", !.delay = keys["redis_enqueue_delay"]]
    BY <1>0, <1>8 DEF Readback, At
  <2>2. call'.step = "post" /\ call'.op = call.op /\ call'.action = call.action
        /\ call'.phase = call.phase
    BY <1>1, <2>1 DEF Calls
  <2> QED
    BY <1>0, <1>2, <2>1, <2>2 DEF memory
<1>9. CASE Post
  <2>1. /\ call.step = "post" /\ UNCHANGED <<active, session>>
        /\ commandIds' = IF call.op = "boundary" THEN commandIds
                         ELSE commandIds \cup {<<call.action, Record.phase>>}
        /\ Goto("sweep") \/ Returns
    BY <1>0, <1>9 DEF Post, At
  <2>2. call'.op = call.op /\ call'.step \in {"sweep", "returned"}
    BY <1>1, <2>1, CallMoves DEF Returns
  <2>3. CASE call.op = "boundary"
    BY <1>0, <1>2, <2>1, <2>2, <2>3
  <2>4. CASE call.op = "command" /\ call.phase = "start"
    <3>1. commandIds' = commandIds \cup {<<call.action, "start">>} /\ call.action \in Actions
      BY <2>1, <2>4 DEF Record, Typed, Shape, EvidenceShape
    <3>2. <<call.action, "start">> \notin commandIds
      BY <2>1, <2>4 DEF CommandIsFresh
    <3>3. <<call.action, "stop">> \notin commandIds
      BY <1>0, <3>1, <3>2
    <3>4. Open' = Open \cup {call.action}
      BY <3>1, <3>3 DEF Open
    <3> QED
      BY <1>0, <2>1, <2>2, <2>4, <3>1, <3>4
  <2>5. CASE call.op = "close" \/ (call.op = "command" /\ call.phase = "stop")
    <3>1. commandIds' = commandIds \cup {<<call.action, "stop">>} /\ call.action \in Actions
      BY <2>1, <2>5 DEF Record, Typed, Shape, EvidenceShape
    <3>2. call.action \in Open /\ active = Open \ {call.action}
      BY <1>0, <2>1, <2>5
    <3>3. Open' = Open \ {call.action}
      BY <3>1 DEF Open
    <3>4. \A a \in Actions : <<a, "stop">> \in commandIds' => <<a, "start">> \in commandIds'
      BY <1>0, <3>1, <3>2 DEF Open
    <3> QED
      BY <1>0, <2>1, <2>2, <3>2, <3>3, <3>4
  <2> QED
    BY <2>1, <2>3, <2>4, <2>5 DEF Typed, Shape, EvidenceShape, Phases
<1>10. CASE Sweep
  <2>1. call.op = "close" /\ call.step = "sweep" /\ UNCHANGED <<session, commandIds>>
    BY <1>10 DEF Sweep, At, Typed, Shape, SweepShape
  <2>2. \/ call'.op = "close" /\ call'.step = "wipe" /\ active' = active
        \/ \E a \in active : /\ active' = active \ {a} /\ call'.op = "close"
                             /\ call'.step = "stop" /\ call'.action = a
    BY <1>1, <1>10, <2>1 DEF Sweep, Goto, Calls
  <2> QED
    BY <1>0, <1>2, <2>1, <2>2
<1>11. CASE Wipe
  <2>1. UNCHANGED memory /\ call.op = "close" /\ call.step = "wipe"
        /\ call'.step = "returned" /\ call'.op = "close"
    BY <1>0, <1>1, <1>11, CallMoves DEF Wipe, At, Returns, Typed, Shape, SweepShape
  <2> QED
    BY <1>0, <1>2, <2>1 DEF memory
<1> QED
  BY <1>3, <1>4, <1>5, <1>6, <1>7, <1>8, <1>9, <1>10, <1>11, StepsOfNext DEF Proceed

(* The workers of an active action are those its start named, and a stop *)
(* names them again.                                                      *)
LEMMA WorkersStep ==
  ASSUME Typed, CommandIsFresh, RecordsAreCounted, MemoryAgrees, WorkersAgree, Next
  PROVE  WorkersAgree'
<1> SUFFICES ASSUME faults' = 0
             PROVE  /\ \A a \in active' : \A i \in Recorded(a, "start")' :
                         evidence'[i].workers = realized'[a]
                    /\ StartPending' => call'.workers = realized'[call'.action]
                    /\ StopPending' \/ call'.step = "stop" =>
                         \A i \in Recorded(call.action, "start")' :
                           evidence'[i].workers = call'.workers
                    /\ \A a \in Actions : \A i \in Recorded(a, "start")', j \in Recorded(a, "stop")' :
                         i < j => evidence'[i].workers = evidence'[j].workers
  BY DEF WorkersAgree, Recorded
<1> USE DEF StartPending, StopPending
<1>0. /\ ~Breaks /\ faults = 0
      /\ \A a \in active : \A i \in Recorded(a, "start") : evidence[i].workers = realized[a]
      /\ StartPending => call.workers = realized[call.action]
      /\ StopPending \/ call.step = "stop" =>
           \A i \in Recorded(call.action, "start") : evidence[i].workers = call.workers
      /\ \A a \in Actions : \A i \in Recorded(a, "start"), j \in Recorded(a, "stop") :
           i < j => evidence[i].workers = evidence[j].workers
  BY FaultsGrow DEF WorkersAgree
<1>1. /\ call \in Calls /\ realized \in [Actions -> SUBSET Workers]
      /\ active \in SUBSET Actions
  BY DEF Typed, TypeOK
<1>2. UNCHANGED evidence => \A a, phase : UNCHANGED Recorded(a, phase)
  BY DEF Recorded
<1>3. CASE CallStep
  <2>1. Idle /\ UNCHANGED <<memory, evidence>>
    BY <1>3 DEF CallStep, Command, Boundary, Close
  <2>2. CASE \E a \in Actions, phase \in Phases : Command(a, phase, IndexOf(a, phase))
    <3>1. PICK a \in Actions, phase \in Phases : Command(a, phase, IndexOf(a, phase))
      BY <2>2
    <3>2. CASE Refused(a, phase)
      BY <1>0, <1>2, <2>1, <3>1, <3>2 DEF Command, Begin, memory
    <3>3. CASE ~Refused(a, phase)
      <4>1. /\ call'.step = FirstStep(a, phase) /\ call'.op = "command"
            /\ call'.action = a /\ call'.workers = realized[a]
        BY <3>1, <3>3 DEF Command
      <4>2. /\ call'.step \notin {"readback", "post"}
            /\ call'.step = "stop" => phase = "stop"
        BY <4>1 DEF FirstStep
      <4>3. call'.step = "stop" => a \in active
        BY <3>3, <4>2 DEF Refused
      <4> QED
        BY <1>0, <1>2, <2>1, <4>1, <4>2, <4>3 DEF memory
    <3> QED
      BY <3>2, <3>3
  <2>3. CASE (\E phase \in {"started", "closed"} : Boundary(phase)) \/ Close
    <3>1. call'.step \in {"readback", "sweep"} /\ call'.op = "close" => call'.step = "sweep"
      BY <2>3 DEF Boundary, Close, Begin
    <3>2. call'.op \in {"boundary", "close"} /\ call'.step # "stop"
      BY <2>3 DEF Boundary, Close, Begin
    <3>3. ~StartPending' /\ ~StopPending'
      BY <2>3 DEF Boundary, Close, Begin
    <3> QED
      BY <1>0, <1>2, <2>1, <3>2, <3>3 DEF memory
  <2> QED
    BY <1>3, <2>2, <2>3 DEF CallStep
<1>4. CASE WorkersRegister \/ WorkerLocks
  BY <1>0, <1>2, <1>4 DEF WorkersRegister, WorkerLocks, memory
<1>5. CASE SelectWorkers \/ ClearPaused
  <2>1. /\ UNCHANGED <<active, realized, evidence>>
        /\ call.op = "command" /\ call.step \in {"select", "clear"}
    BY <1>5 DEF SelectWorkers, ClearPaused, At, Typed, Shape, StartShape, Starting, memory
  <2>2. call'.step \in {"clear", "pause", "raised"}
    <3>1. \/ Raises \/ Goto("pause")
          \/ \E chosen : call' = [call EXCEPT !.step = "clear", !.workers = chosen]
      BY <1>5 DEF SelectWorkers, ClearPaused
    <3>2. CASE Raises \/ Goto("pause")
      BY <1>1, <2>1, <3>2, CallMoves DEF Raises
    <3>3. CASE \E chosen : call' = [call EXCEPT !.step = "clear", !.workers = chosen]
      BY <1>1, <2>1, <3>3 DEF Calls
    <3> QED
      BY <3>1, <3>2, <3>3
  <2> QED
    BY <1>0, <1>2, <2>1, <2>2 DEF memory
<1>6. CASE PauseWorkers \/ TakeLock \/ SetKey
  <2>1. /\ UNCHANGED evidence /\ call.step \in Starting
        /\ \E lock \in {"none", "open"} : Activate(lock)
    BY <1>0, <1>6 DEF PauseWorkers, TakeLock, SetKey, At, Starting
  <2>2. call.op = "command" /\ call.phase = "start" /\ call.action \in Actions
        /\ call.action \notin active
    BY <2>1 DEF Typed, Shape, StartShape
  <2>3. /\ active' = active \cup {call.action}
        /\ realized' = [realized EXCEPT ![call.action] = call.workers]
        /\ call'.step = "readback" /\ call'.op = call.op /\ call'.action = call.action
        /\ call'.phase = call.phase /\ call'.workers = call.workers
    BY <1>1, <2>1, CallMoves DEF Activate
  <2>4. Recorded(call.action, "start") = {}
    <3>1. <<call.action, "start">> \notin commandIds
      BY <2>1, <2>2 DEF CommandIsFresh, Starting
    <3>2. Cardinality(Recorded(call.action, "start")) <= 0
      <4>1. Cardinality(Recorded(call.action, "start"))
              <= Indicator(<<call.action, "start">> \in commandIds) + faults
        BY <2>2 DEF RecordsAreCounted, Phases
      <4> QED
        BY <1>0, <3>1, <4>1 DEF Indicator
    <3>3. IsFiniteSet(Recorded(call.action, "start"))
          /\ Cardinality(Recorded(call.action, "start")) \in Nat
      BY RecordedFinite
    <3> QED
      BY <3>2, <3>3, FS_EmptySet
  <2>5. \A a \in active' : \A i \in Recorded(a, "start") : evidence[i].workers = realized'[a]
    BY <1>0, <1>1, <2>2, <2>3, <2>4
  <2>6. call'.workers = realized'[call'.action]
    BY <1>1, <2>2, <2>3
  <2>7. ~StopPending' /\ call'.step # "stop"
    BY <2>2, <2>3
  <2> QED
    BY <1>0, <1>2, <2>1, <2>5, <2>6, <2>7
<1>7. CASE StopLock \/ StopKey
  <2>1. call.step = "stop" /\ UNCHANGED evidence /\ call.action \in Actions
    BY <1>7 DEF StopLock, StopKey, At, Typed, Shape, StopShape
  <2>2. StopReturns
    <3>1. \A a \in Actions : session[a] # "closed"
      BY <1>0 DEF MemoryAgrees
    <3> QED
      BY <1>0, <1>7, <2>1, <3>1 DEF StopLock, StopKey
  <2>3. /\ active' = active \ {call.action}
        /\ realized' = [realized EXCEPT ![call.action] = {}]
        /\ \E step \in {"sweep", "readback"} : Goto(step)
    BY <2>2 DEF StopReturns, Forget
  <2>4. /\ call'.op = call.op /\ call'.action = call.action
        /\ call'.phase = call.phase /\ call'.workers = call.workers
    BY <1>1, <2>3, CallMoves
  <2>5. \A a \in active' : realized'[a] = realized[a] /\ a \in active
    BY <1>1, <2>3
  <2>6. ~StartPending'
    BY <2>1, <2>4 DEF Typed, Shape, StopShape
  <2>7. \A i \in Recorded(call'.action, "start") : evidence[i].workers = call'.workers
    BY <1>0, <2>1, <2>4
  <2> QED
    BY <1>0, <1>2, <2>1, <2>5, <2>6, <2>7
<1>8. CASE Readback
  <2>1. UNCHANGED <<memory, evidence>> /\ call.step = "readback"
        /\ call' = [call EXCEPT !.step = "post", !.delay = keys["redis_enqueue_delay"]]
    BY <1>0, <1>8 DEF Readback, At
  <2>2. /\ call'.step = "post" /\ call'.op = call.op /\ call'.action = call.action
        /\ call'.phase = call.phase /\ call'.workers = call.workers
    BY <1>1, <2>1 DEF Calls
  <2> QED
    BY <1>0, <1>2, <2>1, <2>2 DEF memory
<1>9. CASE Post
  <2> DEFINE phase == IF call.op = "close" THEN "stop" ELSE call.phase
             n == Len(evidence) + 1
  <2>1. /\ At("post") /\ evidence' = Append(evidence, Record)
        /\ UNCHANGED <<active, realized>> /\ (Goto("sweep") \/ Returns)
    BY <1>0, <1>9 DEF Post
  <2>2. call'.op = call.op /\ call'.step \in {"sweep", "returned"}
    BY <1>1, <2>1, CallMoves DEF Returns
  <2>3. /\ evidence'[n] = Record
        /\ n \notin 1 .. Len(evidence)
        /\ \A i \in 1 .. Len(evidence) : evidence'[i] = evidence[i] /\ i < n
        /\ \A a \in Actions, p \in Phases :
             Recorded(a, p)' = IF call.op # "boundary" /\ a = call.action /\ p = phase
                               THEN Recorded(a, p) \cup {n} ELSE Recorded(a, p)
    BY <2>1, PostAppends
  <2>4. \A a, p : Recorded(a, p) \subseteq 1 .. Len(evidence)
    BY DEF Recorded
  <2>5. n \in Int /\ \A i \in 1 .. Len(evidence) : i \in Int /\ ~(n < i)
    BY DEF Typed, TypeOK
  <2>6. ~StartPending' /\ ~StopPending' /\ call'.step # "stop"
    BY <2>2
  <2> HIDE DEF n
  <2> SUFFICES /\ \A a \in active : \A i \in Recorded(a, "start")' :
                    evidence'[i].workers = realized[a]
               /\ \A a \in Actions : \A i \in Recorded(a, "start")', j \in Recorded(a, "stop")' :
                    i < j => evidence'[i].workers = evidence'[j].workers
    BY <2>1, <2>6
  <2>7. CASE call.op = "boundary"
    <3>1. \A a \in Actions, p \in Phases : Recorded(a, p)' = Recorded(a, p)
      BY <2>3, <2>7
    <3> QED
      BY <1>0, <1>1, <2>3, <2>4, <3>1 DEF Phases
  <2>8. CASE call.op = "command" /\ call.phase = "start"
    <3>1. \A a \in Actions : /\ Recorded(a, "start")' = IF a = call.action
                                                       THEN Recorded(a, "start") \cup {n}
                                                       ELSE Recorded(a, "start")
                            /\ Recorded(a, "stop")' = Recorded(a, "stop")
      BY <2>3, <2>8 DEF Phases
    <3>2. evidence'[n].workers = call.workers /\ call.workers = realized[call.action]
      <4>1. Record.workers = call.workers
        BY <2>8 DEF Record
      <4>2. call.workers = realized[call.action]
        BY <1>0, <2>1, <2>8 DEF At
      <4> QED
        BY <2>3, <4>1, <4>2
    <3>3. \A a \in active : \A i \in Recorded(a, "start")' : evidence'[i].workers = realized[a]
      BY <1>0, <1>1, <2>3, <2>4, <3>1, <3>2
    <3>4. ASSUME NEW a \in Actions, NEW i \in Recorded(a, "start")', NEW j \in Recorded(a, "stop")',
                 i < j
          PROVE  evidence'[i].workers = evidence'[j].workers
      <4>1. j \in Recorded(a, "stop") /\ j \in 1 .. Len(evidence) /\ i # n
        BY <2>4, <2>5, <3>1, <3>4
      <4>2. i \in Recorded(a, "start") /\ i \in 1 .. Len(evidence)
        BY <2>4, <3>1, <4>1
      <4> QED
        BY <1>0, <2>3, <3>4, <4>1, <4>2
    <3> QED
      BY <3>3, <3>4
  <2>9. CASE call.op = "close" \/ (call.op = "command" /\ call.phase = "stop")
    <3>1. \A a \in Actions : /\ Recorded(a, "stop")' = IF a = call.action
                                                      THEN Recorded(a, "stop") \cup {n}
                                                      ELSE Recorded(a, "stop")
                            /\ Recorded(a, "start")' = Recorded(a, "start")
      BY <2>3, <2>9 DEF Phases
    <3>2. evidence'[n].workers = call.workers
      <4>1. call.op # "boundary"
        BY <2>9
      <4>2. Record.workers = call.workers
        BY <4>1 DEF Record
      <4> HIDE DEF n
      <4> QED
        BY <2>3, <4>2
    <3>3. \A i \in Recorded(call.action, "start") : evidence[i].workers = call.workers
      BY <1>0, <2>1, <2>9 DEF At
    <3>4. \A a \in active : \A i \in Recorded(a, "start")' : evidence'[i].workers = realized[a]
      BY <1>0, <1>1, <2>3, <2>4, <3>1
    <3>5. ASSUME NEW a \in Actions, NEW i \in Recorded(a, "start")', NEW j \in Recorded(a, "stop")',
                 i < j
          PROVE  evidence'[i].workers = evidence'[j].workers
      <4>1. i \in Recorded(a, "start") /\ evidence'[i].workers = evidence[i].workers
        BY <2>3, <2>4, <3>1
      <4>2. CASE j = n /\ a = call.action
        BY <3>2, <3>3, <4>1, <4>2
      <4>3. CASE j \in Recorded(a, "stop")
        BY <1>0, <2>3, <2>4, <3>5, <4>1, <4>3
      <4> QED
        BY <3>1, <4>2, <4>3
    <3> QED
      BY <3>4, <3>5
  <2> QED
    BY <2>1, <2>7, <2>8, <2>9 DEF At, Typed, Shape, EvidenceShape, Phases
<1>10. CASE Sweep
  <2>1. call.op = "close" /\ call.step = "sweep" /\ UNCHANGED <<realized, evidence>>
    BY <1>10 DEF Sweep, At, Typed, Shape, SweepShape
  <2>2. \/ call'.op = "close" /\ call'.step = "wipe" /\ active' = active
        \/ \E a \in active : /\ active' = active \ {a} /\ call'.op = "close"
                             /\ call'.step = "stop" /\ call'.action = a
                             /\ call'.workers = realized[a]
    <3>1. CASE Goto("wipe") /\ active' = active
      BY <1>1, <2>1, <3>1, CallMoves
    <3>2. CASE \E a \in active :
                 /\ active' = active \ {a}
                 /\ call' = [call EXCEPT !.action = a, !.index = Stop[a], !.step = "stop",
                                         !.workers = realized[a]]
      BY <1>1, <2>1, <3>2 DEF Calls
    <3> QED
      BY <1>10, <3>1, <3>2 DEF Sweep
  <2> QED
    BY <1>0, <1>2, <2>1, <2>2
<1>11. CASE Wipe
  <2>1. UNCHANGED <<memory, evidence>> /\ call'.step = "returned"
    BY <1>0, <1>1, <1>11, CallMoves DEF Wipe, Returns
  <2> QED
    BY <1>0, <1>2, <2>1 DEF memory
<1> QED
  BY <1>3, <1>4, <1>5, <1>6, <1>7, <1>8, <1>9, <1>10, <1>11, StepsOfNext DEF Proceed

(* A step that leaves the pauses alone and chooses no workers. *)
LEMMA QuietKeepsPauses ==
  ASSUME PausesAsAsked, UNCHANGED <<active, realized, registered>>,
         \/ call'.step \notin {"clear", "pause"}
         \/ UNCHANGED call
  PROVE  PausesAsAsked'
BY DEF PausesAsAsked, AsAsked

(* An action that leaves the controller takes its choice with it. *)
LEMMA ForgettingKeepsPauses ==
  ASSUME Typed, PausesAsAsked, NEW a \in Actions, active' = active \ {a},
         realized' \in {realized, [realized EXCEPT ![a] = {}]}, UNCHANGED registered,
         call'.step \notin {"clear", "pause"}
  PROVE  PausesAsAsked'
<1>1. active \in SUBSET Actions /\ realized \in [Actions -> SUBSET Workers]
  BY DEF Typed, TypeOK
<1>2. ASSUME NEW b \in active'
      PROVE  b \in active /\ realized'[b] = realized[b]
  <2>1. b \in active /\ b \in Actions /\ b # a
    BY <1>1, <1>2
  <2>2. [realized EXCEPT ![a] = {}][b] = realized[b]
    BY <1>1, <2>1
  <2> QED
    BY <2>1, <2>2
<1> QED
  BY <1>2 DEF PausesAsAsked, AsAsked

(* Only a pause of chosen workers makes a pause active. *)
LEMMA PauseStep ==
  ASSUME Typed, PausesAsAsked, Next
  PROVE  PausesAsAsked'
<1>1. /\ active \in SUBSET Actions /\ realized \in [Actions -> SUBSET Workers]
      /\ registered \in [Actions -> SUBSET Workers] /\ call \in Calls
  BY DEF Typed, TypeOK
<1>2. CASE PauseWorkers \/ TakeLock \/ SetKey
  <2>1. UNCHANGED registered /\ call'.step \notin {"clear", "pause"}
    BY <1>1, <1>2, CallMoves DEF PauseWorkers, TakeLock, SetKey, Raises, Activate
  <2>2. CASE Inactive
    BY <2>1, <2>2, QuietKeepsPauses DEF Inactive
  <2>3. CASE \E lock \in {"none", "open"} : Activate(lock)
    <3>1. /\ active' = active \cup {call.action}
          /\ realized' = [realized EXCEPT ![call.action] = call.workers]
      BY <2>3 DEF Activate
    <3>2. /\ call.action \in Actions
          /\ Kind[call.action] = "worker_pause" => call.step \in {"clear", "pause"}
      BY <1>2 DEF PauseWorkers, TakeLock, SetKey, At, Typed, Shape, StartShape, Starting,
                  KeyKinds
    <3> QED
      BY <1>1, <2>1, <3>1, <3>2 DEF PausesAsAsked, AsAsked
  <2> QED
    BY <1>2, <2>2, <2>3 DEF PauseWorkers, TakeLock, SetKey
<1>3. CASE StopLock \/ StopKey
  <2>1. call.action \in Actions
    BY <1>3 DEF StopLock, StopKey, At, Typed, Shape, StopShape
  <2>2. UNCHANGED registered /\ call'.step \notin {"clear", "pause"}
    BY <1>1, <1>3, CallMoves DEF StopLock, StopKey, StopReturns, StopRaises, Raises
  <2>3. CASE UNCHANGED <<active, realized>>
    BY <2>2, <2>3, QuietKeepsPauses
  <2>4. CASE Forget(call.action)
    BY <2>1, <2>2, <2>4, ForgettingKeepsPauses DEF Forget
  <2> QED
    BY <1>3, <2>3, <2>4 DEF StopLock, StopKey, StopReturns, StopRaises
<1>4. CASE Sweep
  <2>1. UNCHANGED <<realized, registered>> /\ call'.step \notin {"clear", "pause"}
    BY <1>1, <1>4 DEF Sweep, Goto, Calls
  <2>2. CASE UNCHANGED active
    BY <2>1, <2>2, QuietKeepsPauses
  <2>3. CASE \E a \in active : active' = active \ {a}
    BY <1>1, <2>1, <2>3, ForgettingKeepsPauses
  <2> QED
    BY <1>4, <2>2, <2>3 DEF Sweep
<1>5. CASE SelectWorkers
  <2>1. CASE Raises /\ UNCHANGED registered
    BY <1>5, <2>1, QuietKeepsPauses DEF SelectWorkers, Raises, Ends
  <2>2. CASE ~(Raises /\ UNCHANGED registered)
    <3>1. /\ instances \in SUBSET Workers /\ instances # {}
          /\ UNCHANGED <<active, realized>>
          /\ registered' = [registered EXCEPT ![call.action] = instances]
      BY <1>5, <2>2 DEF SelectWorkers, Typed, TypeOK
    <3>2. PICK chosen \in SUBSET instances :
            /\ Cardinality(chosen) = PauseCount(Cardinality(instances))
            /\ call' = [call EXCEPT !.step = "clear", !.workers = chosen]
      BY <1>5, <2>2 DEF SelectWorkers
    <3>3. chosen # {}
      BY <3>1, <3>2, PauseTakesSomeone
    <3>4. call.action \in Actions /\ call.action \notin active
      BY <1>5 DEF SelectWorkers, At, Typed, Shape, StartShape, Starting
    <3>5. call'.action = call.action /\ call'.workers = chosen
      BY <1>1, <3>2 DEF Calls
    <3>6. /\ registered'[call.action] = instances
          /\ \A a \in active : registered'[a] = registered[a]
      BY <1>1, <3>1, <3>4
    <3> HIDE DEF PauseCount
    <3> QED
      BY <3>1, <3>2, <3>3, <3>5, <3>6 DEF PausesAsAsked, AsAsked
  <2> QED
    BY <2>1, <2>2
<1>6. CASE ClearPaused
  <2>1. UNCHANGED <<active, realized, registered>> /\ call.step = "clear"
    BY <1>6 DEF ClearPaused, At, memory
  <2>2. CASE Raises
    BY <2>1, <2>2, QuietKeepsPauses DEF Raises, Ends
  <2>3. CASE Goto("pause")
    <3>1. call'.action = call.action /\ call'.workers = call.workers
      BY <1>1, <2>3, CallMoves
    <3> QED
      BY <2>1, <3>1 DEF PausesAsAsked, AsAsked
  <2> QED
    BY <1>6, <2>2, <2>3 DEF ClearPaused
<1>7. CASE CallStep \/ WorkersRegister \/ WorkerLocks
  <2>1. UNCHANGED <<active, realized, registered>>
    BY <1>7 DEF CallStep, Command, Boundary, Close, WorkersRegister, WorkerLocks, memory
  <2>2. UNCHANGED call \/ call'.step \notin {"clear", "pause"}
    BY <1>7 DEF CallStep, Command, Boundary, Close, WorkersRegister, WorkerLocks, Begin,
                FirstStep
  <2> QED
    BY <2>1, <2>2, QuietKeepsPauses
<1>8. CASE Readback \/ Post \/ Wipe
  <2>1. UNCHANGED <<active, realized, registered>>
    BY <1>8 DEF Readback, Post, Wipe, memory
  <2>2. call'.step \notin {"clear", "pause"}
    <3>1. CASE Raises \/ Returns
      BY <3>1 DEF Raises, Returns, Ends
    <3>2. CASE call' = [call EXCEPT !.step = "post", !.delay = keys["redis_enqueue_delay"]]
      BY <1>1, <3>2 DEF Calls
    <3>3. CASE Goto("sweep")
      BY <1>1, <3>3, CallMoves
    <3> QED
      BY <1>8, <3>1, <3>2, <3>3 DEF Readback, Post, Wipe
  <2> QED
    BY <2>1, <2>2, QuietKeepsPauses
<1> QED
  BY <1>2, <1>3, <1>4, <1>5, <1>6, <1>7, <1>8, StepsOfNext DEF Proceed

(* The books of the controller: command ids, records, memory and workers. *)
Books == CommandIsFresh /\ RecordsAreCounted /\ MemoryAgrees /\ WorkersAgree /\ PausesAsAsked

LEMMA BooksHold == Spec => [](Typed /\ Books)
<1> USE DEF Books
<1>1. Init => Books
  <2> SUFFICES ASSUME Init
               PROVE  Books
    OBVIOUS
  <2>1. CommandIsFresh /\ PausesAsAsked
    BY DEF Init, CommandIsFresh, Starting, PausesAsAsked
  <2>2. \A a, phase : Recorded(a, phase) = {}
    BY DEF Init, Recorded
  <2>3. RecordsAreCounted
    <3>1. \A a, phase : Cardinality(Recorded(a, phase)) = 0
      BY <2>2, FS_EmptySet
    <3>2. commandIds = {} /\ faults = 0
      BY DEF Init
    <3> HIDE DEF Recorded
    <3> QED
      BY <3>1, <3>2 DEF RecordsAreCounted, Indicator
  <2>4. MemoryAgrees
    BY DEF Init, MemoryAgrees, Open, StartPending, StopPending
  <2>5. WorkersAgree
    BY <2>2 DEF Init, WorkersAgree, StartPending, StopPending
  <2> QED
    BY <2>1, <2>3, <2>4, <2>5
<1>2. ASSUME Typed, EffectsLast, Books, [Next]_vars
      PROVE  Books'
  <2>1. CASE Next
    BY <1>2, <2>1, FreshStep, CountedStep, MemoryStep, WorkersStep, PauseStep
  <2>2. CASE UNCHANGED vars
    <3>1. UNCHANGED <<active, session, realized, registered, commandIds, evidence, call,
                      faults>>
      BY <2>2 DEF vars, memory
    <3>2. CommandIsFresh' /\ PausesAsAsked'
      BY <1>2, <3>1 DEF CommandIsFresh, PausesAsAsked, AsAsked
    <3>3. RecordsAreCounted'
      BY <1>2, <3>1 DEF RecordsAreCounted, Recorded, Indicator
    <3>4. MemoryAgrees'
      BY <1>2, <3>1 DEF MemoryAgrees, Open, StartPending, StopPending
    <3>5. WorkersAgree'
      BY <1>2, <3>1 DEF WorkersAgree, Recorded, StartPending, StopPending
    <3> QED
      BY <3>2, <3>3, <3>4, <3>5
  <2> QED
    BY <1>2, <2>1, <2>2
<1> QED
  BY <1>1, <1>2, EffectsHold, PTL DEF Spec

(* The evidence explains the memory: without a failed call the records of    *)
(* the collector alone tell which actions are active between two commands,   *)
(* and each failed call accounts for at most one repeated record (command,   *)
(* _emit, close and _command_ids).                                           *)
THEOREM EvidenceExplains == Spec => []EvidenceExplainsMemory
<1>1. ASSUME Typed, Books
      PROVE  EvidenceExplainsMemory
  <2>1. faults \in Nat
    BY <1>1, FaultsAssumption DEF Typed, TypeOK
  <2>2. ASSUME NEW a \in Actions, NEW phase \in Phases
        PROVE  /\ Cardinality(Recorded(a, phase)) <= 1 + faults
               /\ faults = 0 => (Recorded(a, phase) # {} <=> <<a, phase>> \in commandIds)
    <3>1. /\ Cardinality(Recorded(a, phase)) <= Indicator(<<a, phase>> \in commandIds) + faults
          /\ <<a, phase>> \in commandIds => Recorded(a, phase) # {}
      BY <1>1 DEF Books, RecordsAreCounted
    <3>2. IsFiniteSet(Recorded(a, phase)) /\ Cardinality(Recorded(a, phase)) \in Nat
      BY <1>1, RecordedFinite
    <3>3. Indicator(<<a, phase>> \in commandIds) \in {0, 1}
      BY DEF Indicator
    <3>4. Cardinality(Recorded(a, phase)) <= 1 + faults
      <4> HIDE DEF Recorded, Indicator
      <4> QED
        BY <2>1, <3>1, <3>2, <3>3
    <3>5. ASSUME faults = 0, <<a, phase>> \notin commandIds
          PROVE  Recorded(a, phase) = {}
      <4>1. Cardinality(Recorded(a, phase)) <= 0
        BY <3>1, <3>5 DEF Indicator
      <4> QED
        BY <3>2, <4>1, FS_EmptySet
    <3> QED
      BY <3>1, <3>4, <3>5
  <2>3. ASSUME Idle, faults = 0
        PROVE  active = {a \in Actions : Recorded(a, "start") # {} /\ Recorded(a, "stop") = {}}
    <3>1. active = Open
      BY <1>1, <2>3 DEF Books, MemoryAgrees, Idle, StartPending, StopPending
    <3> QED
      BY <2>2, <2>3, <3>1 DEF Open, Phases
  <2> QED
    BY <2>2, <2>3 DEF EvidenceExplainsMemory
<1> QED
  BY <1>1, BooksHold, PTL

(* The pause is accounted for: without a failed call the record of a stop    *)
(* names the workers that the record of its start named; and whatever fails  *)
(* and whoever registers since, an active pause names workers that were      *)
(* registered when they were chosen, at least one, and exactly as many of    *)
(* them as its magnitude asks for (_start, _stop and realized_worker_ids).   *)
THEOREM PausesAreNamed == Spec => []PausedWorkersAreNamed
<1>1. ASSUME Typed, Books
      PROVE  PausedWorkersAreNamed
  <2>1. ASSUME NEW i \in 1 .. Len(evidence), NEW j \in 1 .. Len(evidence), i < j,
               evidence[i].event = "command", evidence[j].event = "command",
               evidence[i].action = evidence[j].action,
               evidence[i].phase = "start", evidence[j].phase = "stop", faults = 0
        PROVE  evidence[i].workers = evidence[j].workers
    <3>1. evidence[i] \in Records
      BY <1>1 DEF Typed, TypeOK
    <3>2. evidence[i].action \in Actions
      BY <2>1, <3>1 DEF Records
    <3>3. /\ i \in Recorded(evidence[i].action, "start")
          /\ j \in Recorded(evidence[i].action, "stop")
      BY <2>1 DEF Recorded
    <3> QED
      BY <1>1, <2>1, <3>2, <3>3 DEF Books, WorkersAgree
  <2> QED
    BY <1>1, <2>1 DEF Books, PausesAsAsked, AsAsked, PausedWorkersAreNamed
<1> QED
  BY <1>1, BooksHold, PTL
=============================================================================
