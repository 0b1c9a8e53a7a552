----------------------------- MODULE Interventions -----------------------------
(***************************************************************************)
(* ReversibleInterventionController                                        *)
(* (src/lab/action_dynamics/interventions.py): a caller starts and stops   *)
(* declared actions; the controller sets Redis control keys or holds the   *)
(* PostgreSQL advisory lock, and posts one evidence record to the          *)
(* collector for each command that was applied.                            *)
(*                                                                         *)
(* The controller is single threaded: `call` is the method in progress and *)
(* its next external call.  One action stands for one external call (Redis *)
(* command, SQL statement, POST) and the assignments up to the next one.   *)
(* A call works, or breaks after or before the server executed it; an      *)
(* exception leaves the method at once.                                    *)
(***************************************************************************)
EXTENDS Integers, Sequences, FiniteSets

CONSTANTS
  Actions,        \* action identifiers, sorted as numbers
  Kind,           \* the kind of each action
  PauseFraction,  \* magnitude of a worker_pause: <<numerator, denominator>>
  Start, Stop,    \* start_index and stop_index of each action
  Workers,        \* worker processes
  Controller,     \* the controller's database session
  Nobody,         \* no lock owner
  NoAction,       \* no action
  MaxFaults       \* bound: external calls that fail

Kinds == {"worker_pause", "postgres_lock", "redis_enqueue_delay",
          "redis_dequeue_delay", "api_rejection"}

ASSUME ActionsAssumption ==
  /\ Actions \subseteq Nat /\ IsFiniteSet(Actions)
  /\ NoAction \notin Actions
  /\ Kind \in [Actions -> Kinds]

ASSUME FractionAssumption ==
  /\ PauseFraction \in Nat \X Nat
  /\ 0 < PauseFraction[1] /\ PauseFraction[1] <= PauseFraction[2]

ASSUME IndexAssumption == Start \in [Actions -> Nat] /\ Stop \in [Actions -> Nat]

ASSUME WorkersAssumption == IsFiniteSet(Workers)

ASSUME ControllerAssumption == Controller \notin Workers /\ Nobody \notin Workers \cup {Controller}

ASSUME FaultsAssumption == MaxFaults \in Nat

VARIABLES
  paused,       \* PAUSED_WORKERS
  keys,         \* the other control keys: the action whose value each holds
  lockOwner,    \* the session that holds DATABASE_ADVISORY_LOCK
  instances,    \* WORKER_INSTANCES
  active,       \* _active: the actions the controller believes are in force
  session,      \* _ActiveAction.lock of an active action: its connection
  realized,     \* _ActiveAction.realized_worker_ids of an active action
  registered,   \* history: the workers each action's pause was chosen from
  commandIds,   \* _command_ids
  evidence,     \* the collector's action stream
  call,         \* the method in progress
  faults        \* failed calls so far

controls == <<paused, keys, lockOwner>>
memory   == <<active, session, realized, registered, commandIds>>
vars == <<controls, instances, memory, evidence, call, faults>>

KeyKinds == {"redis_enqueue_delay", "redis_dequeue_delay", "api_rejection"}
Phases == {"start", "stop"}

Steps == {"returned", "raised", "select", "clear", "pause", "lock", "set", "stop",
          "readback", "post", "sweep", "wipe"}

Calls == [op : {"none", "command", "close", "boundary"},
          action : Actions \cup {NoAction},
          phase : {"start", "stop", "started", "closed"},
          index : Nat,                       \* logical_index
          step : Steps,
          workers : SUBSET Workers,          \* the local realized_worker_ids
          delay : Actions \cup {NoAction}]   \* the value _control_value returned

Records ==
  [event : {"command"}, action : Actions, phase : Phases, index : Nat,
   status : {"applied", "cleanup"}, workers : SUBSET Workers,
   delay : Actions \cup {NoAction}]
  \cup
  [event : {"boundary"}, phase : {"started", "closed"}, active : Nat,
   delay : Actions \cup {NoAction}]

TypeOK ==
  /\ paused \in SUBSET Workers
  /\ keys \in [KeyKinds -> Actions \cup {NoAction}]
  /\ lockOwner \in Workers \cup {Controller, Nobody}
  /\ instances \in SUBSET Workers
  /\ active \in SUBSET Actions
  /\ session \in [Actions -> {"none", "open", "closed"}]
  /\ realized \in [Actions -> SUBSET Workers]
  /\ registered \in [Actions -> SUBSET Workers]
  /\ commandIds \in SUBSET (Actions \X Phases)
  /\ evidence \in Seq(Records)
  /\ call \in Calls
  /\ faults \in 0 .. MaxFaults

Init ==
  /\ paused = {}
  /\ keys = [k \in KeyKinds |-> NoAction]
  /\ lockOwner = Nobody
  /\ instances = {}
  /\ active = {}
  /\ session = [a \in Actions |-> "none"]
  /\ realized = [a \in Actions |-> {}]
  /\ registered = [a \in Actions |-> {}]
  /\ commandIds = {}
  /\ evidence = <<>>
  /\ call = [op |-> "none", action |-> NoAction, phase |-> "start", index |-> 0,
             step |-> "returned", workers |-> {}, delay |-> NoAction]
  /\ faults = 0

-----------------------------------------------------------------------------
Works == faults' = faults
Breaks == faults < MaxFaults /\ faults' = faults + 1
MayApply(effect, variables) == effect \/ UNCHANGED variables

Idle == call.step \in {"returned", "raised"}
At(step) == call.step = step
Goto(step) == call' = [call EXCEPT !.step = step]

(* The method ends; its locals are gone. *)
Ends(step) ==
  call' = [op |-> call.op, action |-> NoAction, phase |-> "start", index |-> 0,
           step |-> step, workers |-> {}, delay |-> NoAction]
Returns == Ends("returned")
Raises == Ends("raised")

Begin(op, a, phase, step) ==
  call' = [op |-> op, action |-> a, phase |-> phase, index |-> 0, step |-> step,
           workers |-> {}, delay |-> NoAction]

(* The call in progress concerns an action of this kind. *)
OfKind(kind) == call.action \in Actions /\ Kind[call.action] = kind

-----------------------------------------------------------------------------
(* command(action, phase, logical_index) *)

(* Faulty FirstStep: a start is recorded before it takes effect. *)
FirstStepIsEvidence(a, phase) == IF phase = "stop" THEN "stop" ELSE "readback"

FirstStep(a, phase) ==
  IF phase = "stop" THEN "stop"
  ELSE CASE Kind[a] = "worker_pause"  -> "select"
         [] Kind[a] = "postgres_lock" -> "lock"
         [] OTHER                     -> "set"

(* Faulty Refused: command ids are not checked. *)
RefusedByActivityAlone(a, phase) == phase = "start" <=> a \in active

(* Duplicate command ids, a start of an active action and a stop of an *)
(* inactive one raise before any external call.                        *)
Refused(a, phase) ==
  \/ <<a, phase>> \in commandIds
  \/ phase = "start" /\ a \in active
  \/ phase = "stop" /\ a \notin active

Command(a, phase, index) ==
  /\ Idle
  /\ IF Refused(a, phase)
     THEN Begin("command", NoAction, "start", "raised")
     ELSE call' = [op |-> "command", action |-> a, phase |-> phase, index |-> index,
                   step |-> FirstStep(a, phase), workers |-> realized[a],
                   delay |-> NoAction]
  /\ UNCHANGED <<controls, instances, memory, evidence, faults>>

(* Faulty Activate: the choice of workers is not kept for the stop. *)
ActivateForgetsWorkers(lock) ==
  /\ active' = active \cup {call.action}
  /\ session' = [session EXCEPT ![call.action] = lock]
  /\ Goto("readback")
  /\ UNCHANGED realized

(* _start returned: the action is active, and evidence is due. *)
Activate(lock) ==
  /\ active' = active \cup {call.action}
  /\ realized' = [realized EXCEPT ![call.action] = call.workers]
  /\ session' = [session EXCEPT ![call.action] = lock]
  /\ Goto("readback")

Inactive == UNCHANGED <<active, realized, session>>

(* The action leaves _active, and its _ActiveAction is dropped. *)
Forget(a) ==
  /\ active' = active \ {a}
  /\ realized' = [realized EXCEPT ![a] = {}]
  /\ session' = [session EXCEPT ![a] = "none"]

(* worker_pause: max(1, int(magnitude * n + 0.5)) of the n registered workers. *)
PauseCount(n) ==
  LET rounded == (2 * PauseFraction[1] * n + PauseFraction[2]) \div (2 * PauseFraction[2])
      wanted == IF rounded < 1 THEN 1 ELSE rounded
  IN  IF wanted < n THEN wanted ELSE n

(* Faulty SelectWorkers: the choice is not cut to the magnitude. *)
SelectEveryWorker ==
  /\ At("select")
  /\ \/ /\ Works
        /\ instances # {}
        /\ call' = [call EXCEPT !.step = "clear", !.workers = instances]
        /\ registered' = [registered EXCEPT ![call.action] = instances]
     \/ Works /\ instances = {} /\ Raises /\ UNCHANGED registered
     \/ Breaks /\ Raises /\ UNCHANGED registered
  /\ UNCHANGED <<controls, instances, active, session, realized, commandIds, evidence>>

(* Faulty SelectWorkers: one worker is paused, whatever the magnitude. *)
SelectOneWorker ==
  /\ At("select")
  /\ \/ /\ Works
        /\ \E w \in instances : call' = [call EXCEPT !.step = "clear", !.workers = {w}]
        /\ registered' = [registered EXCEPT ![call.action] = instances]
     \/ Works /\ instances = {} /\ Raises /\ UNCHANGED registered
     \/ Breaks /\ Raises /\ UNCHANGED registered
  /\ UNCHANGED <<controls, instances, active, session, realized, commandIds, evidence>>

(* ZRANGE and the choice, by hash, of the workers to pause.  Nobody drops   *)
(* the registrations that are overdue before.                               *)
SelectWorkers ==
  /\ At("select")
  /\ \/ /\ Works
        /\ instances # {}
        /\ \E chosen \in SUBSET instances :
             /\ Cardinality(chosen) = PauseCount(Cardinality(instances))
             /\ call' = [call EXCEPT !.step = "clear", !.workers = chosen]
        /\ registered' = [registered EXCEPT ![call.action] = instances]
     \/ Works /\ instances = {} /\ Raises /\ UNCHANGED registered
     \/ Breaks /\ Raises /\ UNCHANGED registered
  /\ UNCHANGED <<controls, instances, active, session, realized, commandIds, evidence>>

(* DELETE PAUSED_WORKERS. *)
ClearPaused ==
  /\ At("clear")
  /\ \/ Works /\ paused' = {} /\ Goto("pause")
     \/ Breaks /\ MayApply(paused' = {}, paused) /\ Raises
  /\ UNCHANGED <<keys, lockOwner, instances, memory, evidence>>

(* SADD PAUSED_WORKERS. *)
PauseWorkers ==
  LET add == paused' = paused \cup call.workers
  IN  /\ At("pause")
      /\ \/ Works /\ add /\ Activate("none")
         \/ Breaks /\ MayApply(add, paused) /\ Raises /\ Inactive
      /\ UNCHANGED <<keys, lockOwner, instances, registered, commandIds, evidence>>

(* Faulty TakeLock: the session survives an exception of the lock *)
(* statement.                                                     *)
TakeLockLeaks ==
  /\ At("lock") /\ lockOwner = Nobody
  /\ lockOwner' = Controller
  /\ \/ Works /\ Activate("open")
     \/ Breaks /\ Raises /\ Inactive
  /\ UNCHANGED <<paused, keys, instances, registered, commandIds, evidence>>

(* connect and pg_advisory_lock, which waits for the lock.  When either *)
(* breaks the connection is dropped, and with it the lock.              *)
TakeLock ==
  /\ At("lock")
  /\ \/ /\ Works
        /\ lockOwner = Nobody
        /\ lockOwner' = Controller
        /\ Activate("open")
     \/ Breaks /\ Raises /\ Inactive /\ UNCHANGED lockOwner
  /\ UNCHANGED <<paused, keys, instances, registered, commandIds, evidence>>

(* SET of a delay or of the rejection control. *)
SetKey ==
  LET set == keys' = [keys EXCEPT ![Kind[call.action]] = call.action]
  IN  /\ At("set")
      /\ \/ Works /\ set /\ Activate("none")
         \/ Breaks /\ MayApply(set, keys) /\ Raises /\ Inactive
      /\ UNCHANGED <<paused, lockOwner, instances, registered, commandIds, evidence>>

-----------------------------------------------------------------------------
(* _stop, from command and from close *)

(* What follows a stop that returned: the evidence.  close skips the evidence *)
(* of a stop command that was recorded.                                       *)
StopReturns ==
  /\ Forget(call.action)
  /\ Goto(IF call.op = "close" /\ <<call.action, "stop">> \in commandIds
          THEN "sweep" ELSE "readback")

(* A stop that raised.  command keeps the action, with its connection in the *)
(* state the stop left it in; close had popped it before.                    *)
StopRaises(lock) ==
  /\ Raises
  /\ IF call.op = "close"
     THEN Forget(call.action)
     ELSE session' = [session EXCEPT ![call.action] = lock] /\ UNCHANGED <<active, realized>>

(* pg_advisory_unlock, and in the finally the close of the connection, which *)
(* releases the lock in any case.  On a connection that an earlier stop has  *)
(* closed, the statement raises.                                             *)
StopLock ==
  /\ At("stop") /\ OfKind("postgres_lock")
  /\ \/ Works /\ session[call.action] = "open" /\ lockOwner' = Nobody /\ StopReturns
     \/ Breaks /\ session[call.action] = "open" /\ lockOwner' = Nobody
        /\ StopRaises("closed")
     \/ Works /\ session[call.action] = "closed" /\ StopRaises("closed")
        /\ UNCHANGED lockOwner
  /\ UNCHANGED <<paused, keys, instances, registered, commandIds, evidence>>

(* DELETE of the kind's key, whoever set it. *)
StopKey ==
  LET delete == IF OfKind("worker_pause")
                THEN paused' = {} /\ UNCHANGED keys
                ELSE keys' = [keys EXCEPT ![Kind[call.action]] = NoAction]
                     /\ UNCHANGED paused
  IN  /\ At("stop") /\ ~OfKind("postgres_lock")
      /\ \/ Works /\ delete /\ StopReturns
         \/ Breaks /\ MayApply(delete, <<paused, keys>>) /\ StopRaises("none")
      /\ UNCHANGED <<lockOwner, instances, registered, commandIds, evidence>>

-----------------------------------------------------------------------------
(* _emit and emit_run_boundary: GET ENQUEUE_DELAY_MS, then the POST *)

Readback ==
  /\ At("readback")
  /\ \/ Works /\ call' = [call EXCEPT !.step = "post", !.delay = keys["redis_enqueue_delay"]]
     \/ Breaks /\ Raises
  /\ UNCHANGED <<controls, instances, memory, evidence>>

Record ==
  IF call.op = "boundary"
  THEN [event |-> "boundary", phase |-> call.phase, active |-> Cardinality(active),
        delay |-> call.delay]
  ELSE [event |-> "command", action |-> call.action,
        phase |-> IF call.op = "close" THEN "stop" ELSE call.phase,
        index |-> call.index,
        status |-> IF call.op = "close" THEN "cleanup" ELSE "applied",
        workers |-> call.workers, delay |-> call.delay]

(* The POST; the command id is recorded only after it succeeded. *)
Post ==
  LET post == evidence' = Append(evidence, Record)
  IN  /\ At("post")
      /\ \/ /\ Works
            /\ post
            /\ commandIds' = IF call.op = "boundary" THEN commandIds
                             ELSE commandIds \cup {<<call.action, Record.phase>>}
            /\ IF call.op = "close" THEN Goto("sweep") ELSE Returns
         \/ Breaks /\ MayApply(post, evidence) /\ Raises /\ UNCHANGED commandIds
      /\ UNCHANGED <<controls, instances, active, session, realized, registered>>

Boundary(phase) ==
  /\ Idle
  /\ Begin("boundary", NoAction, phase, "readback")
  /\ UNCHANGED <<controls, instances, memory, evidence, faults>>

-----------------------------------------------------------------------------
(* close() *)

Close ==
  /\ Idle
  /\ Begin("close", NoAction, "stop", "sweep")
  /\ UNCHANGED <<controls, instances, memory, evidence, faults>>

(* The loop pops the active actions in the order of their ids; the object *)
(* it popped is a local until its stop has ended.                         *)
Sweep ==
  /\ At("sweep")
  /\ \/ \E a \in active :
          /\ \A b \in active : a <= b
          /\ active' = active \ {a}
          /\ call' = [call EXCEPT !.action = a, !.index = Stop[a], !.step = "stop",
                              !.workers = realized[a]]
     \/ active = {} /\ Goto("wipe") /\ UNCHANGED active
  /\ UNCHANGED <<controls, instances, session, realized, registered, commandIds, evidence,
                 faults>>

(* Faulty Wipe: close returns without the final DELETE. *)
WipeNothing ==
  /\ At("wipe")
  /\ Works /\ Returns
  /\ UNCHANGED <<controls, instances, memory, evidence>>

(* The final DELETE of all control keys. *)
Wipe ==
  LET wipe == paused' = {} /\ keys' = [k \in KeyKinds |-> NoAction]
  IN  /\ At("wipe")
      /\ \/ Works /\ wipe /\ Returns
         \/ Breaks /\ MayApply(wipe, <<paused, keys>>) /\ Raises
      /\ UNCHANGED <<lockOwner, instances, memory, evidence>>

(* The next step of the method in progress. *)
Proceed ==
  \/ SelectWorkers \/ ClearPaused \/ PauseWorkers \/ TakeLock \/ SetKey
  \/ StopLock \/ StopKey \/ Readback \/ Post \/ Sweep \/ Wipe

-----------------------------------------------------------------------------
(* Any caller, next to workers that register and use the lock. *)

HasBoundary(phase) ==
  \E i \in 1 .. Len(evidence) : evidence[i].event = "boundary" /\ evidence[i].phase = phase

Caller ==
  \/ \E a \in Actions, phase \in Phases :
       Command(a, phase, IF phase = "start" THEN Start[a] ELSE Stop[a])
  \/ evidence = <<>> /\ Boundary("started")
  \/ call.op = "close" /\ ~HasBoundary("closed") /\ Boundary("closed")
  \/ Close

WorkersRegister ==
  /\ instances' \in SUBSET Workers
  /\ UNCHANGED <<controls, memory, evidence, call, faults>>

WorkerLocks ==
  /\ \/ lockOwner = Nobody /\ lockOwner' \in Workers
     \/ lockOwner \in Workers /\ lockOwner' = Nobody
  /\ UNCHANGED <<paused, keys, instances, memory, evidence, call, faults>>

Next == Proceed \/ Caller \/ WorkersRegister \/ WorkerLocks

Spec == Init /\ [][Next]_vars

-----------------------------------------------------------------------------
(* What a started action does to the system. *)

InForce(a) ==
  CASE Kind[a] = "worker_pause"  -> paused # {} /\ paused = realized[a]
    [] Kind[a] = "postgres_lock" -> session[a] = "open" /\ lockOwner = Controller
    [] OTHER                     -> keys[Kind[a]] = a

ControlsClear ==
  /\ paused = {}
  /\ \A k \in KeyKinds : keys[k] = NoAction
  /\ lockOwner # Controller

Recorded(a, phase) ==
  {i \in 1 .. Len(evidence) :
     /\ evidence[i].event = "command"
     /\ evidence[i].action = a
     /\ evidence[i].phase = phase}

-----------------------------------------------------------------------------
(* A close() that returns leaves no action active, no control key set and no *)
(* lock held, whatever commands failed before it: also a key that a start    *)
(* set before it raised, of which the controller has no memory.              *)
ReturnedCloseIsClean ==
  (call.op = "close" /\ call.step = "returned") => active = {} /\ ControlsClear

(* The advisory lock is never orphaned: while the controller's session holds *)
(* it, the connection belongs to one active action, or to the one action     *)
(* that close() has popped and is about to unlock.                           *)
LockIsRecoverable ==
  LET owners == {a \in Actions : session[a] = "open"}
      popped == IF call.op = "close" /\ At("stop") THEN {call.action} ELSE {}
  IN  /\ Cardinality(owners) <= 1
      /\ lockOwner = Controller <=> owners # {}
      /\ owners \subseteq active \cup popped

(* The record of an enqueue delay that a step posts reads this delay back. *)
ReadsBack(delay) ==
  \A i \in DOMAIN evidence' \ DOMAIN evidence :
    Kind[evidence'[i].action] = "redis_enqueue_delay" => evidence'[i].delay = delay

(* Evidence follows the effect: when a start is recorded its action is in    *)
(* force, when a stop is recorded it no longer is, and the delay that the    *)
(* record of an enqueue delay reads back is the one it set, or none.         *)
EvidenceFollowsEffect ==
  [][\A a \in Actions :
       /\ Recorded(a, "start")' # Recorded(a, "start") => InForce(a) /\ ReadsBack(a)
       /\ Recorded(a, "stop")' # Recorded(a, "stop") =>
            ~InForce(a) /\ ReadsBack(NoAction)]_vars

(* As long as no call failed, the evidence alone tells which actions are     *)
(* active between two commands; each failed call explains at most one more   *)
(* record of a command.                                                      *)
EvidenceExplainsMemory ==
  /\ Idle /\ faults = 0 =>
       active = {a \in Actions : Recorded(a, "start") # {} /\ Recorded(a, "stop") = {}}
  /\ \A a \in Actions, phase \in Phases :
       Cardinality(Recorded(a, phase)) <= 1 + faults

(* A recorded stop names the workers its start paused, unless a call failed; *)
(* and while a pause is active it names workers that were registered when    *)
(* they were chosen, at least one, and of those exactly as many as its       *)
(* magnitude asks for, whatever calls failed and whoever registered since.   *)
PausedWorkersAreNamed ==
  /\ \A i, j \in 1 .. Len(evidence) :
       /\ i < j
       /\ evidence[i].event = "command" /\ evidence[j].event = "command"
       /\ evidence[i].action = evidence[j].action
       /\ evidence[i].phase = "start" /\ evidence[j].phase = "stop"
       /\ faults = 0
       => evidence[i].workers = evidence[j].workers
  /\ \A a \in active : Kind[a] = "worker_pause" =>
       /\ realized[a] # {} /\ realized[a] \subseteq registered[a]
       /\ Cardinality(realized[a]) = PauseCount(Cardinality(registered[a]))

(* The docstring of close(): "Best-effort stop every still-active action     *)
(* exactly once."                                                            *)
CloseStopsEveryAction ==
  (call.op = "close" /\ Idle) => active = {}
=============================================================================
