------------------------------ MODULE MCCaptureRun ------------------------------
(* Instances of CaptureRun for TLC: cases with one action of any kind, cases  *)
(* with two delays on one key, one right after the other, and a pause of two  *)
(* workers that begins after a request.                                       *)
EXTENDS CaptureRun

CONSTANT Second   \* a worker that is idle in most cases

Delays == {6, 7}
LatePause == {8}

KindOf ==
  [a \in Actions |-> IF a \in Delays THEN "redis_enqueue_delay"
                     ELSE IF a \in LatePause THEN "worker_pause"
                     ELSE <<"worker_pause", "postgres_lock", "redis_enqueue_delay",
                            "api_rejection", "redis_dequeue_delay">>[a]]
StartOf == [a \in Actions |-> IF a \in {7, 8} THEN 1 ELSE 0]
StopOf == [a \in Actions |-> IF a \in {7, 8} THEN 2 ELSE 1]

(* The pauses of the protocol take all workers. *)
All == <<1, 1>>

(* Requests by transition: one in each of two, two at once and then one, or  *)
(* one in the first.                                                         *)
OneEach == <<0, 1, PointCount>>
TwoThenOne == <<0, 0, 1>>
OneFirst == <<0, PointCount, PointCount>>
CasePlans == {OneEach, TwoThenOne, OneFirst}

OneOnly == {<<0>>}

(* Bounds: one action of any kind, or both delays; two requests at once and a *)
(* failed call only, never together, beside the actions with most steps: a    *)
(* pause, a rejection, or the lock; one request before the late pause, and a  *)
(* failed call before it begins.                                             *)
Eventful == {{1}, {2}, {4}}

CaseInit ==
  /\ CaptureInit
  /\ \/ plan = OneEach /\ scheduled \in Eventful \cup {{}, {3}, {5}, Delays}
     \/ plan = TwoThenOne /\ scheduled \in {{1}, {4}}
     \/ plan = OneFirst /\ scheduled = LatePause

(* Bound: two workers compete in the cases of the late pause only.  In the    *)
(* others the second registers, and is not scheduled while it is registered.  *)
CaseNext ==
  /\ CaptureNext
  /\ \/ faults' = 0
     \/ plan = OneEach /\ scheduled \in Eventful
     \/ plan = OneFirst /\ (faults' = faults \/ <<8, "start">> \in pending)
  /\ workerPc'[Second] = workerPc[Second] \/ Second \notin instances \/ plan = OneFirst
CaseSpec == CaseInit /\ [][CaseNext]_captureVars
=============================================================================
