--------------------------- MODULE MCFaultMatrixRun ---------------------------
(* Instances of FaultMatrixRun for TLC. *)
EXTENDS FaultMatrixRun, TLC

CONSTANTS r1, r2

(* Both requests in the window of the fault, between one before and one after *)
(* it; or one request per window, the fault lasting to the end of the run.    *)
Together == [r \in {r1, r2} |-> 1]
InTurn == [r \in {r1, r2} |-> IF r = r1 THEN 0 ELSE 1]

(* The two requests may change places when they are sent together. *)
ActorSymmetry == Permutations({r1, r2}) \cup Permutations(Workers)

(* A run ends, and what was accepted in it is stored in the end, unless the   *)
(* worker that took it was lost or no worker is left (see FaultMatrixRun).    *)
RunsEndAndServe == RunEnds /\ AcceptedIsCompleted
=============================================================================
