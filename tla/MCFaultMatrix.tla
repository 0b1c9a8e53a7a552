----------------------------- MODULE MCFaultMatrix -----------------------------
(* The instance of FaultMatrix for TLC. *)
EXTENDS FaultMatrix, TLC

ActorSymmetry == Permutations(Requests) \cup Permutations(Workers)

(* Bound: an injected fault beside a failed call that is not swallowed, or    *)
(* two failed calls of which one is the tally of a failed emission.           *)
TwoDisturbances ==
  /\ faults' + injected' <= 2
  /\ injected' = 1 => swallowed' = {}
  /\ faults' = 2 => "emit" \in swallowed'

DisturbedSpec == Init /\ [][Next /\ TwoDisturbances]_vars
=============================================================================
