-------------------------- MODULE MCCheckoutPipeline --------------------------
(* Instances of CheckoutPipeline for TLC: the symmetry of its actors, and the *)
(* bound of one disturbance.                                                  *)
EXTENDS CheckoutPipeline, TLC

ActorSymmetry == Permutations(Requests) \cup Permutations(Workers)

(* Bound: one failed call, with MaxFaults = 2 also one in the handling of it, *)
(* or one intervention.                                                       *)
OneDisturbance ==
  /\ faults' = faults \/ faults = 0
  /\ faults' = 0 \/ interventions' = 0

DisturbedSpec == Init /\ [][Next /\ OneDisturbance]_vars
=============================================================================
