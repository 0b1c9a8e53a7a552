---------------------------- MODULE MCInterventions ----------------------------
(* Instances of Interventions for TLC: two actions of different kinds, and *)
(* two delays that share one key.                                          *)
EXTENDS Interventions, TLC

KindOf == [a \in Actions |-> CASE a = 1 -> "worker_pause"
                               [] a = 2 -> "postgres_lock"
                               [] OTHER -> "redis_enqueue_delay"]

OneKey == [a \in Actions |-> "redis_enqueue_delay"]

StartOf == [a \in Actions |-> a]
StopOf == [a \in Actions |-> a + 1]

Half == <<1, 2>>

WorkerSymmetry == Permutations(Workers)

(* Bound: a case has the pause and the lock, or the two delays. *)
Pairs == {{1, 2}, {3, 4}}
OnePair ==
  \E pair \in Pairs :
    /\ {id[1] : id \in commandIds'} \subseteq pair
    /\ call'.action \in pair \cup {NoAction}

(* Bound: registrations come and go until the workers to pause are chosen;    *)
(* nothing reads them afterwards.                                            *)
BeforeTheChoice == instances' = instances \/ call.step = "select"

PairSpec == Init /\ [][Next /\ OnePair /\ BeforeTheChoice]_vars
=============================================================================
