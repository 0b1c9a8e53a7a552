---------------------------- MODULE CheckoutPromise ----------------------------
(***************************************************************************)
(* What the checkout application promises about each request, without      *)
(* queues, workers, counters or failures of single calls: an item moves    *)
(* forward only, from outside the system to the table, or it is lost with  *)
(* the worker that held it, and the answer the client gets agrees with     *)
(* where the item is.  src/lab/action_dynamics/application.py.             *)
(***************************************************************************)
CONSTANT Requests

VARIABLES
  place,    \* "outside", "queued", "held", "stored" or "lost"
  answer    \* "none", "accepted", "rejected" or "failed"

vars == <<place, answer>>

TypeOK ==
  /\ place \in [Requests -> {"outside", "queued", "held", "stored", "lost"}]
  /\ answer \in [Requests -> {"none", "accepted", "rejected", "failed"}]

Init ==
  /\ place = [r \in Requests |-> "outside"]
  /\ answer = [r \in Requests |-> "none"]

Move(r, from, to) ==
  /\ place[r] \in from
  /\ place' = [place EXCEPT ![r] = to]
  /\ UNCHANGED answer

(* An item enters before its request is answered, never after. *)
Enqueue(r) == answer[r] = "none" /\ Move(r, {"outside"}, "queued")

Take(r) == Move(r, {"queued"}, "held")

Store(r) == Move(r, {"held"}, "stored")

(* The worker that popped the item dies before the item is stored. *)
Lose(r) == Move(r, {"queued", "held"}, "lost")

Accept(r) ==
  /\ answer[r] = "none"
  /\ place[r] # "outside"
  /\ answer' = [answer EXCEPT ![r] = "accepted"]
  /\ UNCHANGED place

Reject(r) ==
  /\ answer[r] = "none"
  /\ place[r] = "outside"
  /\ answer' = [answer EXCEPT ![r] = "rejected"]
  /\ UNCHANGED place

(* An error tells the client nothing about the item. *)
Fail(r) ==
  /\ answer[r] = "none"
  /\ answer' = [answer EXCEPT ![r] = "failed"]
  /\ UNCHANGED place

Next ==
  \E r \in Requests :
    Enqueue(r) \/ Take(r) \/ Store(r) \/ Lose(r) \/ Accept(r) \/ Reject(r) \/ Fail(r)

Spec == Init /\ [][Next]_vars
=============================================================================
