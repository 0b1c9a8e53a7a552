---------------------------- MODULE ReleasePromise -----------------------------
(***************************************************************************)
(* What publishing promises of the one release that carries a tag          *)
(* (src/tools/artifacts.py, src/artifacts/README.md): it is opened as a    *)
(* draft for one commit, gathers that commit's assets and no others, loses *)
(* none of them, and is published only when it holds every one.  The       *)
(* operator may withdraw it as a whole and begin again.                    *)
(***************************************************************************)
CONSTANTS Assets, Commits

VARIABLES
  stage,     \* "none", "draft" or "published"
  commit,    \* the commits it was opened for: one, or none before
  contents   \* the assets it holds, each as <<asset, commit of its bytes>>

vars == <<stage, commit, contents>>

Init == stage = "none" /\ commit = {} /\ contents = {}

Open(c) ==
  /\ stage = "none"
  /\ stage' = "draft" /\ commit' = {c} /\ contents' = {}

Add(a) ==
  /\ stage = "draft"
  /\ contents' = contents \cup ({a} \X commit)
  /\ UNCHANGED <<stage, commit>>

Publish ==
  /\ stage = "draft" /\ contents = Assets \X commit
  /\ stage' = "published" /\ UNCHANGED <<commit, contents>>

Withdraw ==
  /\ stage # "none"
  /\ stage' = "none" /\ commit' = {} /\ contents' = {}

Next ==
  \/ \E c \in Commits : Open(c)
  \/ \E a \in Assets : Add(a)
  \/ Publish
  \/ Withdraw

Spec == Init /\ [][Next]_vars
================================================================================
