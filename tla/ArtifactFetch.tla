----------------------------- MODULE ArtifactFetch -----------------------------
(***************************************************************************)
(* Restoring one artifact bundle into a clone: fetch in                    *)
(* src/tools/artifacts.py.  An execution checks that the destination is    *)
(* absent, obtains the archive (a download, or a file of an asset          *)
(* directory), verifies it, extracts it into a temporary directory next to *)
(* the destination, verifies the tree and renames it.  Executions may      *)
(* overlap, fail and be killed at every step; a killed one leaves its      *)
(* temporary directory behind.                                             *)
(*                                                                         *)
(* The index is fixed, and says "good" of one archive and one tree.  The   *)
(* asset directory is not: archives are written there by pack, and removed *)
(* or replaced by the operator, while a fetch reads it.  Only fetches      *)
(* write at the destination.                                               *)
(***************************************************************************)
EXTENDS Naturals, FiniteSets

CONSTANTS
  Fetches,       \* executions of fetch for one slug
  Downloads,     \* those that download; the others read the asset directory
  MaxFaults,     \* bound: operations that fail
  MaxKills,      \* bound: executions that are killed
  MaxChanges     \* bound: changes of the archive in the asset directory

ASSUME FetchBounds ==
  /\ Downloads \subseteq Fetches
  /\ MaxFaults \in Nat /\ MaxKills \in Nat /\ MaxChanges \in Nat

(* What a file or a tree may hold: "other" is whole, but not what the index *)
(* describes; "partial" is cut short.                                       *)
Contents == {"none", "partial", "other", "good"}

VARIABLES
  pc,           \* the next step of each execution
  outcome,      \* how it ends once its temporary directory is removed
  shelf,        \* the archive in the asset directory
  archive,      \* the archive each execution downloaded
  tree,         \* the tree it has extracted
  temporary,    \* the executions whose temporary directory exists
  destination,  \* what the destination holds
  restorer,     \* the executions whose rename put it there
  faults, kills, changes

ownVars == <<outcome, archive, tree, temporary>>
sharedVars == <<shelf, destination, restorer>>
bounds == <<faults, kills, changes>>
vars == <<pc, ownVars, sharedVars, bounds>>

Ends == {"restored", "refused", "failed", "killed"}
Steps == {"idle", "check", "mkdtemp", "obtain", "verify", "extract", "identity",
          "rename", "cleanup"}

TypeOK ==
  /\ pc \in [Fetches -> Steps \cup Ends]
  /\ outcome \in [Fetches -> {"restored", "failed"}]
  /\ shelf \in Contents
  /\ archive \in [Fetches -> Contents]
  /\ tree \in [Fetches -> Contents]
  /\ temporary \in SUBSET Fetches
  /\ destination \in Contents
  /\ restorer \in SUBSET Fetches
  /\ faults \in Nat /\ kills \in Nat /\ changes \in Nat

Init ==
  /\ pc = [e \in Fetches |-> "idle"]
  /\ outcome = [e \in Fetches |-> "failed"]
  /\ shelf \in Contents
  /\ archive = [e \in Fetches |-> "none"]
  /\ tree = [e \in Fetches |-> "none"]
  /\ temporary = {}
  /\ destination = "none" /\ restorer = {}
  /\ faults = 0 /\ kills = 0 /\ changes = 0

-----------------------------------------------------------------------------
Works == UNCHANGED bounds
Breaks == faults < MaxFaults /\ faults' = faults + 1 /\ UNCHANGED <<kills, changes>>

Goto(e, step) == pc' = [pc EXCEPT ![e] = step]

(* The archive that e reads, now. *)
Source(e) == IF e \in Downloads THEN archive[e] ELSE shelf

(* Faulty Raises: the temporary directory is not a context manager. *)
RaisesAtOnce(e) == Goto(e, "failed") /\ UNCHANGED <<ownVars, sharedVars>>

(* An exception below the temporary directory's `with`. *)
Raises(e) == Goto(e, "cleanup") /\ UNCHANGED <<ownVars, sharedVars>>

(* An operation of the `with` body breaks, changing nothing. *)
BreaksDown(e) ==
  /\ pc[e] \in {"obtain", "verify", "extract", "identity", "rename"}
  /\ Breaks /\ Raises(e)

Start(e) == pc[e] = "idle" /\ Works /\ Goto(e, "check") /\ UNCHANGED <<ownVars, sharedVars>>

CheckDestination(e) ==
  /\ pc[e] = "check" /\ Works
  /\ Goto(e, IF destination = "none" THEN "mkdtemp" ELSE "refused")
  /\ UNCHANGED <<ownVars, sharedVars>>

MakeTemporary(e) ==
  /\ pc[e] = "mkdtemp"
  /\ \/ Works /\ temporary' = temporary \cup {e} /\ Goto(e, "obtain")
     \/ Breaks /\ Goto(e, "failed") /\ UNCHANGED temporary
  /\ UNCHANGED <<outcome, archive, tree, sharedVars>>

(* A download may end early or deliver something else; an asset directory   *)
(* has the file or not.                                                     *)
Obtain(e) ==
  /\ pc[e] = "obtain" /\ Works
  /\ \/ /\ e \in Downloads
        /\ \E got \in Contents \ {"none"} : archive' = [archive EXCEPT ![e] = got]
        /\ Goto(e, "verify")
        /\ UNCHANGED <<outcome, tree, temporary, sharedVars>>
     \/ /\ e \notin Downloads /\ shelf # "none" /\ Goto(e, "verify")
        /\ UNCHANGED <<ownVars, sharedVars>>
     \/ e \notin Downloads /\ shelf = "none" /\ Raises(e)

(* Size and SHA-256 of the archive. *)
VerifyArchive(e) ==
  /\ pc[e] = "verify" /\ Works
  /\ \/ Source(e) = "good" /\ Goto(e, "extract") /\ UNCHANGED <<ownVars, sharedVars>>
     \/ Source(e) # "good" /\ Raises(e)

(* The archive is opened again, by name.  A whole archive unpacks to its    *)
(* tree, unless a member is refused; a partial one unpacks up to the error. *)
Extract(e) ==
  /\ pc[e] = "extract" /\ Works
  /\ \/ /\ Source(e) \in {"good", "other"}
        /\ tree' = [tree EXCEPT ![e] = Source(e)] /\ Goto(e, "identity")
     \/ /\ Source(e) \in {"other", "partial"}
        /\ tree' = [tree EXCEPT ![e] = "partial"] /\ Goto(e, "cleanup")
     \/ /\ Source(e) = "none" /\ UNCHANGED tree /\ Goto(e, "cleanup")
  /\ UNCHANGED <<outcome, archive, temporary, sharedVars>>

(* Faulty VerifyTree: the archive was verified, so its tree is not. *)
TrustTree(e) ==
  /\ pc[e] = "identity" /\ Works
  /\ Goto(e, "rename") /\ UNCHANGED <<ownVars, sharedVars>>

(* SHA-256, size and counts of the extracted tree. *)
VerifyTree(e) ==
  /\ pc[e] = "identity" /\ Works
  /\ \/ tree[e] = "good" /\ Goto(e, "rename") /\ UNCHANGED <<ownVars, sharedVars>>
     \/ tree[e] # "good" /\ Raises(e)

(* Faulty Rename: moves the tree over what is there, as shutil.move or a    *)
(* removal before the rename would.                                         *)
ReplaceDestination(e) ==
  /\ pc[e] = "rename"
  /\ Works
  /\ destination' = tree[e] /\ restorer' = restorer \cup {e}
  /\ tree' = [tree EXCEPT ![e] = "none"]
  /\ outcome' = [outcome EXCEPT ![e] = "restored"]
  /\ Goto(e, "cleanup")
  /\ UNCHANGED <<shelf, archive, temporary>>

(* rename(2) of a directory fails when the target is a directory with       *)
(* entries; the trees of bundles have some.                                 *)
Rename(e) ==
  /\ pc[e] = "rename"
  /\ Works
  /\ \/ /\ destination = "none"
        /\ destination' = tree[e] /\ restorer' = restorer \cup {e}
        /\ tree' = [tree EXCEPT ![e] = "none"]
        /\ outcome' = [outcome EXCEPT ![e] = "restored"]
        /\ Goto(e, "cleanup")
        /\ UNCHANGED <<shelf, archive, temporary>>
     \/ destination # "none" /\ Raises(e)

RemoveTemporary(e) ==
  /\ pc[e] = "cleanup" /\ Works
  /\ temporary' = temporary \ {e}
  /\ tree' = [tree EXCEPT ![e] = "none"]
  /\ archive' = [archive EXCEPT ![e] = "none"]
  /\ Goto(e, outcome[e])
  /\ UNCHANGED <<outcome, sharedVars>>

(* SIGKILL or a lost machine: nothing is cleaned up.  An extraction may     *)
(* have been under way.                                                     *)
Killed(e) ==
  /\ pc[e] \notin Ends \cup {"idle"}
  /\ kills < MaxKills /\ kills' = kills + 1 /\ UNCHANGED <<faults, changes>>
  /\ \/ UNCHANGED tree
     \/ pc[e] = "extract" /\ tree' = [tree EXCEPT ![e] = "partial"]
  /\ Goto(e, "killed")
  /\ UNCHANGED <<outcome, archive, temporary, sharedVars>>

(* pack writes the archive, or the operator removes or replaces it. *)
ChangeShelf ==
  /\ changes < MaxChanges /\ changes' = changes + 1 /\ UNCHANGED <<faults, kills>>
  /\ \E content \in Contents : shelf' = content
  /\ UNCHANGED <<pc, ownVars, destination, restorer>>

Step(e) ==
  \/ CheckDestination(e) \/ MakeTemporary(e) \/ Obtain(e) \/ VerifyArchive(e)
  \/ Extract(e) \/ VerifyTree(e) \/ Rename(e) \/ BreaksDown(e) \/ RemoveTemporary(e)

Next ==
  \/ \E e \in Fetches : Start(e) \/ Step(e) \/ Killed(e)
  \/ ChangeShelf

Spec == Init /\ [][Next]_vars
FairSpec == Spec /\ \A e \in Fetches : WF_vars(Start(e)) /\ WF_vars(Step(e))

-----------------------------------------------------------------------------
(* Properties *)

(* The destination is absent, or holds the tree the index describes whole:  *)
(* whatever was downloaded, whatever became of the archive between the two  *)
(* times it is opened, and wherever an execution died.                      *)
DestinationIsVerified == destination \in {"none", "good"}

(* Of executions that all found the destination absent one restores it, the *)
(* others fail; and the one that reports success has restored it.           *)
OneRestores ==
  /\ \A e, f \in restorer : e = f
  /\ restorer = {} <=> destination = "none"
  /\ \A e \in Fetches : pc[e] = "restored" => e \in restorer

(* Every execution that is not killed ends, and has removed its temporary   *)
(* directory by then, whichever operation raised.                           *)
EveryFetchEnded ==
  \A e \in Fetches : pc[e] \in Ends /\ (e \in temporary => pc[e] = "killed")
FetchEnds == <>EveryFetchEnded
================================================================================
