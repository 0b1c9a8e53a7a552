---------------------------- MODULE ArtifactPublish ----------------------------
(***************************************************************************)
(* Publication of a release of artifact bundles: publish in                *)
(* src/tools/artifacts.py.  An execution verifies the local bundles, reads *)
(* the state of the remote release, plans, and then changes the remote in  *)
(* separate `gh` calls: it creates the draft, deletes assets whose upload  *)
(* was cut short ("starters"), and uploads the missing ones.  Any call may *)
(* fail having done its work or not, an execution may be killed at any     *)
(* step, and publish is simply run again.                                  *)
(*                                                                         *)
(* GitHub and the `gh` program are external, modelled from how the code    *)
(* uses them: several drafts may carry one tag, an asset under upload is   *)
(* listed as a starter, an asset keeps its id when its upload completes,   *)
(* `gh release upload` without --clobber refuses names that exist.  The    *)
(* operator publishes the draft once an execution reported success, and    *)
(* may delete a release, which leaves its tag behind.                      *)
(*                                                                         *)
(* The bundles in the asset directory do not change during an execution.   *)
(***************************************************************************)
EXTENDS Integers, FiniteSets

CONSTANTS
  Publishers,   \* executions of publish
  Assets,       \* the index, the checksum file and the archives, by name
  Commits,      \* commits that recorded an index under the tag
  NoCommit,
  Target,       \* the --target of each execution
  DryRuns,      \* executions without --execute
  Overlap,      \* may an execution start, or a release go, while one runs?
  MaxReleases,  \* bound: releases ever created
  MaxFaults,    \* bound: calls that fail, and executions killed
  MaxDeletes    \* bound: releases the operator deletes

VARIABLES
  pc,         \* the next step of each execution
  seen,       \* the release it read: 0 for none, and its assets at that time
  starters,   \* the ids it still has to delete
  missing,    \* the assets it plans to upload
  uploading,  \* the release its upload writes to
  sent,       \* the assets that upload has started, as <<asset, serial>>
  releases,   \* the releases that exist
  made,       \* how many were ever created: the last release id
  draftOf,    \* the commit each release targets
  published,  \* the releases that are no longer drafts
  held,       \* the assets of each release
  tag,        \* the commit the tag resolves to, or NoCommit
  faults, deletes

planVars == <<seen, starters, missing, uploading, sent>>
remoteVars == <<releases, made, draftOf, published, held, tag>>
vars == <<pc, planVars, remoteVars, faults, deletes>>

Ids == 1 .. MaxReleases

Absent == [state |-> "none", of |-> NoCommit, serial |-> 0]
AssetRecords ==
  [state : {"none", "starter", "uploaded"}, of : Commits \cup {NoCommit}, serial : Nat]

Steps == {"idle", "verify", "list", "tag", "create", "delete", "lookup", "upload"}
Ends == {"done", "planned", "failed", "refused"}

TypeOK ==
  /\ pc \in [Publishers -> Steps \cup Ends]
  /\ seen \in [Publishers -> [release : 0 .. MaxReleases, draft : BOOLEAN,
                              assets : [Assets -> AssetRecords]]]
  /\ starters \in [Publishers -> SUBSET (Ids \X Assets \X Nat)]
  /\ missing \in [Publishers -> SUBSET Assets]
  /\ uploading \in [Publishers -> 0 .. MaxReleases]
  /\ sent \in [Publishers -> SUBSET (Assets \X Nat)]
  /\ made \in 0 .. MaxReleases
  /\ releases \subseteq 1 .. made
  /\ draftOf \in [Ids -> Commits \cup {NoCommit}]
  /\ published \subseteq releases
  /\ held \in [Ids -> [Assets -> AssetRecords]]
  /\ tag \in Commits \cup {NoCommit}
  /\ faults \in 0 .. MaxFaults /\ deletes \in 0 .. MaxDeletes

NothingHeld == [a \in Assets |-> Absent]
NotSeen == [release |-> 0, draft |-> FALSE, assets |-> NothingHeld]

Init ==
  /\ pc = [p \in Publishers |-> "idle"]
  /\ seen = [p \in Publishers |-> NotSeen]
  /\ starters = [p \in Publishers |-> {}]
  /\ missing = [p \in Publishers |-> {}]
  /\ uploading = [p \in Publishers |-> 0]
  /\ sent = [p \in Publishers |-> {}]
  /\ releases = {} /\ made = 0 /\ published = {}
  /\ draftOf = [r \in Ids |-> NoCommit]
  /\ held = [r \in Ids |-> NothingHeld]
  /\ tag = NoCommit
  /\ faults = 0 /\ deletes = 0

-----------------------------------------------------------------------------
Works == UNCHANGED faults
Breaks == faults < MaxFaults /\ faults' = faults + 1

Goto(p, step) == pc' = [pc EXCEPT ![p] = step]

Running(p) == pc[p] \notin Ends \cup {"idle"}

(* Nothing changes but the step of p. *)
Stops(p, end) == Goto(p, end) /\ UNCHANGED <<planVars, remoteVars, deletes>>

Start(p) ==
  /\ pc[p] = "idle"
  /\ Overlap \/ \A q \in Publishers : ~Running(q)
  /\ Works /\ Stops(p, "verify")

(* Ctrl-C, a lost machine, or the failure of a call that changed nothing. *)
Dies(p) == Running(p) /\ Breaks /\ Stops(p, "failed")

(* _release_assets and _publication_preflight: the bundles, the checksum    *)
(* file, the clean HEAD that recorded the index.                            *)
VerifyLocal(p) == pc[p] = "verify" /\ Works /\ Stops(p, "list")

(* _remote_release: the first release of the listing with the tag. *)
ListReleases(p) ==
  /\ pc[p] = "list" /\ Works
  /\ \/ releases = {} /\ seen' = [seen EXCEPT ![p] = NotSeen]
     \/ \E r \in releases :
          seen' = [seen EXCEPT ![p] =
            [release |-> r, draft |-> r \notin published, assets |-> held[r]]]
  /\ Goto(p, "tag")
  /\ UNCHANGED <<starters, missing, uploading, sent, remoteVars, deletes>>

(* Faulty Resumable: trusts the names of the assets and not their digests. *)
ResumableByName(p) == seen[p].draft

(* _remote_asset_plan: what it refuses of a release it has read, ...        *)
Resumable(p) ==
  /\ seen[p].draft
  /\ draftOf[seen[p].release] = Target[p]
  /\ \A a \in Assets :
       seen[p].assets[a].state = "uploaded" => seen[p].assets[a].of = Target[p]

(* ... and what it plans: delete the starters, upload all but the uploaded. *)
Listed(p, state) == {a \in Assets : seen[p].assets[a].state = state}
StarterIds(p) ==
  {<<seen[p].release, a, seen[p].assets[a].serial>> : a \in Listed(p, "starter")}

(* Faulty Plan: counts an upload that was cut short as present. *)
PlanCountingStarters(p) ==
  /\ starters' = [starters EXCEPT ![p] = StarterIds(p)]
  /\ missing' = [missing EXCEPT ![p] =
       Assets \ (Listed(p, "uploaded") \cup Listed(p, "starter"))]
  /\ UNCHANGED <<seen, uploading, sent, remoteVars, deletes>>

(* Faulty Plan: leaves the starters where they are. *)
PlanLeavingStarters(p) ==
  /\ starters' = [starters EXCEPT ![p] = {}]
  /\ missing' = [missing EXCEPT ![p] = Assets \ Listed(p, "uploaded")]
  /\ UNCHANGED <<seen, uploading, sent, remoteVars, deletes>>

Plan(p) ==
  /\ starters' = [starters EXCEPT ![p] = StarterIds(p)]
  /\ missing' = [missing EXCEPT ![p] = Assets \ Listed(p, "uploaded")]
  /\ UNCHANGED <<seen, uploading, sent, remoteVars, deletes>>

(* Faulty ReadTag: creates a release on a tag that exists. *)
ReadTagOfReleaseOnly(p) ==
  /\ pc[p] = "tag" /\ Works
  /\ IF seen[p].release = 0
     THEN Plan(p) /\ Goto(p, "create")
     ELSE \/ /\ tag \notin {NoCommit, Target[p]} \/ ~Resumable(p)
             /\ Stops(p, "refused")
          \/ /\ tag \in {NoCommit, Target[p]} /\ Resumable(p) /\ Plan(p)
             /\ Goto(p, "delete")

(* Reads the tag's commit, then decides from what it has read. *)
ReadTag(p) ==
  /\ pc[p] = "tag" /\ Works
  /\ IF seen[p].release = 0
     THEN \/ tag # NoCommit /\ Stops(p, "refused")
          \/ /\ tag = NoCommit /\ Plan(p)
             /\ Goto(p, IF p \in DryRuns THEN "planned" ELSE "create")
     ELSE \/ /\ tag \notin {NoCommit, Target[p]} \/ ~Resumable(p)
             /\ Stops(p, "refused")
          \/ /\ tag \in {NoCommit, Target[p]} /\ Resumable(p) /\ Plan(p)
             /\ Goto(p, IF p \in DryRuns THEN "planned" ELSE "delete")

(* gh release create --draft; GitHub refuses the tag of a published release. *)
CreateDraft(p) ==
  /\ pc[p] = "create"
  /\ \/ /\ made < MaxReleases /\ published = {}
        /\ \/ Works /\ Goto(p, "delete")
           \/ Breaks /\ Goto(p, "failed")
        /\ made' = made + 1
        /\ releases' = releases \cup {made + 1}
        /\ draftOf' = [draftOf EXCEPT ![made + 1] = Target[p]]
        /\ UNCHANGED <<planVars, published, held, tag, deletes>>
     \/ published # {} /\ Works /\ Stops(p, "failed")

(* One DELETE by asset id; an id that is gone is an error. *)
DeleteStarter(p) ==
  \E id \in starters[p] :
    /\ pc[p] = "delete"
    /\ LET r == id[1]  a == id[2] IN
       \/ /\ r \in releases /\ held[r][a].state # "none" /\ held[r][a].serial = id[3]
          /\ held' = [held EXCEPT ![r][a].state = "none"]
          /\ starters' = [starters EXCEPT ![p] = @ \ {id}]
          /\ \/ Works /\ UNCHANGED pc
             \/ Breaks /\ Goto(p, "failed")
          /\ UNCHANGED <<seen, missing, uploading, sent,
                         releases, made, draftOf, published, tag, deletes>>
       \/ /\ r \notin releases \/ held[r][a].state = "none" \/ held[r][a].serial # id[3]
          /\ Works /\ Stops(p, "failed")

(* No starter is left: nothing to upload is success. *)
DeletesDone(p) ==
  /\ pc[p] = "delete" /\ starters[p] = {} /\ Works
  /\ Stops(p, IF missing[p] = {} THEN "done" ELSE "lookup")

(* gh release upload finds a release by tag and refuses names it holds. *)
LookUp(p) ==
  /\ pc[p] = "lookup" /\ Works
  /\ \/ /\ releases = {} /\ Stops(p, "failed")
     \/ \E r \in releases :
          \/ /\ \E a \in missing[p] : held[r][a].state # "none"
             /\ Stops(p, "failed")
          \/ /\ \A a \in missing[p] : held[r][a].state = "none"
             /\ uploading' = [uploading EXCEPT ![p] = r]
             /\ Goto(p, "upload")
             /\ UNCHANGED <<seen, starters, missing, sent, remoteVars, deletes>>

Began(p, a) == \E s \in sent[p] : s[1] = a

(* The upload p began of asset a is what its release holds. *)
Mine(p, a) ==
  LET r == uploading[p] IN
  /\ r \in releases /\ held[r][a].state # "none"
  /\ <<a, held[r][a].serial>> \in sent[p]

(* Faulty BeginAsset: waits for a taken name to be free. *)
BeginAssetWhenFree(p, a) ==
  LET r == uploading[p] IN
  /\ pc[p] = "upload" /\ a \in missing[p] /\ ~Began(p, a) /\ Works
  /\ r \in releases /\ held[r][a].state = "none"
  /\ held' = [held EXCEPT ![r][a] =
       [state |-> "starter", of |-> Target[p], serial |-> @.serial + 1]]
  /\ sent' = [sent EXCEPT ![p] = @ \cup {<<a, held[r][a].serial + 1>>}]
  /\ UNCHANGED <<pc, seen, starters, missing, uploading,
                 releases, made, draftOf, published, tag, deletes>>

(* The upload of one asset begins; GitHub refuses a name it holds. *)
BeginAsset(p, a) ==
  LET r == uploading[p] IN
  /\ pc[p] = "upload" /\ a \in missing[p] /\ ~Began(p, a) /\ Works
  /\ \/ /\ r \in releases /\ held[r][a].state = "none"
        /\ held' = [held EXCEPT ![r][a] =
             [state |-> "starter", of |-> Target[p], serial |-> @.serial + 1]]
        /\ sent' = [sent EXCEPT ![p] = @ \cup {<<a, held[r][a].serial + 1>>}]
        /\ UNCHANGED <<pc, seen, starters, missing, uploading,
                       releases, made, draftOf, published, tag, deletes>>
     \/ /\ r \notin releases \/ held[r][a].state # "none"
        /\ Stops(p, "failed")

(* The bytes of one asset have arrived: the call may fail all the same. *)
FinishAsset(p, a) ==
  LET r == uploading[p] IN
  /\ pc[p] = "upload" /\ Mine(p, a) /\ held[r][a].state = "starter"
  /\ held' = [held EXCEPT ![r][a].state = "uploaded"]
  /\ \/ Works /\ UNCHANGED pc
     \/ Breaks /\ Goto(p, "failed")
  /\ UNCHANGED <<planVars, releases, made, draftOf, published, tag, deletes>>

(* The asset it was sending is gone from the release. *)
LoseAsset(p, a) ==
  /\ pc[p] = "upload" /\ Began(p, a) /\ ~Mine(p, a) /\ Works
  /\ Stops(p, "failed")

UploadDone(p) ==
  /\ pc[p] = "upload" /\ Works
  /\ \A a \in missing[p] : Mine(p, a) /\ held[uploading[p]][a].state = "uploaded"
  /\ Stops(p, "done")

-----------------------------------------------------------------------------
(* The operator *)

Holds(r, a) == held[r][a].state = "uploaded" /\ held[r][a].of = draftOf[r]
Complete(r) == \A a \in Assets : Holds(r, a)

(* The release an execution wrote to, or found to need nothing. *)
WorkedOn(p) == IF missing[p] = {} THEN seen[p].release ELSE uploading[p]

(* Publishes a draft once an execution has reported success for it; the tag *)
(* is made at the draft's target unless it exists.                          *)
PublishRelease(r) ==
  /\ r \in releases \ published /\ published = {}
  /\ \E p \in Publishers : pc[p] = "done" /\ WorkedOn(p) = r
  /\ published' = published \cup {r}
  /\ tag' = IF tag = NoCommit THEN draftOf[r] ELSE tag
  /\ Works
  /\ UNCHANGED <<pc, planVars, releases, made, draftOf, held, deletes>>

(* Deletes a release, its tag stays. *)
DeleteRelease(r) ==
  /\ r \in releases /\ deletes < MaxDeletes
  /\ Overlap \/ \A p \in Publishers : ~Running(p)
  /\ releases' = releases \ {r} /\ published' = published \ {r}
  /\ deletes' = deletes + 1
  /\ Works
  /\ UNCHANGED <<pc, planVars, made, draftOf, held, tag>>

Step(p) ==
  \/ VerifyLocal(p) \/ ListReleases(p) \/ ReadTag(p)
  \/ CreateDraft(p) \/ DeleteStarter(p) \/ DeletesDone(p) \/ LookUp(p)
  \/ \E a \in Assets : BeginAsset(p, a) \/ FinishAsset(p, a) \/ LoseAsset(p, a)
  \/ UploadDone(p)

Next ==
  \/ \E p \in Publishers : Start(p) \/ Step(p) \/ Dies(p)
  \/ \E r \in Ids : PublishRelease(r) \/ DeleteRelease(r)

Spec == Init /\ [][Next]_vars
FairSpec == Spec /\ \A p \in Publishers : WF_vars(Start(p)) /\ WF_vars(Step(p))

-----------------------------------------------------------------------------
(* Properties, of executions that do not overlap *)

(* publish, with the operator's own steps, keeps the promise made of a      *)
(* release: one draft at a time, of one commit, that gathers that commit's  *)
(* assets, loses none and is published whole, whatever call fails midway.   *)
Promise == INSTANCE ReleasePromise WITH
  stage <- IF published # {} THEN "published"
           ELSE IF releases # {} THEN "draft" ELSE "none",
  commit <- {draftOf[r] : r \in releases},
  contents <- UNION {{<<a, held[r][a].of>> : a \in {b \in Assets : held[r][b].state = "uploaded"}}
                     : r \in releases}
KeepsPromise == Promise!Spec

(* An execution that returns without an error leaves a release of its       *)
(* commit that holds every asset, byte for byte: also one that found        *)
(* nothing to do, or that resumed what another one had left.                *)
CompletesWhatIsDone ==
  \A p \in Publishers : pc[p] # "done" /\ pc'[p] = "done" =>
    \E r \in releases : draftOf[r] = Target[p] /\ Complete(r)
DoneIsComplete == [][CompletesWhatIsDone]_vars

(* The tag of a published release resolves to the commit that recorded its  *)
(* index, although GitHub ignores --target when the tag exists: an earlier  *)
(* release that was deleted leaves its tag.                                 *)
TagNamesItsCommit == \A r \in published : tag = draftOf[r]

(* Running publish again safely resumes: with more executions than failed   *)
(* calls a release is completed in the end, wherever the failures struck.   *)
ReleaseIsComplete == \E r \in releases : Complete(r)
RerunsComplete == <>ReleaseIsComplete

(* Executions that do overlap, and undo each other's work, all come to an   *)
(* end: a deleted upload or a taken name is an error, never a wait.         *)
EveryPublishEnded == \A p \in Publishers : pc[p] \in Ends
PublishEnds == <>EveryPublishEnded
================================================================================
