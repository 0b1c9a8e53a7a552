----------------------------- MODULE ArtifactProofs -----------------------------
(***************************************************************************)
(* Theorems about the distribution of artifact bundles.                    *)
(*                                                                         *)
(* The publication of a release, for any executions, assets and commits,   *)
(* and any number of releases, failures and deletions: as long as          *)
(* executions do not overlap, and the operator deletes a release only when *)
(* none runs, publish keeps the promise of ReleasePromise.                 *)
(*                                                                         *)
(* Restoring a bundle (Fetch!), for any number of executions of fetch that *)
(* overlap, fail and are killed, and any changes of the archive that some  *)
(* of them read.                                                           *)
(*                                                                         *)
(* Packing and recording (Pack!), for any catalog, any number of commands, *)
(* killed at any step, and any changes of the trees.                       *)
(***************************************************************************)
EXTENDS ArtifactPublish, TLAPS

(* What is assumed of the constants: the bounds are numbers, and every      *)
(* execution is for a commit.                                               *)
ReleaseBounds ==
  /\ MaxReleases \in Nat /\ MaxFaults \in Nat /\ MaxDeletes \in Nat
  /\ Target \in [Publishers -> Commits] /\ NoCommit \notin Commits

-----------------------------------------------------------------------------
(* Types *)

(* Where no release was found there is nothing to delete. *)
NothingSeen == \A p \in Publishers : seen[p].release = 0 => seen[p].assets = NothingHeld

(* Releases are numbered in the order in which they are made. *)
NumbersFit ==
  \A p \in Publishers : seen[p].release <= made /\ uploading[p] <= made

ReleasesTyped == TypeOK /\ NothingSeen /\ NumbersFit

LEMMA InitTyped ==
  ASSUME ReleaseBounds, Init
  PROVE  ReleasesTyped
<1>1. NotSeen \in [release : 0 .. MaxReleases, draft : BOOLEAN, assets : [Assets -> AssetRecords]]
  BY DEF ReleaseBounds, NotSeen, NothingHeld, Absent, AssetRecords
<1>2. NothingHeld \in [Assets -> AssetRecords]
  BY DEF NothingHeld, Absent, AssetRecords
<1>3. TypeOK
  BY <1>1, <1>2 DEF ReleaseBounds, Init, TypeOK, Steps, Ids
<1>4. NothingSeen /\ NumbersFit
  BY DEF Init, NothingSeen, NumbersFit, NotSeen
<1> QED
  BY <1>3, <1>4 DEF ReleasesTyped

(* An execution that moves on leaves the others where they are. *)
LEMMA Moves ==
  ASSUME TypeOK, NEW p \in Publishers, NEW step \in Steps \cup Ends, Goto(p, step)
  PROVE  /\ pc' \in [Publishers -> Steps \cup Ends] /\ pc'[p] = step
         /\ \A q \in Publishers : q # p => pc'[q] = pc[q]
BY DEF TypeOK, Goto

LEMMA FaultsStay ==
  ASSUME ReleaseBounds, TypeOK, Works \/ Breaks
  PROVE  faults' \in 0 .. MaxFaults
BY DEF ReleaseBounds, TypeOK, Works, Breaks

(* A step after which an execution stands elsewhere and nothing else is      *)
(* changed but what failed.                                                  *)
LEMMA StopTyped ==
  ASSUME ReleaseBounds, ReleasesTyped, NEW p \in Publishers, NEW step \in Steps \cup Ends,
         Stops(p, step), Works \/ Breaks
  PROVE  ReleasesTyped'
<1>1. pc' \in [Publishers -> Steps \cup Ends] /\ faults' \in 0 .. MaxFaults
  BY Moves, FaultsStay DEF ReleasesTyped, Stops
<1>2. UNCHANGED <<planVars, remoteVars, deletes>>
  BY DEF Stops
<1> QED
  BY <1>1, <1>2 DEF ReleasesTyped, TypeOK, NothingSeen, NumbersFit, planVars, remoteVars

(* A plan is made of what was read. *)
LEMMA PlanTyped ==
  ASSUME ReleaseBounds, ReleasesTyped, NEW p \in Publishers, NEW step \in Steps \cup Ends,
         Plan(p), Goto(p, step), Works
  PROVE  ReleasesTyped'
<1>1. pc' \in [Publishers -> Steps \cup Ends] /\ faults' \in 0 .. MaxFaults
  BY Moves, FaultsStay DEF ReleasesTyped
<1>2. PICK ids \in SUBSET (Ids \X Assets \X Nat) : ids = StarterIds(p)
  <2>1. ASSUME NEW a \in Listed(p, "starter")
        PROVE  <<seen[p].release, a, seen[p].assets[a].serial>> \in Ids \X Assets \X Nat
    <3>1. a \in Assets /\ seen[p].assets[a].state = "starter"
      BY DEF Listed
    <3>2. seen[p].release # 0
      BY <3>1 DEF ReleasesTyped, NothingSeen, NothingHeld, Absent
    <3>3. seen[p].release \in Ids /\ seen[p].assets[a].serial \in Nat
      BY <3>1, <3>2 DEF ReleaseBounds, ReleasesTyped, TypeOK, AssetRecords, Ids
    <3> QED
      BY <3>1, <3>3
  <2> QED
    BY <2>1 DEF StarterIds
<1>3. starters' \in [Publishers -> SUBSET (Ids \X Assets \X Nat)]
  BY <1>2 DEF Plan, ReleasesTyped, TypeOK
<1>4. missing' \in [Publishers -> SUBSET Assets]
  BY DEF Plan, ReleasesTyped, TypeOK
<1> QED
  BY <1>1, <1>3, <1>4
     DEF Plan, ReleasesTyped, TypeOK, NothingSeen, NumbersFit, remoteVars

(* One asset of one release changes its state, and nothing else does. *)
LEMMA StateChanges ==
  ASSUME TypeOK, NEW r \in Ids, NEW a \in Assets, NEW s \in {"none", "starter", "uploaded"},
         held' = [held EXCEPT ![r][a].state = s]
  PROVE  /\ held' \in [Ids -> [Assets -> AssetRecords]]
         /\ held'[r][a].state = s /\ held'[r][a].of = held[r][a].of
         /\ held'[r][a].serial = held[r][a].serial
         /\ \A x \in Ids, b \in Assets : x # r \/ b # a => held'[x][b] = held[x][b]
<1>1. held \in [Ids -> [Assets -> AssetRecords]]
  BY DEF TypeOK
<1>2. held[r][a] \in AssetRecords
  BY <1>1
<1>3. PICK asset : asset = [held[r][a] EXCEPT !.state = s]
  OBVIOUS
<1>4. asset \in AssetRecords /\ asset.state = s
      /\ asset.of = held[r][a].of /\ asset.serial = held[r][a].serial
  BY <1>2, <1>3 DEF AssetRecords
<1>5. held' = [held EXCEPT ![r] = [held[r] EXCEPT ![a] = asset]]
  BY <1>3
<1>6. held'[r] = [held[r] EXCEPT ![a] = asset] /\ \A x \in Ids : x # r => held'[x] = held[x]
  BY <1>1, <1>5
<1>7. held'[r][a] = asset /\ \A b \in Assets : b # a => held'[r][b] = held[r][b]
  BY <1>1, <1>6
<1>8. held' \in [Ids -> [Assets -> AssetRecords]]
  BY <1>1, <1>4, <1>5
<1> QED
  BY <1>4, <1>6, <1>7, <1>8

LEMMA StepTyped ==
  ASSUME ReleaseBounds, ReleasesTyped, [Next]_vars
  PROVE  ReleasesTyped'
<1> USE DEF Steps, Ends
<1>1. CASE UNCHANGED vars
  BY <1>1 DEF ReleasesTyped, TypeOK, NothingSeen, NumbersFit, vars, planVars, remoteVars
<1>2. ASSUME NEW p \in Publishers, Start(p) \/ Dies(p) \/ VerifyLocal(p) PROVE ReleasesTyped'
  BY <1>2, StopTyped DEF Start, Dies, VerifyLocal
<1>3. ASSUME NEW p \in Publishers, ListReleases(p) PROVE ReleasesTyped'
  <2>1. pc' \in [Publishers -> Steps \cup Ends] /\ faults' \in 0 .. MaxFaults
    BY <1>3, Moves, FaultsStay DEF ListReleases, ReleasesTyped
  <2>2. PICK read \in [release : 0 .. MaxReleases, draft : BOOLEAN,
                       assets : [Assets -> AssetRecords]] :
          /\ seen' = [seen EXCEPT ![p] = read]
          /\ read.release <= made /\ (read.release = 0 => read.assets = NothingHeld)
    <3>1. CASE seen' = [seen EXCEPT ![p] = NotSeen]
      <4>1. NotSeen \in [release : 0 .. MaxReleases, draft : BOOLEAN,
                         assets : [Assets -> AssetRecords]]
        BY DEF ReleaseBounds, NotSeen, NothingHeld, Absent, AssetRecords
      <4>2. PICK read \in [release : 0 .. MaxReleases, draft : BOOLEAN,
                           assets : [Assets -> AssetRecords]] : read = NotSeen
        BY <4>1
      <4>3. read.release = 0 /\ read.assets = NothingHeld /\ 0 <= made
        BY <4>2 DEF NotSeen, ReleasesTyped, TypeOK, ReleaseBounds
      <4>4. seen' = [seen EXCEPT ![p] = read]
        BY <3>1, <4>2
      <4> QED
        BY <4>3, <4>4
    <3>2. ASSUME NEW r \in releases,
                 seen' = [seen EXCEPT ![p] =
                            [release |-> r, draft |-> r \notin published, assets |-> held[r]]]
          PROVE  \E read \in [release : 0 .. MaxReleases, draft : BOOLEAN,
                              assets : [Assets -> AssetRecords]] :
                   /\ seen' = [seen EXCEPT ![p] = read]
                   /\ read.release <= made /\ (read.release = 0 => read.assets = NothingHeld)
      <4>1. r \in Ids /\ r <= made /\ r # 0 /\ r \in 0 .. MaxReleases
        BY DEF ReleaseBounds, ReleasesTyped, TypeOK, Ids
      <4>2. held[r] \in [Assets -> AssetRecords] /\ (r \notin published) \in BOOLEAN
        BY <4>1 DEF ReleasesTyped, TypeOK
      <4>3. PICK read :
              read = [release |-> r, draft |-> r \notin published, assets |-> held[r]]
        OBVIOUS
      <4>4. read \in [release : 0 .. MaxReleases, draft : BOOLEAN,
                      assets : [Assets -> AssetRecords]]
            /\ read.release = r
        BY <4>1, <4>2, <4>3
      <4> QED
        BY <3>2, <4>1, <4>3, <4>4
    <3> QED
      BY <1>3, <3>1, <3>2 DEF ListReleases
  <2>3. /\ seen' \in [Publishers -> [release : 0 .. MaxReleases, draft : BOOLEAN,
                                     assets : [Assets -> AssetRecords]]]
        /\ \A q \in Publishers : seen'[q] = IF q = p THEN read ELSE seen[q]
    BY <2>2 DEF ReleasesTyped, TypeOK
  <2>4. UNCHANGED <<starters, missing, uploading, sent, remoteVars, deletes>>
    BY <1>3 DEF ListReleases
  <2>5. NothingSeen' /\ NumbersFit'
    BY <2>2, <2>3, <2>4 DEF ReleasesTyped, NothingSeen, NumbersFit, remoteVars
  <2> QED
    BY <2>1, <2>3, <2>4, <2>5 DEF ReleasesTyped, TypeOK, remoteVars
<1>4. ASSUME NEW p \in Publishers, ReadTag(p) PROVE ReleasesTyped'
  BY <1>4, StopTyped, PlanTyped DEF ReadTag
<1>5. ASSUME NEW p \in Publishers, CreateDraft(p) PROVE ReleasesTyped'
  <2>1. CASE Stops(p, "failed")
    BY <1>5, <2>1, StopTyped DEF CreateDraft
  <2>2. CASE ~Stops(p, "failed")
    <3>1. /\ made < MaxReleases /\ made' = made + 1
          /\ releases' = releases \cup {made + 1}
          /\ draftOf' = [draftOf EXCEPT ![made + 1] = Target[p]]
          /\ UNCHANGED <<planVars, published, held, tag, deletes>>
          /\ Goto(p, "delete") \/ Goto(p, "failed")
          /\ Works \/ Breaks
      BY <1>5, <2>2 DEF CreateDraft
    <3>2. pc' \in [Publishers -> Steps \cup Ends] /\ faults' \in 0 .. MaxFaults
      BY <3>1, Moves, FaultsStay DEF ReleasesTyped
    <3>3. /\ made' \in 0 .. MaxReleases /\ releases' \subseteq 1 .. made'
          /\ published \subseteq releases'
      BY <3>1 DEF ReleaseBounds, ReleasesTyped, TypeOK
    <3>4. draftOf' \in [Ids -> Commits \cup {NoCommit}]
      BY <3>1 DEF ReleaseBounds, ReleasesTyped, TypeOK, Ids
    <3>5. NothingSeen' /\ NumbersFit'
      BY <3>1 DEF ReleaseBounds, ReleasesTyped, TypeOK, NothingSeen, NumbersFit, planVars
    <3> QED
      BY <3>1, <3>2, <3>3, <3>4, <3>5 DEF ReleasesTyped, TypeOK, planVars
  <2> QED
    BY <2>1, <2>2
<1>6. ASSUME NEW p \in Publishers, DeleteStarter(p) PROVE ReleasesTyped'
  <2>1. CASE Stops(p, "failed")
    BY <1>6, <2>1, StopTyped DEF DeleteStarter
  <2>2. CASE ~Stops(p, "failed")
    <3>1. PICK id \in starters[p] :
            /\ held' = [held EXCEPT ![id[1]][id[2]].state = "none"]
            /\ starters' = [starters EXCEPT ![p] = starters[p] \ {id}]
            /\ (Works /\ UNCHANGED pc) \/ (Breaks /\ Goto(p, "failed"))
            /\ UNCHANGED <<seen, missing, uploading, sent,
                           releases, made, draftOf, published, tag, deletes>>
      BY <1>6, <2>2 DEF DeleteStarter
    <3>2. pc' \in [Publishers -> Steps \cup Ends] /\ faults' \in 0 .. MaxFaults
      BY <3>1, Moves, FaultsStay DEF ReleasesTyped, TypeOK
    <3>3. id[1] \in Ids /\ id[2] \in Assets
      BY DEF ReleasesTyped, TypeOK
    <3>4. held' \in [Ids -> [Assets -> AssetRecords]]
      BY <3>1, <3>3, StateChanges DEF ReleasesTyped
    <3>5. starters' \in [Publishers -> SUBSET (Ids \X Assets \X Nat)]
      BY <3>1 DEF ReleasesTyped, TypeOK
    <3> QED
      BY <3>1, <3>2, <3>4, <3>5 DEF ReleasesTyped, TypeOK, NothingSeen, NumbersFit
  <2> QED
    BY <2>1, <2>2
<1>7. ASSUME NEW p \in Publishers, DeletesDone(p) \/ UploadDone(p) PROVE ReleasesTyped'
  BY <1>7, StopTyped DEF DeletesDone, UploadDone
<1>8. ASSUME NEW p \in Publishers, LookUp(p) PROVE ReleasesTyped'
  <2>1. CASE Stops(p, "failed")
    BY <1>8, <2>1, StopTyped DEF LookUp
  <2>2. CASE ~Stops(p, "failed")
    <3>1. PICK r \in releases :
            /\ uploading' = [uploading EXCEPT ![p] = r]
            /\ Goto(p, "upload") /\ Works
            /\ UNCHANGED <<seen, starters, missing, sent, remoteVars, deletes>>
      BY <1>8, <2>2 DEF LookUp
    <3>2. pc' \in [Publishers -> Steps \cup Ends] /\ faults' \in 0 .. MaxFaults
      BY <3>1, Moves, FaultsStay DEF ReleasesTyped
    <3>3. r \in 0 .. MaxReleases /\ r <= made
      BY DEF ReleaseBounds, ReleasesTyped, TypeOK
    <3>4. /\ uploading' \in [Publishers -> 0 .. MaxReleases]
          /\ \A q \in Publishers : uploading'[q] = IF q = p THEN r ELSE uploading[q]
      BY <3>1, <3>3 DEF ReleasesTyped, TypeOK
    <3> QED
      BY <3>1, <3>2, <3>3, <3>4
         DEF ReleasesTyped, TypeOK, NothingSeen, NumbersFit, remoteVars
  <2> QED
    BY <2>1, <2>2
<1>9. ASSUME NEW p \in Publishers, NEW a \in Assets, BeginAsset(p, a) PROVE ReleasesTyped'
  <2>1. CASE Stops(p, "failed")
    BY <1>9, <2>1, StopTyped DEF BeginAsset
  <2>2. CASE ~Stops(p, "failed")
    <3>1. PICK r \in releases :
            /\ held' = [held EXCEPT ![r][a] =
                 [state |-> "starter", of |-> Target[p], serial |-> held[r][a].serial + 1]]
            /\ sent' = [sent EXCEPT ![p] = sent[p] \cup {<<a, held[r][a].serial + 1>>}]
      BY <1>9, <2>2 DEF BeginAsset
    <3>2. /\ Works
          /\ UNCHANGED <<pc, seen, starters, missing, uploading,
                         releases, made, draftOf, published, tag, deletes>>
      BY <1>9, <2>2 DEF BeginAsset
    <3>3. faults' \in 0 .. MaxFaults
      BY <3>2, FaultsStay DEF ReleasesTyped
    <3>4. r \in Ids
      BY DEF ReleaseBounds, ReleasesTyped, TypeOK, Ids
    <3>5. held[r][a].serial + 1 \in Nat
      BY <3>4 DEF ReleasesTyped, TypeOK, AssetRecords
    <3>6. PICK asset \in AssetRecords :
            asset = [state |-> "starter", of |-> Target[p], serial |-> held[r][a].serial + 1]
      BY <3>5 DEF ReleaseBounds, AssetRecords
    <3>7. held' \in [Ids -> [Assets -> AssetRecords]]
      BY <3>1, <3>4, <3>6 DEF ReleasesTyped, TypeOK
    <3>8. sent' \in [Publishers -> SUBSET (Assets \X Nat)]
      BY <3>1, <3>5 DEF ReleasesTyped, TypeOK
    <3> QED
      BY <3>2, <3>3, <3>7, <3>8 DEF ReleasesTyped, TypeOK, NothingSeen, NumbersFit
  <2> QED
    BY <2>1, <2>2
<1>10. ASSUME NEW p \in Publishers, NEW a \in Assets, FinishAsset(p, a) PROVE ReleasesTyped'
  <2>1. /\ uploading[p] \in releases
        /\ held' = [held EXCEPT ![uploading[p]][a].state = "uploaded"]
        /\ (Works /\ UNCHANGED pc) \/ (Breaks /\ Goto(p, "failed"))
        /\ UNCHANGED <<planVars, releases, made, draftOf, published, tag, deletes>>
    BY <1>10 DEF FinishAsset, Mine
  <2>2. pc' \in [Publishers -> Steps \cup Ends] /\ faults' \in 0 .. MaxFaults
    BY <2>1, Moves, FaultsStay DEF ReleasesTyped, TypeOK
  <2>3. uploading[p] \in Ids
    BY <2>1 DEF ReleaseBounds, ReleasesTyped, TypeOK, Ids
  <2>4. held' \in [Ids -> [Assets -> AssetRecords]]
    BY <2>1, <2>3, StateChanges DEF ReleasesTyped
  <2> QED
    BY <2>1, <2>2, <2>4 DEF ReleasesTyped, TypeOK, NothingSeen, NumbersFit, planVars
<1>11. ASSUME NEW p \in Publishers, NEW a \in Assets, LoseAsset(p, a) PROVE ReleasesTyped'
  BY <1>11, StopTyped DEF LoseAsset
<1>12. ASSUME NEW r \in Ids, PublishRelease(r) PROVE ReleasesTyped'
  <2>1. faults' \in 0 .. MaxFaults
    BY <1>12, FaultsStay DEF PublishRelease, ReleasesTyped
  <2> QED
    BY <1>12, <2>1 DEF PublishRelease, ReleasesTyped, TypeOK, NothingSeen, NumbersFit, planVars
<1>13. ASSUME NEW r \in Ids, DeleteRelease(r) PROVE ReleasesTyped'
  <2>1. faults' \in 0 .. MaxFaults /\ deletes' \in 0 .. MaxDeletes
    BY <1>13, FaultsStay DEF DeleteRelease, ReleasesTyped, TypeOK, ReleaseBounds
  <2> QED
    BY <1>13, <2>1 DEF DeleteRelease, ReleasesTyped, TypeOK, NothingSeen, NumbersFit, planVars
<1> QED
  BY <1>1, <1>2, <1>3, <1>4, <1>5, <1>6, <1>7, <1>8, <1>9, <1>10, <1>11, <1>12, <1>13
     DEF Next, Step

(* Every variable of a publication keeps its type, whether executions       *)
(* overlap or not (tools/artifacts.py).                                     *)
THEOREM PublishTypeCorrect ==
  ASSUME ReleaseBounds
  PROVE  Spec => []TypeOK
<1>1. Init => ReleasesTyped
  BY InitTyped
<1>2. ReleasesTyped /\ [Next]_vars => ReleasesTyped'
  BY StepTyped
<1>3. ReleasesTyped => TypeOK
  BY DEF ReleasesTyped
<1> QED
  BY <1>1, <1>2, <1>3, PTL DEF Spec

-----------------------------------------------------------------------------
(* Executions one after the other *)

(* One execution runs at a time. *)
OneRuns == \A p, q \in Publishers : Running(p) /\ Running(q) => p = q

(* There is one release, which gathers the assets of the commit it is for.   *)
(* A published one is complete and has the tag; a draft leaves the tag free. *)
RemoteFits ==
  /\ \A r, s \in releases : r = s
  /\ \A r \in Ids, a \in Assets : r > made => held[r][a].state = "none"
  /\ \A r \in releases, a \in Assets :
       held[r][a].state # "none" => held[r][a].of = draftOf[r]
  /\ \A r \in releases : IF r \in published THEN Complete(r) /\ tag = draftOf[r]
                                            ELSE tag = NoCommit

(* The execution works on release r, which is for its commit: what it does   *)
(* not upload is there, and what it deletes is not.                          *)
WorksOn(p, r) ==
  /\ draftOf[r] = Target[p] /\ seen[p].release \in {0, r}
  /\ \A a \in Assets \ missing[p] : held[r][a].state = "uploaded"
  /\ pc[p] = "delete" =>
       \A id \in starters[p] :
         id[1] = r /\ held[r][id[2]].state = "starter" /\ held[r][id[2]].serial = id[3]
  /\ pc[p] = "upload" => uploading[p] = r

(* What a running execution has read is still so, because no other runs and  *)
(* the operator only publishes; what a successful one worked on is complete. *)
ReadingFits(p) ==
  /\ pc[p] = "tag" =>
       IF seen[p].release = 0
       THEN releases = {}
       ELSE releases = {seen[p].release} /\ seen[p].assets = held[seen[p].release]
  /\ pc[p] = "create" =>
       /\ releases = {} /\ tag = NoCommit
       /\ seen[p].release = 0 /\ starters[p] = {} /\ missing[p] = Assets
  /\ pc[p] \in {"delete", "lookup", "upload"} => \E r \in releases : WorksOn(p, r)
  /\ pc[p] = "done" => \A r \in releases : WorkedOn(p) = r => Complete(r)

PublishersFit == \A p \in Publishers : ReadingFits(p)

PublishInv == OneRuns /\ RemoteFits /\ PublishersFit

(* A step of one execution leaves what the others have read and planned. *)
OthersRest(p) ==
  \A q \in Publishers : q # p =>
    /\ pc'[q] = pc[q] /\ seen'[q] = seen[q] /\ starters'[q] = starters[q]
    /\ missing'[q] = missing[q] /\ uploading'[q] = uploading[q]

LEMMA StepOfOne ==
  ASSUME TypeOK, NEW p \in Publishers, Start(p) \/ Step(p) \/ Dies(p)
  PROVE  OthersRest(p) /\ (Running(p) \/ Start(p))
<1> USE DEF OthersRest, planVars, Running, Steps, Ends
<1>1. ASSUME NEW step \in Steps \cup Ends, Stops(p, step) PROVE OthersRest(p)
  BY <1>1, Moves DEF Stops
<1>2. CASE Start(p) \/ Dies(p) \/ VerifyLocal(p) \/ DeletesDone(p) \/ UploadDone(p)
  BY <1>1, <1>2 DEF Start, Dies, VerifyLocal, DeletesDone, UploadDone
<1>3. CASE ListReleases(p)
  <2>1. \E read : seen' = [seen EXCEPT ![p] = read]
    BY <1>3 DEF ListReleases
  <2>2. \A q \in Publishers : q # p => seen'[q] = seen[q]
    BY <2>1 DEF TypeOK
  <2> QED
    BY <1>3, <2>2, Moves DEF ListReleases
<1>4. CASE ReadTag(p)
  <2>1. Plan(p) => \A q \in Publishers : q # p =>
          /\ seen'[q] = seen[q] /\ starters'[q] = starters[q]
          /\ missing'[q] = missing[q] /\ uploading'[q] = uploading[q]
    BY DEF Plan, TypeOK
  <2>2. \/ \E step \in Steps \cup Ends : Stops(p, step)
        \/ Plan(p) /\ \E step \in Steps \cup Ends : Goto(p, step)
    BY <1>4 DEF ReadTag
  <2> QED
    BY <1>1, <1>4, <2>1, <2>2, Moves DEF ReadTag
<1>5. CASE CreateDraft(p)
  BY <1>1, <1>5, Moves DEF CreateDraft
<1>6. CASE DeleteStarter(p)
  <2>1. CASE Stops(p, "failed")
    BY <1>1, <1>6, <2>1 DEF DeleteStarter
  <2>2. CASE ~Stops(p, "failed")
    <3>1. \E ids : starters' = [starters EXCEPT ![p] = ids]
      BY <1>6, <2>2 DEF DeleteStarter
    <3>2. \A q \in Publishers : q # p => starters'[q] = starters[q]
      BY <3>1 DEF TypeOK
    <3>3. UNCHANGED <<seen, missing, uploading>> /\ (UNCHANGED pc \/ Goto(p, "failed"))
      BY <1>6, <2>2 DEF DeleteStarter
    <3> QED
      BY <1>6, <3>2, <3>3, Moves DEF DeleteStarter
  <2> QED
    BY <2>1, <2>2
<1>7. CASE LookUp(p)
  <2>1. CASE Stops(p, "failed")
    BY <1>1, <1>7, <2>1 DEF LookUp
  <2>2. CASE ~Stops(p, "failed")
    <3>1. \E r : uploading' = [uploading EXCEPT ![p] = r]
      BY <1>7, <2>2 DEF LookUp
    <3>2. \A q \in Publishers : q # p => uploading'[q] = uploading[q]
      BY <3>1 DEF TypeOK
    <3>3. UNCHANGED <<seen, starters, missing>> /\ Goto(p, "upload")
      BY <1>7, <2>2 DEF LookUp
    <3> QED
      BY <1>7, <3>2, <3>3, Moves DEF LookUp
  <2> QED
    BY <2>1, <2>2
<1>8. ASSUME NEW a \in Assets, BeginAsset(p, a) \/ FinishAsset(p, a) \/ LoseAsset(p, a)
      PROVE  OthersRest(p) /\ (Running(p) \/ Start(p))
  BY <1>1, <1>8, Moves DEF BeginAsset, FinishAsset, LoseAsset
<1> QED
  BY <1>2, <1>3, <1>4, <1>5, <1>6, <1>7, <1>8 DEF Step

(* An execution is started when none runs, and no step wakes another one. *)
LEMMA OneRunsStep ==
  ASSUME TypeOK, OneRuns, ~Overlap, [Next]_vars
  PROVE  OneRuns'
<1>1. CASE UNCHANGED pc
  BY <1>1 DEF OneRuns, Running
<1>2. ASSUME NEW p \in Publishers, Start(p) \/ Step(p) \/ Dies(p) PROVE OneRuns'
  <2>1. \A q \in Publishers : q # p => pc'[q] = pc[q]
    BY <1>2, StepOfOne DEF OthersRest
  <2>2. Running(p) \/ \A q \in Publishers : ~Running(q)
    BY <1>2, StepOfOne DEF Start
  <2> QED
    BY <2>1, <2>2 DEF OneRuns, Running
<1> QED
  BY <1>1, <1>2 DEF Next, PublishRelease, DeleteRelease, vars

(* What nobody changes stays complete. *)
LEMMA CompleteKept ==
  ASSUME NEW r, Complete(r), draftOf'[r] = draftOf[r],
         \A a \in Assets : held[r][a].state = "uploaded" => held'[r][a] = held[r][a]
  PROVE  Complete(r)'
BY DEF Complete, Holds

(* A step that leaves the remote as it is. *)
LEMMA LocalStep ==
  ASSUME PublishInv, NEW p \in Publishers, OthersRest(p), UNCHANGED remoteVars, OneRuns',
         ReadingFits(p)'
  PROVE  PublishInv'
<1>1. RemoteFits'
  BY DEF PublishInv, RemoteFits, remoteVars, Complete, Holds
<1>2. ASSUME NEW q \in Publishers, q # p PROVE ReadingFits(q)'
  BY <1>2 DEF PublishInv, PublishersFit, OthersRest, ReadingFits, WorksOn, WorkedOn, remoteVars,
              Complete, Holds
<1> QED
  BY <1>1, <1>2 DEF PublishInv, PublishersFit

(* A step of the only execution that runs, which changes an asset that is    *)
(* not complete.                                                             *)
LEMMA AssetStep ==
  ASSUME ReleaseBounds, ReleasesTyped, PublishInv, NEW p \in Publishers, Running(p), OthersRest(p),
         OneRuns', NEW r \in releases, NEW a \in Assets, held[r][a].state # "uploaded",
         \A x \in Ids, b \in Assets : x # r \/ b # a => held'[x][b] = held[x][b],
         held'[r][a].state # "none" => held'[r][a].of = draftOf[r],
         UNCHANGED <<releases, made, draftOf, published, tag>>, ReadingFits(p)'
  PROVE  PublishInv'
<1>1. releases \subseteq Ids /\ \A s \in releases : s <= made
  BY DEF ReleaseBounds, ReleasesTyped, TypeOK, Ids
<1>2. ~Complete(r) /\ r \notin published
  BY DEF PublishInv, RemoteFits, Complete, Holds
<1>3. ASSUME NEW s \in releases, Complete(s) PROVE Complete(s)'
  <2>1. s # r
    BY <1>2, <1>3
  <2> QED
    BY <1>1, <1>3, <2>1, CompleteKept
<1>4. RemoteFits'
  <2>1. \A s \in Ids, b \in Assets : s > made => held'[s][b].state = "none"
    <3>1. ~(r > made)
      BY <1>1 DEF ReleaseBounds, ReleasesTyped, TypeOK
    <3> QED
      BY <3>1 DEF PublishInv, RemoteFits
  <2>2. \A s \in releases, b \in Assets :
          held'[s][b].state # "none" => held'[s][b].of = draftOf[s]
    BY <1>1 DEF PublishInv, RemoteFits
  <2>3. \A s \in releases : IF s \in published THEN Complete(s)' /\ tag = draftOf[s]
                                               ELSE tag = NoCommit
    BY <1>3 DEF PublishInv, RemoteFits
  <2> QED
    BY <2>1, <2>2, <2>3 DEF PublishInv, RemoteFits
<1>5. ASSUME NEW q \in Publishers, q # p PROVE ReadingFits(q)'
  <2>1. ~Running(q) /\ pc[q] \in Steps \cup Ends
    BY <1>5 DEF PublishInv, OneRuns, ReleasesTyped, TypeOK
  <2>2. pc'[q] = pc[q] /\ pc[q] \in Ends \cup {"idle"}
    BY <1>5, <2>1 DEF OthersRest, Running
  <2>3. WorkedOn(q)' = WorkedOn(q)
    BY <1>5 DEF OthersRest, WorkedOn
  <2> QED
    BY <1>3, <2>2, <2>3 DEF PublishInv, PublishersFit, ReadingFits, Ends
<1> QED
  BY <1>4, <1>5 DEF PublishInv, PublishersFit

(* Reading the remote and planning. *)
LEMMA ReadingStep ==
  ASSUME ReleaseBounds, ReleasesTyped, PublishInv, NEW p \in Publishers,
         ListReleases(p) \/ ReadTag(p)
  PROVE  ReadingFits(p)'
<1>1. CASE ListReleases(p)
  <2>1. pc'[p] = "tag" /\ UNCHANGED remoteVars
    BY <1>1, Moves DEF ListReleases, ReleasesTyped, Steps
  <2>2. CASE releases = {} /\ seen' = [seen EXCEPT ![p] = NotSeen]
    <3>1. seen'[p].release = 0
      BY <2>2 DEF ReleasesTyped, TypeOK, NotSeen
    <3> QED
      BY <2>1, <2>2, <3>1 DEF ReadingFits, remoteVars
  <2>3. ASSUME NEW r \in releases,
               seen' = [seen EXCEPT ![p] =
                          [release |-> r, draft |-> r \notin published, assets |-> held[r]]]
        PROVE  ReadingFits(p)'
    <3>1. seen'[p].release = r /\ seen'[p].assets = held[r]
      BY <2>3 DEF ReleasesTyped, TypeOK
    <3>2. r # 0
      BY DEF ReleasesTyped, TypeOK
    <3>3. releases = {r}
      BY DEF PublishInv, RemoteFits
    <3> QED
      BY <2>1, <3>1, <3>2, <3>3 DEF ReadingFits, remoteVars
  <2> QED
    BY <1>1, <2>2, <2>3 DEF ListReleases
<1>2. CASE ReadTag(p)
  <2>1. pc[p] = "tag" /\ UNCHANGED <<remoteVars, seen>>
    BY <1>2 DEF ReadTag, Stops, Plan, planVars
  <2>2. ASSUME NEW step \in {"refused", "planned"}, Goto(p, step) PROVE ReadingFits(p)'
    BY <2>2, Moves DEF ReadingFits, ReleasesTyped, Steps, Ends
  <2>3. ASSUME Plan(p), seen[p].release = 0, tag = NoCommit, Goto(p, "create")
        PROVE  ReadingFits(p)'
    <3>1. pc'[p] = "create"
      BY <2>3, Moves DEF ReleasesTyped, Steps
    <3>2. releases = {} /\ seen[p].assets = NothingHeld
      BY <2>1, <2>3 DEF PublishInv, PublishersFit, ReadingFits, ReleasesTyped, NothingSeen
    <3>3. StarterIds(p) = {} /\ Listed(p, "uploaded") = {}
      BY <3>2 DEF StarterIds, Listed, NothingHeld, Absent
    <3>4. starters'[p] = {} /\ missing'[p] = Assets
      BY <2>3, <3>3 DEF Plan, ReleasesTyped, TypeOK
    <3> QED
      BY <2>1, <2>3, <3>1, <3>2, <3>4 DEF ReadingFits, remoteVars
  <2>4. ASSUME Plan(p), seen[p].release # 0, Resumable(p), Goto(p, "delete")
        PROVE  ReadingFits(p)'
    <3>1. pc'[p] = "delete"
      BY <2>4, Moves DEF ReleasesTyped, Steps
    <3>2. PICK r \in releases : r = seen[p].release
      BY <2>1, <2>4 DEF PublishInv, PublishersFit, ReadingFits
    <3>3. seen[p].assets = held[r] /\ draftOf[r] = Target[p]
      BY <2>1, <2>4, <3>2 DEF PublishInv, PublishersFit, ReadingFits, Resumable
    <3>4. starters'[p] = StarterIds(p) /\ missing'[p] = Assets \ Listed(p, "uploaded")
      BY <2>4 DEF Plan, ReleasesTyped, TypeOK
    <3>5. \A a \in Assets \ missing'[p] : held[r][a].state = "uploaded"
      BY <3>3, <3>4 DEF Listed
    <3>6. \A id \in starters'[p] :
            id[1] = r /\ held[r][id[2]].state = "starter" /\ held[r][id[2]].serial = id[3]
      BY <3>2, <3>3, <3>4 DEF StarterIds, Listed
    <3>7. WorksOn(p, r)'
      BY <2>1, <3>1, <3>2, <3>3, <3>5, <3>6 DEF WorksOn, remoteVars
    <3> QED
      BY <2>1, <3>1, <3>7 DEF ReadingFits, remoteVars
  <2> QED
    BY <1>2, <2>2, <2>3, <2>4 DEF ReadTag, Stops
<1> QED
  BY <1>1, <1>2

(* Steps of an execution that works on its release and leaves it as it is. *)
LEMMA WorkStep ==
  ASSUME ReleaseBounds, ReleasesTyped, PublishInv, NEW p \in Publishers,
         DeletesDone(p) \/ LookUp(p) \/ UploadDone(p)
  PROVE  /\ ReadingFits(p)'
         /\ pc'[p] = "done" => \E r \in releases : draftOf[r] = Target[p] /\ Complete(r)
<1>1. PICK r \in releases : WorksOn(p, r)
  BY DEF PublishInv, PublishersFit, ReadingFits, DeletesDone, LookUp, UploadDone
<1>2. UNCHANGED <<remoteVars, seen, missing, starters>> /\ \A s \in releases : s = r
  BY DEF DeletesDone, LookUp, UploadDone, Stops, planVars, PublishInv, RemoteFits
<1>3. (\A a \in missing[p] : held[r][a].state = "uploaded") => Complete(r)
  BY <1>1 DEF WorksOn, PublishInv, RemoteFits, Complete, Holds
<1>4. CASE DeletesDone(p)
  <2>1. UNCHANGED uploading
    BY <1>4 DEF DeletesDone, Stops, planVars
  <2>2. CASE missing[p] = {}
    <3>1. pc'[p] = "done" /\ Complete(r)
      BY <1>3, <1>4, <2>2, Moves DEF DeletesDone, Stops, ReleasesTyped, Ends
    <3> QED
      BY <1>1, <1>2, <3>1 DEF ReadingFits, remoteVars, Complete, Holds, WorksOn
  <2>3. CASE missing[p] # {}
    <3>1. pc'[p] = "lookup"
      BY <1>4, <2>3, Moves DEF DeletesDone, Stops, ReleasesTyped, Steps
    <3>2. WorksOn(p, r)'
      BY <1>1, <1>2, <3>1 DEF WorksOn, remoteVars
    <3> QED
      BY <1>2, <3>1, <3>2 DEF ReadingFits, remoteVars
  <2> QED
    BY <2>2, <2>3
<1>5. CASE LookUp(p)
  <2>1. CASE Goto(p, "failed")
    <3>1. pc'[p] = "failed"
      BY <2>1, Moves DEF ReleasesTyped, Ends
    <3> QED
      BY <3>1 DEF ReadingFits
  <2>2. CASE ~Goto(p, "failed")
    <3>1. Goto(p, "upload") /\ \E s \in releases : uploading' = [uploading EXCEPT ![p] = s]
      BY <1>5, <2>2 DEF LookUp, Stops
    <3>2. pc'[p] = "upload" /\ uploading'[p] = r
      BY <1>2, <3>1, Moves DEF ReleasesTyped, TypeOK, Steps
    <3>3. WorksOn(p, r)'
      BY <1>1, <1>2, <3>2 DEF WorksOn, remoteVars
    <3> QED
      BY <1>2, <3>2, <3>3 DEF ReadingFits, remoteVars
  <2> QED
    BY <2>1, <2>2
<1>6. CASE UploadDone(p)
  <2>1. pc'[p] = "done" /\ uploading[p] = r
    BY <1>1, <1>6, Moves DEF UploadDone, Stops, ReleasesTyped, Ends, WorksOn
  <2>2. Complete(r)
    BY <1>3, <1>6, <2>1 DEF UploadDone
  <2> QED
    BY <1>1, <1>2, <2>1, <2>2 DEF ReadingFits, remoteVars, Complete, Holds, WorksOn
<1> QED
  BY <1>4, <1>5, <1>6

(* A draft is created where there is none and the tag is free. *)
LEMMA DraftStep ==
  ASSUME ReleaseBounds, ReleasesTyped, PublishInv, OneRuns', NEW p \in Publishers, CreateDraft(p),
         published = {}
  PROVE  PublishInv' /\ Promise!Open(Target[p])
<1>0. PICK r \in Ids : r = made + 1
  BY DEF CreateDraft, ReleaseBounds, ReleasesTyped, TypeOK, Ids
<1>1. /\ pc[p] = "create" /\ made < MaxReleases /\ made' = r
      /\ releases' = releases \cup {r}
      /\ draftOf' = [draftOf EXCEPT ![r] = Target[p]]
      /\ UNCHANGED <<planVars, published, held, tag, deletes>>
      /\ Goto(p, "delete") \/ Goto(p, "failed")
  BY <1>0 DEF CreateDraft
<1>2. /\ releases = {} /\ tag = NoCommit
      /\ seen[p].release = 0 /\ starters[p] = {} /\ missing[p] = Assets
  BY <1>1 DEF PublishInv, PublishersFit, ReadingFits
<1>3. r > made /\ draftOf'[r] = Target[p] /\ releases' = {r} /\ r \notin published
  BY <1>0, <1>1, <1>2 DEF ReleaseBounds, ReleasesTyped, TypeOK, Ids
<1>4. \A a \in Assets : held[r][a].state = "none"
  BY <1>3 DEF PublishInv, RemoteFits
<1>5. RemoteFits'
  <2>1. \A s \in Ids, a \in Assets : s > made' => held[s][a].state = "none"
    BY <1>0, <1>1, <1>3 DEF PublishInv, RemoteFits, ReleasesTyped, TypeOK, Ids
  <2> QED
    BY <1>1, <1>2, <1>3, <1>4, <2>1 DEF RemoteFits
<1>6. ReadingFits(p)'
  <2>1. pc'[p] \in {"delete", "failed"}
    BY <1>1, Moves DEF ReleasesTyped, Steps, Ends
  <2>2. WorksOn(p, r)'
    BY <1>1, <1>2, <1>3, <2>1 DEF WorksOn, planVars
  <2> QED
    BY <1>3, <2>1, <2>2 DEF ReadingFits
<1>7. ASSUME NEW q \in Publishers, q # p PROVE ReadingFits(q)'
  <2>1. Running(p) /\ OthersRest(p)
    BY <1>1, StepOfOne DEF ReleasesTyped, Step, Running, Ends
  <2>2. pc'[q] \in Ends \cup {"idle"}
    BY <1>7, <2>1 DEF PublishInv, OneRuns, OthersRest, Running
  <2>3. WorkedOn(q)' <= made
    BY <1>1 DEF WorkedOn, planVars, ReleasesTyped, NumbersFit
  <2>4. WorkedOn(q)' # r
    BY <1>3, <2>3 DEF ReleaseBounds, ReleasesTyped, TypeOK, Ids
  <2> QED
    BY <1>3, <2>2, <2>4 DEF ReadingFits, Ends
<1>8. Promise!Open(Target[p])
  <2>1. {draftOf'[s] : s \in releases'} = {Target[p]} /\ releases' # {}
    BY <1>3
  <2>2. UNION {{<<a, held'[s][a].of>> : a \in {b \in Assets : held'[s][b].state = "uploaded"}}
               : s \in releases'} = {}
    BY <1>1, <1>3, <1>4
  <2> QED
    BY <1>1, <1>2, <2>1, <2>2 DEF Promise!Open
<1> QED
  BY <1>5, <1>6, <1>7, <1>8 DEF PublishInv, PublishersFit

(* What release r has gathered. *)
Gathered(r) ==
  {<<a, held[r][a].of>> : a \in {b \in Assets : held[r][b].state = "uploaded"}}

(* A step that leaves the remote as it is leaves the promised release. *)
LEMMA RemoteRests ==
  ASSUME UNCHANGED remoteVars
  PROVE  UNCHANGED Promise!vars
BY DEF remoteVars, Promise!vars

(* A step that changes no complete asset changes nothing that is promised. *)
LEMMA GatheredRests ==
  ASSUME UNCHANGED <<releases, draftOf, published>>, \A r \in releases : Gathered(r)' = Gathered(r)
  PROVE  UNCHANGED Promise!vars
<1>1. {Gathered(r) : r \in releases}' = {Gathered(r) : r \in releases}
  OBVIOUS
<1> QED
  BY <1>1 DEF Promise!vars, Gathered

(* Deleting an asset whose upload was cut short. *)
LEMMA DeleteStep ==
  ASSUME ReleaseBounds, ReleasesTyped, PublishInv, OneRuns', NEW p \in Publishers, DeleteStarter(p)
  PROVE  PublishInv' /\ UNCHANGED Promise!vars /\ pc'[p] # "done"
<1>1. Running(p) /\ OthersRest(p) /\ pc[p] = "delete"
  BY StepOfOne DEF DeleteStarter, ReleasesTyped, Step, Running, Ends
<1>2. CASE Stops(p, "failed")
  <2>1. pc'[p] = "failed" /\ UNCHANGED remoteVars
    BY <1>2, Moves DEF Stops, ReleasesTyped, Ends
  <2>2. ReadingFits(p)'
    BY <2>1 DEF ReadingFits
  <2> QED
    BY <1>1, <2>1, <2>2, LocalStep, RemoteRests
<1>3. CASE ~Stops(p, "failed")
  <2>1. PICK r \in releases : WorksOn(p, r)
    BY <1>1 DEF PublishInv, PublishersFit, ReadingFits
  <2>2. PICK id \in starters[p] :
          /\ held' = [held EXCEPT ![id[1]][id[2]].state = "none"]
          /\ starters' = [starters EXCEPT ![p] = starters[p] \ {id}]
          /\ UNCHANGED pc \/ Goto(p, "failed")
          /\ UNCHANGED <<seen, missing, uploading, sent,
                         releases, made, draftOf, published, tag, deletes>>
    BY <1>3 DEF DeleteStarter
  <2>3. id \in Ids \X Assets \X Nat /\ starters[p] \subseteq Ids \X Assets \X Nat
    BY DEF ReleasesTyped, TypeOK
  <2>4. PICK a \in Assets : a = id[2]
    BY <2>3
  <2>5. id[1] = r /\ held[r][a].state = "starter" /\ held[r][a].serial = id[3] /\ r \in Ids
    BY <1>1, <2>1, <2>3, <2>4 DEF WorksOn
  <2>6. held' = [held EXCEPT ![r][a].state = "none"]
    BY <2>2, <2>4, <2>5
  <2>7. /\ held'[r][a].state = "none"
        /\ \A x \in Ids, b \in Assets : x # r \/ b # a => held'[x][b] = held[x][b]
    BY <2>5, <2>6, StateChanges DEF ReleasesTyped
  <2>8. pc'[p] \in {"delete", "failed"}
    BY <1>1, <2>2, Moves DEF ReleasesTyped, Ends
  <2>9. starters'[p] = starters[p] \ {id}
    BY <2>2 DEF ReleasesTyped, TypeOK
  <2>10. ASSUME NEW x \in starters'[p]
         PROVE  x[1] = r /\ held'[r][x[2]].state = "starter" /\ held'[r][x[2]].serial = x[3]
    <3>1. x \in Ids \X Assets \X Nat /\ x # id /\ x \in starters[p]
      BY <2>3, <2>9, <2>10
    <3>2. x[1] = r /\ held[r][x[2]].state = "starter" /\ held[r][x[2]].serial = x[3]
      BY <1>1, <2>1, <3>1 DEF WorksOn
    <3>3. x[2] # a
      BY <2>3, <2>4, <2>5, <3>1, <3>2
    <3>4. held'[r][x[2]] = held[r][x[2]]
      BY <2>5, <2>7, <3>1, <3>3
    <3> QED
      BY <3>2, <3>4
  <2>11. \A b \in Assets \ missing[p] : held'[r][b].state = "uploaded"
    BY <2>1, <2>5, <2>7 DEF WorksOn
  <2>12. WorksOn(p, r)'
    BY <2>1, <2>2, <2>8, <2>10, <2>11 DEF WorksOn
  <2>13. ReadingFits(p)'
    BY <2>2, <2>8, <2>12 DEF ReadingFits
  <2>14. PublishInv'
    BY <1>1, <2>2, <2>5, <2>7, <2>13, AssetStep
  <2>15. ASSUME NEW s \in releases PROVE Gathered(s)' = Gathered(s)
    <3>1. s = r
      BY DEF PublishInv, RemoteFits
    <3> QED
      BY <2>5, <2>7, <3>1 DEF Gathered
  <2>16. UNCHANGED Promise!vars
    BY <2>2, <2>15, GatheredRests
  <2> QED
    BY <2>8, <2>14, <2>16
<1> QED
  BY <1>2, <1>3

(* The upload of an asset begins. *)
LEMMA BeginStep ==
  ASSUME ReleaseBounds, ReleasesTyped, PublishInv, OneRuns', NEW p \in Publishers,
         NEW a \in Assets, BeginAsset(p, a)
  PROVE  PublishInv' /\ UNCHANGED Promise!vars /\ pc'[p] # "done"
<1>1. Running(p) /\ OthersRest(p) /\ pc[p] = "upload" /\ a \in missing[p]
  BY StepOfOne DEF BeginAsset, ReleasesTyped, Step, Running, Ends
<1>2. CASE Stops(p, "failed")
  <2>1. pc'[p] = "failed" /\ UNCHANGED remoteVars
    BY <1>2, Moves DEF Stops, ReleasesTyped, Ends
  <2>2. ReadingFits(p)'
    BY <2>1 DEF ReadingFits
  <2> QED
    BY <1>1, <2>1, <2>2, LocalStep, RemoteRests
<1>3. CASE ~Stops(p, "failed")
  <2>1. PICK r \in releases : WorksOn(p, r)
    BY <1>1 DEF PublishInv, PublishersFit, ReadingFits
  <2>2. uploading[p] = r /\ draftOf[r] = Target[p] /\ r \in Ids
    BY <1>1, <2>1 DEF WorksOn, ReleaseBounds, ReleasesTyped, TypeOK, Ids
  <2>3. PICK asset :
          asset = [state |-> "starter", of |-> Target[p], serial |-> held[r][a].serial + 1]
    OBVIOUS
  <2>4. /\ held[r][a].state = "none"
        /\ held' = [held EXCEPT ![r][a] = asset]
        /\ UNCHANGED <<pc, seen, starters, missing, uploading,
                       releases, made, draftOf, published, tag, deletes>>
    BY <1>3, <2>2, <2>3 DEF BeginAsset
  <2>5. /\ held'[r][a] = asset
        /\ \A x \in Ids, b \in Assets : x # r \/ b # a => held'[x][b] = held[x][b]
    BY <2>2, <2>4 DEF ReleasesTyped, TypeOK
  <2>6. asset.state = "starter" /\ asset.of = draftOf[r]
    BY <2>2, <2>3
  <2>7. \A b \in Assets \ missing[p] : held'[r][b].state = "uploaded"
    BY <1>1, <2>1, <2>2, <2>5 DEF WorksOn
  <2>8. WorksOn(p, r)'
    BY <1>1, <2>1, <2>4, <2>7 DEF WorksOn
  <2>9. ReadingFits(p)'
    BY <1>1, <2>4, <2>8 DEF ReadingFits
  <2>10. PublishInv'
    BY <1>1, <2>4, <2>5, <2>6, <2>9, AssetStep
  <2>11. ASSUME NEW s \in releases PROVE Gathered(s)' = Gathered(s)
    <3>1. s = r
      BY DEF PublishInv, RemoteFits
    <3> QED
      BY <2>2, <2>4, <2>5, <2>6, <3>1 DEF Gathered
  <2>12. UNCHANGED Promise!vars
    BY <2>4, <2>11, GatheredRests
  <2> QED
    BY <1>1, <2>4, <2>10, <2>12
<1> QED
  BY <1>2, <1>3

(* The upload of an asset is complete: it is added to the release. *)
LEMMA FinishStep ==
  ASSUME ReleaseBounds, ReleasesTyped, PublishInv, OneRuns', NEW p \in Publishers,
         NEW a \in Assets, FinishAsset(p, a)
  PROVE  PublishInv' /\ Promise!Add(a) /\ pc'[p] # "done"
<1>1. Running(p) /\ OthersRest(p) /\ pc[p] = "upload"
  BY StepOfOne DEF FinishAsset, ReleasesTyped, Step, Running, Ends
<1>2. PICK r \in releases : WorksOn(p, r)
  BY <1>1 DEF PublishInv, PublishersFit, ReadingFits
<1>3. uploading[p] = r /\ r \in Ids
  BY <1>1, <1>2 DEF WorksOn, ReleaseBounds, ReleasesTyped, TypeOK, Ids
<1>4. /\ held[r][a].state = "starter"
      /\ held' = [held EXCEPT ![r][a].state = "uploaded"]
      /\ UNCHANGED pc \/ Goto(p, "failed")
      /\ UNCHANGED <<planVars, releases, made, draftOf, published, tag, deletes>>
  BY <1>3 DEF FinishAsset
<1>5. /\ held'[r][a].state = "uploaded" /\ held'[r][a].of = held[r][a].of
      /\ \A x \in Ids, b \in Assets : x # r \/ b # a => held'[x][b] = held[x][b]
  BY <1>3, <1>4, StateChanges DEF ReleasesTyped
<1>6. held[r][a].of = draftOf[r] /\ releases = {r}
  BY <1>4 DEF PublishInv, RemoteFits
<1>7. pc'[p] \in {"upload", "failed"}
  BY <1>1, <1>4, Moves DEF ReleasesTyped, Ends
<1>8. \A b \in Assets \ missing[p] : held'[r][b].state = "uploaded"
  BY <1>2, <1>3, <1>5 DEF WorksOn
<1>9. WorksOn(p, r)'
  BY <1>2, <1>3, <1>4, <1>7, <1>8 DEF WorksOn, planVars
<1>10. ReadingFits(p)'
  BY <1>4, <1>7, <1>9 DEF ReadingFits
<1>11. PublishInv'
  BY <1>1, <1>4, <1>5, <1>6, <1>10, AssetStep
<1>12. r \notin published
  BY <1>4 DEF PublishInv, RemoteFits, Complete, Holds
<1>13. published = {}
  BY <1>6, <1>12 DEF ReleasesTyped, TypeOK
<1>14. {draftOf[s] : s \in releases} = {draftOf[r]}
  BY <1>6
<1>15. Gathered(r)' = Gathered(r) \cup ({a} \X {draftOf[r]})
  BY <1>3, <1>4, <1>5, <1>6 DEF Gathered
<1>16. /\ (UNION {Gathered(s) : s \in releases}) = Gathered(r)
       /\ (UNION {Gathered(s) : s \in releases})' = Gathered(r)'
  BY <1>4, <1>6
<1>17. /\ (UNION {Gathered(s) : s \in releases})' =
            (UNION {Gathered(s) : s \in releases}) \cup ({a} \X {draftOf[s] : s \in releases})
       /\ {draftOf[s] : s \in releases}' = {draftOf[s] : s \in releases}
  BY <1>4, <1>14, <1>15, <1>16
<1>18. Promise!Add(a)
  BY <1>4, <1>6, <1>13, <1>17 DEF Promise!Add, Gathered
<1> QED
  BY <1>7, <1>11, <1>18

(* The operator publishes what an execution reported complete. *)
LEMMA PublishedStep ==
  ASSUME ReleasesTyped, PublishInv, OneRuns', NEW r \in Ids, PublishRelease(r)
  PROVE  PublishInv' /\ Promise!Publish
<1>1. /\ r \in releases /\ published = {} /\ published' = {r}
      /\ tag' = IF tag = NoCommit THEN draftOf[r] ELSE tag
      /\ UNCHANGED <<pc, planVars, releases, made, draftOf, held, deletes>>
  BY DEF PublishRelease
<1>2. Complete(r)
  BY DEF PublishRelease, PublishInv, PublishersFit, ReadingFits
<1>3. tag' = draftOf[r] /\ releases = {r}
  BY <1>1 DEF PublishInv, RemoteFits
<1>4. RemoteFits'
  BY <1>1, <1>2, <1>3 DEF PublishInv, RemoteFits, Complete, Holds
<1>5. ASSUME NEW q \in Publishers PROVE ReadingFits(q)'
  <2>1. pc[q] # "create"
    BY <1>1 DEF PublishInv, PublishersFit, ReadingFits
  <2> QED
    BY <1>1, <2>1 DEF PublishInv, PublishersFit, ReadingFits, WorksOn, WorkedOn, planVars,
                      Complete, Holds
<1>6. Gathered(r) = Assets \X {draftOf[r]}
  BY <1>2 DEF Gathered, Complete, Holds
<1>7. /\ (UNION {Gathered(s) : s \in releases}) = Assets \X {draftOf[s] : s \in releases}
      /\ (UNION {Gathered(s) : s \in releases})' = UNION {Gathered(s) : s \in releases}
      /\ {draftOf[s] : s \in releases}' = {draftOf[s] : s \in releases}
  BY <1>1, <1>3, <1>6 DEF Gathered
<1>8. Promise!Publish
  BY <1>1, <1>7 DEF Promise!Publish, Gathered
<1> QED
  BY <1>4, <1>5, <1>8 DEF PublishInv, PublishersFit

(* The operator deletes a release while no execution runs. *)
LEMMA DeletedStep ==
  ASSUME ReleasesTyped, PublishInv, OneRuns', ~Overlap, NEW r \in Ids, DeleteRelease(r)
  PROVE  PublishInv' /\ Promise!Withdraw
<1>1. /\ r \in releases /\ releases' = releases \ {r} /\ published' = published \ {r}
      /\ UNCHANGED <<pc, planVars, made, draftOf, held, tag>>
      /\ \A q \in Publishers : ~Running(q)
  BY DEF DeleteRelease
<1>2. releases = {r} /\ published \subseteq releases
  BY <1>1 DEF PublishInv, RemoteFits, ReleasesTyped, TypeOK
<1>3. releases' = {} /\ published' = {}
  BY <1>1, <1>2
<1>4. RemoteFits'
  BY <1>1, <1>3 DEF PublishInv, RemoteFits
<1>5. ASSUME NEW q \in Publishers PROVE ReadingFits(q)'
  <2>1. pc'[q] \in Ends \cup {"idle"}
    BY <1>1 DEF Running
  <2> QED
    BY <1>3, <2>1 DEF ReadingFits, Ends
<1>6. Promise!Withdraw
  BY <1>1, <1>3 DEF Promise!Withdraw
<1> QED
  BY <1>4, <1>5, <1>6 DEF PublishInv, PublishersFit

(* Every step keeps the invariant, keeps the promise, and succeeds only      *)
(* where the release is complete.                                            *)
LEMMA ReleaseStep ==
  ASSUME ReleaseBounds, ~Overlap, ReleasesTyped, PublishInv, [Next]_vars
  PROVE  PublishInv' /\ [Promise!Next]_(Promise!vars) /\ [CompletesWhatIsDone]_vars
<1>1. OneRuns'
  BY OneRunsStep DEF ReleasesTyped, PublishInv
<1>2. CASE UNCHANGED vars
  <2>1. UNCHANGED <<pc, planVars, remoteVars>>
    BY <1>2 DEF vars
  <2>2. RemoteFits'
    BY <2>1 DEF PublishInv, RemoteFits, remoteVars, Complete, Holds
  <2>3. PublishersFit'
    BY <2>1 DEF PublishInv, PublishersFit, ReadingFits, WorksOn, WorkedOn, planVars, remoteVars,
                Complete, Holds
  <2> QED
    BY <1>1, <1>2, <2>1, <2>2, <2>3, RemoteRests DEF PublishInv
<1>3. ASSUME NEW p \in Publishers, Start(p) \/ Step(p) \/ Dies(p),
             PublishInv', [Promise!Next]_(Promise!vars),
             pc[p] # "done" /\ pc'[p] = "done" =>
               \E r \in releases : draftOf[r] = Target[p] /\ Complete(r)
      PROVE  PublishInv' /\ [Promise!Next]_(Promise!vars) /\ [CompletesWhatIsDone]_vars
  <2>1. \A q \in Publishers : q # p => pc'[q] = pc[q]
    BY <1>3, StepOfOne DEF ReleasesTyped, OthersRest
  <2> QED
    BY <1>3, <2>1 DEF CompletesWhatIsDone
<1>4. ASSUME NEW p \in Publishers, NEW step \in {"verify", "list", "failed", "refused"},
             Start(p) \/ Step(p) \/ Dies(p), Stops(p, step)
      PROVE  PublishInv' /\ [Promise!Next]_(Promise!vars) /\ [CompletesWhatIsDone]_vars
  <2>1. pc'[p] = step /\ UNCHANGED remoteVars
    BY <1>4, Moves DEF Stops, ReleasesTyped, Steps, Ends
  <2>2. OthersRest(p) /\ ReadingFits(p)'
    BY <1>4, <2>1, StepOfOne DEF ReleasesTyped, ReadingFits
  <2> QED
    BY <1>1, <1>3, <1>4, <2>1, <2>2, LocalStep, RemoteRests
<1>5. ASSUME NEW p \in Publishers, ListReleases(p) \/ ReadTag(p)
      PROVE  PublishInv' /\ [Promise!Next]_(Promise!vars) /\ [CompletesWhatIsDone]_vars
  <2>1. UNCHANGED remoteVars /\ pc'[p] # "done"
    BY <1>5, Moves DEF ListReleases, ReadTag, Plan, Stops, ReleasesTyped, Steps, Ends
  <2>2. Step(p) /\ OthersRest(p) /\ ReadingFits(p)'
    BY <1>5, StepOfOne, ReadingStep DEF Step, ReleasesTyped
  <2> QED
    BY <1>1, <1>3, <2>1, <2>2, LocalStep, RemoteRests
<1>6. ASSUME NEW p \in Publishers, CreateDraft(p)
      PROVE  PublishInv' /\ [Promise!Next]_(Promise!vars) /\ [CompletesWhatIsDone]_vars
  <2>1. CASE published = {}
    <3>1. PublishInv' /\ Promise!Open(Target[p])
      BY <1>1, <1>6, <2>1, DraftStep
    <3>2. [Promise!Next]_(Promise!vars)
      BY <3>1 DEF Promise!Next, ReleaseBounds
    <3>3. pc'[p] # "done"
      BY <1>6, Moves DEF CreateDraft, Stops, ReleasesTyped, Steps, Ends
    <3> QED
      BY <1>3, <1>6, <3>1, <3>2, <3>3 DEF Step
  <2>2. CASE published # {}
    BY <1>4, <1>6, <2>2 DEF CreateDraft, Step
  <2> QED
    BY <2>1, <2>2
<1>7. ASSUME NEW p \in Publishers, DeleteStarter(p)
      PROVE  PublishInv' /\ [Promise!Next]_(Promise!vars) /\ [CompletesWhatIsDone]_vars
  BY <1>1, <1>3, <1>7, DeleteStep DEF Step
<1>8. ASSUME NEW p \in Publishers, DeletesDone(p) \/ LookUp(p) \/ UploadDone(p)
      PROVE  PublishInv' /\ [Promise!Next]_(Promise!vars) /\ [CompletesWhatIsDone]_vars
  <2>1. UNCHANGED remoteVars
    BY <1>8 DEF DeletesDone, LookUp, UploadDone, Stops
  <2>2. Step(p) /\ OthersRest(p) /\ ReadingFits(p)'
    BY <1>8, StepOfOne, WorkStep DEF Step, ReleasesTyped
  <2>3. pc'[p] = "done" => \E r \in releases : draftOf[r] = Target[p] /\ Complete(r)
    BY <1>8, WorkStep
  <2> QED
    BY <1>1, <1>3, <2>1, <2>2, <2>3, LocalStep, RemoteRests
<1>9. ASSUME NEW p \in Publishers, NEW a \in Assets, BeginAsset(p, a)
      PROVE  PublishInv' /\ [Promise!Next]_(Promise!vars) /\ [CompletesWhatIsDone]_vars
  BY <1>1, <1>3, <1>9, BeginStep DEF Step
<1>10. ASSUME NEW p \in Publishers, NEW a \in Assets, FinishAsset(p, a)
       PROVE  PublishInv' /\ [Promise!Next]_(Promise!vars) /\ [CompletesWhatIsDone]_vars
  <2>1. PublishInv' /\ Promise!Add(a) /\ pc'[p] # "done"
    BY <1>1, <1>10, FinishStep
  <2>2. [Promise!Next]_(Promise!vars)
    BY <2>1 DEF Promise!Next
  <2> QED
    BY <1>3, <1>10, <2>1, <2>2 DEF Step
<1>11. ASSUME NEW p \in Publishers, NEW a \in Assets, LoseAsset(p, a)
       PROVE  PublishInv' /\ [Promise!Next]_(Promise!vars) /\ [CompletesWhatIsDone]_vars
  BY <1>4, <1>11 DEF LoseAsset, Step
<1>12. ASSUME NEW p \in Publishers, Start(p) \/ VerifyLocal(p) \/ Dies(p)
       PROVE  PublishInv' /\ [Promise!Next]_(Promise!vars) /\ [CompletesWhatIsDone]_vars
  BY <1>4, <1>12 DEF Start, VerifyLocal, Dies, Step
<1>13. ASSUME NEW r \in Ids, PublishRelease(r)
       PROVE  PublishInv' /\ [Promise!Next]_(Promise!vars) /\ [CompletesWhatIsDone]_vars
  <2>1. PublishInv' /\ Promise!Publish
    BY <1>1, <1>13, PublishedStep
  <2>2. CompletesWhatIsDone
    BY <1>13 DEF PublishRelease, CompletesWhatIsDone
  <2> QED
    BY <2>1, <2>2 DEF Promise!Next
<1>14. ASSUME NEW r \in Ids, DeleteRelease(r)
       PROVE  PublishInv' /\ [Promise!Next]_(Promise!vars) /\ [CompletesWhatIsDone]_vars
  <2>1. PublishInv' /\ Promise!Withdraw
    BY <1>1, <1>14, DeletedStep
  <2>2. CompletesWhatIsDone
    BY <1>14 DEF DeleteRelease, CompletesWhatIsDone
  <2> QED
    BY <2>1, <2>2 DEF Promise!Next
<1> QED
  BY <1>2, <1>5, <1>6, <1>7, <1>8, <1>9, <1>10, <1>11, <1>12, <1>13, <1>14 DEF Next, Step

-----------------------------------------------------------------------------
(* The invariant of executions that do not overlap, and what it proves *)

LEMMA InitPublish ==
  ASSUME ReleaseBounds, Init
  PROVE  PublishInv /\ Promise!Init
<1>1. PublishInv
  BY DEF ReleaseBounds, Init, PublishInv, OneRuns, Running, RemoteFits, PublishersFit, ReadingFits,
         Ids, NothingHeld, Absent
<1>2. (UNION {Gathered(r) : r \in releases}) = {} /\ {draftOf[r] : r \in releases} = {}
  BY DEF Init
<1>3. Promise!Init
  BY <1>2 DEF Init, Promise!Init, Gathered
<1> QED
  BY <1>1, <1>3

LEMMA PublishInvHolds ==
  ASSUME ReleaseBounds, ~Overlap
  PROVE  Spec => [](ReleasesTyped /\ PublishInv)
<1>1. Init => ReleasesTyped /\ PublishInv
  BY InitTyped, InitPublish
<1>2. ReleasesTyped /\ PublishInv /\ [Next]_vars => (ReleasesTyped /\ PublishInv)'
  BY StepTyped, ReleaseStep
<1> QED
  BY <1>1, <1>2, PTL DEF Spec

(* The tag of a published release resolves to the commit that recorded its  *)
(* index, whatever call failed, whichever execution resumed, and although    *)
(* GitHub ignores --target where the tag exists (tools/artifacts.py).        *)
THEOREM PublishedTagIsItsCommit ==
  ASSUME ReleaseBounds, ~Overlap
  PROVE  Spec => []TagNamesItsCommit
<1>1. ReleasesTyped /\ PublishInv => TagNamesItsCommit
  BY DEF ReleasesTyped, TypeOK, PublishInv, RemoteFits, TagNamesItsCommit
<1> QED
  BY <1>1, PublishInvHolds, PTL

(* An execution that returns without an error leaves a release of its        *)
(* commit that holds every asset, also when it found nothing to do or        *)
(* resumed what a killed one left (publish in tools/artifacts.py).           *)
THEOREM SuccessMeansComplete ==
  ASSUME ReleaseBounds, ~Overlap
  PROVE  Spec => DoneIsComplete
<1>1. ReleasesTyped /\ PublishInv /\ [Next]_vars => [CompletesWhatIsDone]_vars
  BY ReleaseStep
<1> QED
  BY <1>1, PublishInvHolds, PTL DEF Spec, DoneIsComplete

(* Publication implements the promise of ReleasePromise: one draft at a      *)
(* time, of one commit, that gathers that commit's assets, loses none and    *)
(* is published whole.                                                       *)
THEOREM ReleaseKeepsPromise ==
  ASSUME ReleaseBounds, ~Overlap
  PROVE  Spec => KeepsPromise
<1>1. Init => Promise!Init
  BY InitPublish
<1>2. ReleasesTyped /\ PublishInv /\ [Next]_vars => [Promise!Next]_(Promise!vars)
  BY ReleaseStep
<1> QED
  BY <1>1, <1>2, PublishInvHolds, PTL DEF Spec, KeepsPromise, Promise!Spec
-----------------------------------------------------------------------------
(* Restoring a bundle *)

CONSTANTS Fetches, Downloads, MaxKills, MaxChanges

VARIABLES fetchPc, outcome, shelf, archive, tree, temporary, destination, restorer, fetchFaults,
          kills, changes

Fetch == INSTANCE ArtifactFetch WITH pc <- fetchPc, faults <- fetchFaults

(* The types that the arguments need. *)
FetchTyped ==
  /\ fetchPc \in [Fetches -> Fetch!Steps \cup Fetch!Ends]
  /\ outcome \in [Fetches -> {"restored", "failed"}]
  /\ tree \in [Fetches -> Fetch!Contents]

(* A tree is renamed only after it was verified, and no step in between     *)
(* changes it: it lies in the temporary directory of its execution.         *)
RenamedTreesAreGood == \A e \in Fetches : fetchPc[e] = "rename" => tree[e] = "good"

(* An execution that will report success has renamed its tree. *)
SuccessIsEarned ==
  \A e \in Fetches : outcome[e] = "restored" \/ fetchPc[e] = "restored" => e \in restorer

FetchInv ==
  /\ FetchTyped
  /\ RenamedTreesAreGood
  /\ SuccessIsEarned
  /\ Fetch!DestinationIsVerified
  /\ \A e, f \in restorer : e = f
  /\ restorer = {} <=> destination = "none"

LEMMA InitFetch == Fetch!Init => FetchInv
BY DEF Fetch!Init, FetchInv, FetchTyped, Fetch!Steps, Fetch!Ends, Fetch!Contents,
       RenamedTreesAreGood, SuccessIsEarned, Fetch!DestinationIsVerified

(* Raising, and going on without touching a directory, keep the invariant    *)
(* when the step gone to promises nothing.                                   *)
LEMMA FetchMoves ==
  ASSUME FetchInv, NEW e \in Fetches, NEW step \in Fetch!Steps \cup Fetch!Ends,
         step \notin {"rename", "restored"},
         Fetch!Goto(e, step), UNCHANGED <<Fetch!ownVars, Fetch!sharedVars>>
  PROVE  FetchInv'
BY DEF FetchInv, FetchTyped, Fetch!Goto, Fetch!ownVars, Fetch!sharedVars, RenamedTreesAreGood,
       SuccessIsEarned, Fetch!DestinationIsVerified

(* The rename: the destination was absent, and the tree was verified. *)
LEMMA RenameKeeps ==
  ASSUME FetchInv, NEW e \in Fetches, Fetch!Rename(e)
  PROVE  FetchInv'
<1>1. CASE destination # "none"
  <2>1. Fetch!Raises(e)
    BY <1>1 DEF Fetch!Rename
  <2> QED
    BY <2>1, FetchMoves DEF Fetch!Raises, Fetch!Steps
<1>2. CASE destination = "none"
  <2>1. /\ destination' = tree[e] /\ restorer' = restorer \cup {e}
        /\ tree' = [tree EXCEPT ![e] = "none"]
        /\ outcome' = [outcome EXCEPT ![e] = "restored"]
        /\ fetchPc' = [fetchPc EXCEPT ![e] = "cleanup"]
    BY <1>2 DEF Fetch!Rename, Fetch!Goto
  <2>2. tree[e] = "good" /\ restorer = {}
    BY <1>2 DEF Fetch!Rename, FetchInv, RenamedTreesAreGood
  <2>3. FetchTyped'
    BY <2>1 DEF FetchInv, FetchTyped, Fetch!Steps, Fetch!Contents
  <2>4. RenamedTreesAreGood' /\ SuccessIsEarned'
    BY <2>1 DEF FetchInv, FetchTyped, RenamedTreesAreGood, SuccessIsEarned
  <2>5. Fetch!DestinationIsVerified' /\ restorer' = {e} /\ destination' # "none"
    BY <2>1, <2>2 DEF Fetch!DestinationIsVerified
  <2> QED
    BY <2>3, <2>4, <2>5 DEF FetchInv
<1> QED
  BY <1>1, <1>2

(* Every other step of an execution. *)
LEMMA FetchStep ==
  ASSUME FetchInv, NEW e \in Fetches, Fetch!Start(e) \/ Fetch!Step(e) \/ Fetch!Killed(e)
  PROVE  FetchInv'
<1>1. CASE Fetch!Start(e) \/ Fetch!CheckDestination(e)
  <2>1. Fetch!Goto(e, "check") \/ Fetch!Goto(e, "mkdtemp") \/ Fetch!Goto(e, "refused")
    BY <1>1 DEF Fetch!Start, Fetch!CheckDestination
  <2>2. UNCHANGED <<Fetch!ownVars, Fetch!sharedVars>>
    BY <1>1 DEF Fetch!Start, Fetch!CheckDestination
  <2> QED
    BY <2>1, <2>2, FetchMoves DEF Fetch!Steps, Fetch!Ends
<1>2. CASE Fetch!MakeTemporary(e)
  BY <1>2 DEF Fetch!MakeTemporary, FetchInv, FetchTyped, Fetch!Goto, Fetch!sharedVars,
              Fetch!Steps, Fetch!Ends, RenamedTreesAreGood, SuccessIsEarned,
              Fetch!DestinationIsVerified
<1>3. CASE Fetch!Obtain(e)
  <2>1. /\ \/ fetchPc' = [fetchPc EXCEPT ![e] = "verify"]
          \/ fetchPc' = [fetchPc EXCEPT ![e] = "cleanup"]
        /\ UNCHANGED <<outcome, tree, destination, restorer>>
    BY <1>3 DEF Fetch!Obtain, Fetch!Goto, Fetch!Raises, Fetch!ownVars, Fetch!sharedVars
  <2> QED
    BY <2>1 DEF FetchInv, FetchTyped, Fetch!Steps, RenamedTreesAreGood, SuccessIsEarned,
                Fetch!DestinationIsVerified
<1>4. CASE Fetch!VerifyArchive(e) \/ Fetch!BreaksDown(e)
  <2>1. Fetch!Goto(e, "extract") \/ Fetch!Goto(e, "cleanup")
    BY <1>4 DEF Fetch!VerifyArchive, Fetch!BreaksDown, Fetch!Raises
  <2>2. UNCHANGED <<Fetch!ownVars, Fetch!sharedVars>>
    BY <1>4 DEF Fetch!VerifyArchive, Fetch!BreaksDown, Fetch!Raises
  <2> QED
    BY <2>1, <2>2, FetchMoves DEF Fetch!Steps
<1>5. CASE Fetch!Extract(e)
  <2>1. /\ \/ fetchPc' = [fetchPc EXCEPT ![e] = "identity"]
          \/ fetchPc' = [fetchPc EXCEPT ![e] = "cleanup"]
        /\ UNCHANGED <<outcome, destination, restorer>>
    BY <1>5 DEF Fetch!Extract, Fetch!Goto, Fetch!sharedVars
  <2>2. \E got \in Fetch!Contents : tree' = [tree EXCEPT ![e] = got] \/ tree' = tree
    BY <1>5 DEF Fetch!Extract, Fetch!Contents
  <2> QED
    BY <2>1, <2>2 DEF FetchInv, FetchTyped, Fetch!Steps, RenamedTreesAreGood, SuccessIsEarned,
                      Fetch!DestinationIsVerified
<1>6. CASE Fetch!VerifyTree(e)
  <2>1. CASE Fetch!Raises(e)
    BY <2>1, FetchMoves DEF Fetch!Raises, Fetch!Steps
  <2>2. CASE tree[e] = "good" /\ Fetch!Goto(e, "rename")
            /\ UNCHANGED <<Fetch!ownVars, Fetch!sharedVars>>
    BY <2>2 DEF FetchInv, FetchTyped, Fetch!Goto, Fetch!ownVars, Fetch!sharedVars, Fetch!Steps,
                RenamedTreesAreGood, SuccessIsEarned, Fetch!DestinationIsVerified
  <2> QED
    BY <1>6, <2>1, <2>2 DEF Fetch!VerifyTree
<1>7. CASE Fetch!RemoveTemporary(e)
  <2>1. /\ fetchPc' = [fetchPc EXCEPT ![e] = outcome[e]] /\ tree' = [tree EXCEPT ![e] = "none"]
        /\ UNCHANGED <<outcome, destination, restorer>>
    BY <1>7 DEF Fetch!RemoveTemporary, Fetch!Goto, Fetch!sharedVars
  <2>2. outcome[e] \in {"restored", "failed"}
    BY DEF FetchInv, FetchTyped
  <2> QED
    BY <2>1, <2>2 DEF FetchInv, FetchTyped, Fetch!Ends, Fetch!Contents, RenamedTreesAreGood,
                  SuccessIsEarned, Fetch!DestinationIsVerified
<1>8. CASE Fetch!Killed(e)
  <2>1. /\ fetchPc' = [fetchPc EXCEPT ![e] = "killed"]
        /\ UNCHANGED <<outcome, destination, restorer>>
        /\ tree' = tree \/ tree' = [tree EXCEPT ![e] = "partial"]
    BY <1>8 DEF Fetch!Killed, Fetch!Goto, Fetch!sharedVars
  <2> QED
    BY <2>1 DEF FetchInv, FetchTyped, Fetch!Ends, Fetch!Contents, RenamedTreesAreGood,
                SuccessIsEarned, Fetch!DestinationIsVerified
<1> QED
  BY <1>1, <1>2, <1>3, <1>4, <1>5, <1>6, <1>7, <1>8, RenameKeeps DEF Fetch!Step

LEMMA FetchInvHolds == Fetch!Spec => []FetchInv
<1>1. ASSUME FetchInv, [Fetch!Next]_Fetch!vars
      PROVE  FetchInv'
  <2>1. CASE \E e \in Fetches : Fetch!Start(e) \/ Fetch!Step(e) \/ Fetch!Killed(e)
    BY <1>1, <2>1, FetchStep
  <2>2. CASE Fetch!ChangeShelf
    BY <1>1, <2>2 DEF Fetch!ChangeShelf, Fetch!ownVars, FetchInv, FetchTyped, RenamedTreesAreGood,
                      SuccessIsEarned, Fetch!DestinationIsVerified
  <2>3. CASE UNCHANGED Fetch!vars
    BY <1>1, <2>3 DEF Fetch!vars, Fetch!ownVars, Fetch!sharedVars, FetchInv, FetchTyped,
                  RenamedTreesAreGood, SuccessIsEarned, Fetch!DestinationIsVerified
  <2> QED
    BY <1>1, <2>1, <2>2, <2>3 DEF Fetch!Next
<1> QED
  BY <1>1, InitFetch, PTL DEF Fetch!Spec

(* The destination is absent or holds the tree the index describes, whatever *)
(* was downloaded, whatever became of the archive while it was read, and     *)
(* wherever an execution of fetch died (fetch: verification of the extracted *)
(* tree, then the rename).                                                   *)
THEOREM RestoredTreeIsVerified == Fetch!Spec => []Fetch!DestinationIsVerified
BY FetchInvHolds, PTL DEF FetchInv

(* Of any number of overlapping executions of fetch at most one restores the *)
(* destination, and only that one reports success.                           *)
THEOREM OneFetchRestores == Fetch!Spec => []Fetch!OneRestores
<1>1. FetchInv => Fetch!OneRestores
  BY DEF FetchInv, SuccessIsEarned, Fetch!OneRestores
<1> QED
  BY <1>1, FetchInvHolds, PTL

-----------------------------------------------------------------------------
(* Packing and recording *)

CONSTANTS SlugCount, MaxVersion, MaxCommands, EditsWhilePacking

VARIABLES packPc, slug, entries, trees, archives, index, sums, recorded, commands

Pack == INSTANCE ArtifactPack WITH pc <- packPc

(* What is assumed of the constants: there is a catalog entry, a tree has a  *)
(* version, and commands are counted.                                       *)
PackBounds ==
  SlugCount \in Nat \ {0} /\ MaxVersion \in Nat \ {0} /\ MaxCommands \in Nat

LEMMA PackInitTyped ==
  ASSUME PackBounds, Pack!Init
  PROVE  Pack!TypeOK
<1>1. Pack!NoEntries \in Pack!Entries
  BY DEF PackBounds, Pack!NoEntries, Pack!Entries, Pack!Absent
<1>2. Pack!NoFile \in Pack!Files
  BY <1>1 DEF Pack!NoFile, Pack!Files
<1>3. /\ trees \in [Pack!Slugs -> Pack!Versions]
      /\ archives \in [Pack!Slugs -> [Pack!Versions -> -1 .. MaxVersion]]
  BY DEF PackBounds, Pack!Init, Pack!Slugs, Pack!Versions, Pack!Absent
<1> QED
  BY <1>1, <1>2, <1>3 DEF PackBounds, Pack!Init, Pack!TypeOK, Pack!Steps

(* Setting the archive of the current entry sets one archive. *)
LEMMA ArchiveSet ==
  ASSUME PackBounds, Pack!TypeOK, slug \in Pack!Slugs, NEW content \in -1 .. MaxVersion,
         entries[slug].tree \in Pack!Versions, Pack!SetArchive(content)
  PROVE  /\ archives' \in [Pack!Slugs -> [Pack!Versions -> -1 .. MaxVersion]]
         /\ archives'[slug][entries[slug].tree] = content
BY DEF Pack!TypeOK, Pack!SetArchive

(* The tree that is packed is the one that was identified. *)
IdentifiedTree ==
  packPc \in {"create", "write", "hash"} => entries[slug].tree \in Pack!Versions

PackTyped == Pack!TypeOK /\ IdentifiedTree

LEMMA TreeIdentified ==
  ASSUME PackBounds, PackTyped, Pack!IdentifyTree
  PROVE  /\ entries' \in Pack!Entries
         /\ entries'[slug].tree = trees[slug]
         /\ \A s \in Pack!Slugs : s # slug => entries'[s] = entries[s]
<1>1. PICK e : e = [entries[slug] EXCEPT !.tree = trees[slug]]
  OBVIOUS
<1>2. slug \in Pack!Slugs /\ trees[slug] \in Pack!Versions
  BY DEF PackTyped, Pack!TypeOK, Pack!IdentifyTree
<1>3. entries[slug] \in [tree : 0 .. MaxVersion, archive : -1 .. MaxVersion]
  BY <1>2 DEF PackTyped, Pack!TypeOK, Pack!Entries
<1>4. trees[slug] \in 0 .. MaxVersion
  BY <1>2 DEF PackBounds, Pack!Versions
<1>5. e \in [tree : 0 .. MaxVersion, archive : -1 .. MaxVersion] /\ e.tree = trees[slug]
  BY <1>1, <1>3, <1>4
<1>6. entries' = [entries EXCEPT ![slug] = e]
  BY <1>1 DEF Pack!IdentifyTree
<1> QED
  BY <1>2, <1>5, <1>6 DEF PackTyped, Pack!TypeOK, Pack!Entries

LEMMA ArchiveHashed ==
  ASSUME PackBounds, PackTyped, Pack!HashArchive
  PROVE  /\ entries' \in Pack!Entries
         /\ entries'[slug].tree = entries[slug].tree /\ entries'[slug].archive = Pack!Archive
         /\ \A s \in Pack!Slugs : s # slug => entries'[s] = entries[s]
<1>1. PICK e : e = [entries[slug] EXCEPT !.archive = Pack!Archive]
  OBVIOUS
<1>2. slug \in Pack!Slugs /\ entries[slug].tree \in Pack!Versions
  BY DEF PackTyped, IdentifiedTree, Pack!TypeOK, Pack!HashArchive
<1>3. entries[slug] \in [tree : 0 .. MaxVersion, archive : -1 .. MaxVersion]
  BY <1>2 DEF PackTyped, Pack!TypeOK, Pack!Entries
<1>4. Pack!Archive \in -1 .. MaxVersion
  BY <1>2 DEF PackTyped, Pack!TypeOK, Pack!Archive
<1>5. /\ e \in [tree : 0 .. MaxVersion, archive : -1 .. MaxVersion]
      /\ e.tree = entries[slug].tree /\ e.archive = Pack!Archive
  BY <1>1, <1>3, <1>4
<1>6. entries' = [entries EXCEPT ![slug] = e]
  BY <1>1 DEF Pack!HashArchive
<1> QED
  BY <1>2, <1>5, <1>6 DEF PackTyped, Pack!TypeOK, Pack!Entries

LEMMA PackStepTyped ==
  ASSUME PackBounds, PackTyped, [Pack!Next]_Pack!vars
  PROVE  PackTyped'
<1> USE DEF Pack!Steps
<1>1. CASE UNCHANGED Pack!vars
  BY <1>1 DEF Pack!vars, Pack!output, PackTyped, IdentifiedTree, Pack!TypeOK
<1>2. ASSUME NEW step \in {"identity", "load"}, Pack!Begins(step) PROVE PackTyped'
  <2>1. Pack!NoEntries \in Pack!Entries
    BY DEF PackBounds, Pack!NoEntries, Pack!Entries, Pack!Absent
  <2>2. /\ commands' \in 0 .. MaxCommands
        /\ slug' \in Pack!Slugs /\ slug' \in 1 .. SlugCount + 1
    BY <1>2 DEF PackBounds, PackTyped, Pack!TypeOK, Pack!Begins, Pack!Slugs
  <2> QED
    BY <1>2, <2>1, <2>2
       DEF Pack!Begins, Pack!output, PackTyped, IdentifiedTree, Pack!TypeOK
<1>3. CASE Pack!Dies \/ Pack!Refuses
  BY <1>3 DEF Pack!Dies, Pack!Refuses, Pack!output, PackTyped, IdentifiedTree, Pack!TypeOK
<1>4. CASE Pack!IdentifyTree
  <2>1. entries' \in Pack!Entries /\ entries'[slug].tree \in Pack!Versions
    BY <1>4, TreeIdentified DEF PackTyped, Pack!TypeOK, Pack!IdentifyTree
  <2> QED
    BY <1>4, <2>1 DEF Pack!IdentifyTree, Pack!output, PackTyped, IdentifiedTree, Pack!TypeOK
<1>5. CASE Pack!CreateArchive
  <2>1. CASE Pack!Refuses
    BY <1>3, <2>1
  <2>2. CASE ~Pack!Refuses
    <3>1. Pack!SetArchive(Pack!Partial) /\ packPc = "create" /\ packPc' = "write"
          /\ UNCHANGED <<slug, entries, trees, index, sums, recorded, commands>>
      BY <1>5, <2>2 DEF Pack!CreateArchive
    <3>2. archives' \in [Pack!Slugs -> [Pack!Versions -> -1 .. MaxVersion]]
      BY <3>1, ArchiveSet
         DEF PackBounds, PackTyped, IdentifiedTree, Pack!TypeOK, Pack!Partial
    <3> QED
      BY <3>1, <3>2 DEF PackTyped, IdentifiedTree, Pack!TypeOK
  <2> QED
    BY <2>1, <2>2
<1>6. CASE Pack!WriteArchive
  <2>1. PICK v \in Pack!Versions : v = trees[slug]
    BY <1>6 DEF Pack!WriteArchive, PackTyped, Pack!TypeOK
  <2>2. v \in -1 .. MaxVersion /\ Pack!SetArchive(v) /\ packPc = "write"
    BY <1>6, <2>1 DEF Pack!WriteArchive, PackBounds, Pack!Versions
  <2>3. archives' \in [Pack!Slugs -> [Pack!Versions -> -1 .. MaxVersion]]
    BY <2>2, ArchiveSet DEF PackTyped, IdentifiedTree, Pack!TypeOK
  <2> QED
    BY <1>6, <2>3 DEF Pack!WriteArchive, PackTyped, IdentifiedTree, Pack!TypeOK
<1>7. CASE Pack!HashArchive
  <2>1. entries' \in Pack!Entries
    BY <1>7, ArchiveHashed
  <2>2. slug' \in 1 .. SlugCount + 1 /\ (packPc' = "identity" => slug' \in Pack!Slugs)
        /\ packPc' \in {"identity", "index"}
    BY <1>7 DEF Pack!HashArchive, PackBounds, PackTyped, Pack!TypeOK, Pack!Slugs
  <2> QED
    BY <1>7, <2>1, <2>2 DEF Pack!HashArchive, Pack!output, PackTyped, IdentifiedTree, Pack!TypeOK
<1>8. ASSUME NEW content \in Pack!Entries PROVE Pack!Whole(content) \in Pack!Files
  BY DEF Pack!Whole, Pack!Files
<1>9. Pack!Torn \in Pack!Files /\ Pack!NoFile \in Pack!Files
  <2>1. Pack!NoEntries \in Pack!Entries
    BY DEF PackBounds, Pack!NoEntries, Pack!Entries, Pack!Absent
  <2> QED
    BY <2>1 DEF Pack!Torn, Pack!NoFile, Pack!Files
<1>10. CASE Pack!OpenIndex \/ Pack!DumpIndex \/ Pack!OpenSums \/ Pack!WriteSums
  <2>1. /\ index' \in Pack!Files /\ sums' \in Pack!Files
        /\ packPc' \in {"dump", "sums", "sum", "idle"}
        /\ UNCHANGED <<slug, entries, trees, archives, recorded, commands>>
    BY <1>8, <1>9, <1>10 DEF Pack!OpenIndex, Pack!DumpIndex, Pack!OpenSums, Pack!WriteSums,
                             PackTyped, Pack!TypeOK
  <2> QED
    BY <2>1 DEF PackTyped, IdentifiedTree, Pack!TypeOK
<1>11. CASE Pack!LoadIndex \/ Pack!VerifyAssets \/ Pack!CheckRecorded
  <2>1. CASE Pack!Refuses
    BY <1>3, <2>1
  <2>2. CASE ~Pack!Refuses
    <3>1. /\ entries' \in Pack!Entries /\ packPc' \in {"assets", "exists", "open"}
          /\ UNCHANGED <<slug, trees, Pack!output, recorded, commands>>
      BY <1>11, <2>2 DEF Pack!LoadIndex, Pack!VerifyAssets, Pack!CheckRecorded, PackTyped,
                         Pack!TypeOK, Pack!Files
    <3> QED
      BY <3>1 DEF Pack!output, PackTyped, IdentifiedTree, Pack!TypeOK
  <2> QED
    BY <2>1, <2>2
<1>12. CASE Pack!OpenRecorded \/ Pack!WriteRecorded \/ Pack!RemoveTornRecord
  <2>1. /\ recorded' \in Pack!Files /\ packPc' \in {"record", "idle"}
        /\ UNCHANGED <<slug, entries, trees, Pack!output, commands>>
    BY <1>8, <1>9, <1>12 DEF Pack!OpenRecorded, Pack!WriteRecorded, Pack!RemoveTornRecord,
                             PackTyped, Pack!TypeOK
  <2> QED
    BY <2>1 DEF Pack!output, PackTyped, IdentifiedTree, Pack!TypeOK
<1>13. CASE Pack!EmptyOutput
  <2>1. archives' \in [Pack!Slugs -> [Pack!Versions -> -1 .. MaxVersion]]
    BY <1>13 DEF Pack!EmptyOutput, PackBounds, Pack!Absent
  <2> QED
    BY <1>9, <1>13, <2>1 DEF Pack!EmptyOutput, PackTyped, IdentifiedTree, Pack!TypeOK
<1>14. ASSUME NEW s \in Pack!Slugs, Pack!Edit(s) PROVE PackTyped'
  <2>1. trees' \in [Pack!Slugs -> Pack!Versions]
    BY <1>14 DEF Pack!Edit, PackBounds, PackTyped, Pack!TypeOK, Pack!Versions
  <2> QED
    BY <1>14, <2>1 DEF Pack!Edit, Pack!output, PackTyped, IdentifiedTree, Pack!TypeOK
<1> QED
  BY <1>1, <1>2, <1>3, <1>4, <1>5, <1>6, <1>7, <1>10, <1>11, <1>12, <1>13, <1>14
     DEF Pack!Next, Pack!StartPack, Pack!StartRecord

LEMMA PackTypesHold ==
  ASSUME PackBounds
  PROVE  Pack!Spec => []PackTyped
<1>1. Pack!Init => PackTyped
  BY PackInitTyped DEF PackTyped, IdentifiedTree, Pack!Init
<1>2. PackTyped /\ [Pack!Next]_Pack!vars => PackTyped'
  BY PackStepTyped
<1> QED
  BY <1>1, <1>2, PTL DEF Pack!Spec

-----------------------------------------------------------------------------
(* What record has found holds until it writes: nothing else runs, and the   *)
(* operator empties the output directory only between commands.             *)
RecordFinds ==
  /\ packPc \in {"assets", "exists", "open", "record"} => index = Pack!Whole(entries)
  /\ packPc \in {"exists", "open", "record"} =>
       Pack!ArchivesMatch(entries) /\ Pack!SumsMatch(entries)

LEMMA RecordFindsStep ==
  ASSUME PackTyped, RecordFinds, [Pack!Next]_Pack!vars
  PROVE  RecordFinds'
<1>1. CASE packPc' \notin {"assets", "exists", "open", "record"}
  BY <1>1 DEF RecordFinds
<1>2. CASE packPc' \in {"assets", "exists", "open", "record"}
  <2>1. CASE Pack!LoadIndex
    <3>1. index.state = "whole" /\ entries' = index.holds /\ packPc' = "assets" /\ index' = index
      BY <1>2, <2>1 DEF Pack!LoadIndex, Pack!Refuses, Pack!output
    <3>2. index = [state |-> index.state, holds |-> index.holds]
      BY DEF PackTyped, Pack!TypeOK, Pack!Files
    <3> QED
      BY <3>1, <3>2 DEF RecordFinds, Pack!Whole
  <2>2. CASE ~Pack!LoadIndex
    <3>1. /\ UNCHANGED <<entries, Pack!output>>
          /\ \/ packPc' = packPc
             \/ packPc = "assets" /\ Pack!VerifyAssets /\ packPc' = "exists"
             \/ packPc = "exists" /\ packPc' = "open"
             \/ packPc = "open" /\ packPc' = "record"
      BY <1>2, <2>2 DEF Pack!Next, Pack!vars, Pack!StartPack, Pack!StartRecord, Pack!Begins,
           Pack!IdentifyTree, Pack!CreateArchive, Pack!WriteArchive, Pack!HashArchive,
           Pack!OpenIndex, Pack!DumpIndex, Pack!OpenSums, Pack!WriteSums, Pack!VerifyAssets,
           Pack!CheckRecorded, Pack!OpenRecorded, Pack!WriteRecorded, Pack!Dies, Pack!Refuses,
           Pack!EmptyOutput, Pack!RemoveTornRecord, Pack!Edit
    <3>2. packPc' = "exists" /\ Pack!VerifyAssets =>
            Pack!ArchivesMatch(entries) /\ Pack!SumsMatch(entries)
      BY DEF Pack!VerifyAssets, Pack!Refuses
    <3> QED
      BY <3>1, <3>2 DEF RecordFinds, Pack!output, Pack!ArchivesMatch, Pack!SumsMatch
  <2> QED
    BY <2>1, <2>2
<1> QED
  BY <1>1, <1>2

(* An index enters the repository only when the output directory holds, at   *)
(* that moment, the archives it names, itself and the matching checksums:    *)
(* whatever commands were killed before, and also when trees change while    *)
(* pack reads them.                                                         *)
THEOREM RecordIsOfThePacked ==
  ASSUME PackBounds
  PROVE  Pack!Spec => Pack!RecordsWhatIsPacked
<1>1. Pack!Init => RecordFinds
  BY DEF Pack!Init, RecordFinds
<1>2. PackTyped /\ RecordFinds /\ [Pack!Next]_Pack!vars => RecordFinds'
  BY RecordFindsStep
<1>3. PackTyped /\ RecordFinds /\ [Pack!Next]_Pack!vars => [Pack!RecordsPacked]_Pack!vars
  <2>1. SUFFICES ASSUME PackTyped, RecordFinds, [Pack!Next]_Pack!vars,
                        recorded'.state = "whole", recorded.state # "whole"
                 PROVE  /\ Pack!ArchivesMatch(recorded'.holds) /\ Pack!SumsMatch(recorded'.holds)
                        /\ index = recorded'
    BY DEF Pack!RecordsPacked
  <2>2. Pack!WriteRecorded
    BY <2>1 DEF Pack!Next, Pack!vars, Pack!StartPack, Pack!StartRecord, Pack!Begins,
         Pack!IdentifyTree, Pack!CreateArchive, Pack!WriteArchive, Pack!HashArchive,
         Pack!OpenIndex, Pack!DumpIndex, Pack!OpenSums, Pack!WriteSums, Pack!LoadIndex,
         Pack!VerifyAssets, Pack!CheckRecorded, Pack!OpenRecorded, Pack!Dies, Pack!Refuses,
         Pack!EmptyOutput, Pack!RemoveTornRecord, Pack!Edit, Pack!Torn, Pack!NoFile
  <2>3. recorded' = Pack!Whole(entries) /\ packPc = "record"
    BY <2>2 DEF Pack!WriteRecorded
  <2>4. recorded'.holds = entries
    BY <2>3 DEF Pack!Whole
  <2> QED
    BY <2>1, <2>3, <2>4 DEF RecordFinds
<1> QED
  BY <1>1, <1>2, <1>3, PackTypesHold, PTL DEF Pack!Spec, Pack!RecordsWhatIsPacked

-----------------------------------------------------------------------------
(* An entry whose archive holds the tree that it names. *)
Restorable(entry) == entry.archive = entry.tree

(* While a command runs no tree changes, so the tree that pack reads the     *)
(* second time is the one it identified; the entries it is past, the index   *)
(* it writes of them and what record reads of it are restorable.            *)
PacksWhatItNames ==
  /\ packPc \in {"create", "write", "hash"} => entries[slug].tree = trees[slug]
  /\ packPc = "hash" => Pack!Archive = entries[slug].tree
  /\ packPc \in {"identity", "create", "write", "hash"} =>
       \A s \in Pack!Slugs : s < slug => Restorable(entries[s])
  /\ packPc \in {"index", "dump", "sums", "sum", "assets", "exists", "open", "record"} =>
       \A s \in Pack!Slugs : Restorable(entries[s])

FilesRestorable ==
  /\ index.state = "whole" => \A s \in Pack!Slugs : Restorable(index.holds[s])
  /\ recorded.state = "whole" => \A s \in Pack!Slugs : Restorable(recorded.holds[s])

LEMMA PacksWhatItNamesStep ==
  ASSUME PackBounds, ~EditsWhilePacking, PackTyped, PacksWhatItNames, FilesRestorable,
         [Pack!Next]_Pack!vars
  PROVE  PacksWhatItNames'
<1>1. CASE packPc' = "idle" \/ packPc' = "load"
  BY <1>1 DEF PacksWhatItNames
<1>2. CASE Pack!StartPack
  <2>1. slug' = 1 /\ packPc' = "identity"
    BY <1>2 DEF Pack!StartPack, Pack!Begins
  <2> QED
    BY <2>1 DEF PackBounds, Pack!Slugs, PacksWhatItNames
<1>3. CASE Pack!IdentifyTree
  <2>1. /\ packPc = "identity" /\ packPc' = "create" /\ UNCHANGED <<slug, trees>>
        /\ slug \in Pack!Slugs
    BY <1>3 DEF Pack!IdentifyTree, PackTyped, Pack!TypeOK
  <2>2. /\ entries'[slug].tree = trees[slug]
        /\ \A s \in Pack!Slugs : s # slug => entries'[s] = entries[s]
    BY <1>3, TreeIdentified
  <2>3. \A s \in Pack!Slugs : s < slug => s # slug
    BY DEF PackBounds, Pack!Slugs
  <2> QED
    BY <2>1, <2>2, <2>3 DEF PacksWhatItNames, Restorable
<1>4. CASE Pack!CreateArchive /\ packPc' # "idle"
  <2>1. packPc = "create" /\ packPc' = "write" /\ UNCHANGED <<slug, entries, trees>>
    BY <1>4 DEF Pack!CreateArchive, Pack!Refuses
  <2> QED
    BY <2>1 DEF PacksWhatItNames
<1>5. CASE Pack!WriteArchive
  <2>1. PICK v \in Pack!Versions : v = trees[slug]
    BY <1>5 DEF Pack!WriteArchive, PackTyped, Pack!TypeOK
  <2>2. /\ packPc = "write" /\ packPc' = "hash" /\ UNCHANGED <<slug, entries, trees>>
        /\ v \in -1 .. MaxVersion /\ Pack!SetArchive(v) /\ slug \in Pack!Slugs
    BY <1>5, <2>1 DEF Pack!WriteArchive, PackBounds, Pack!Versions, PackTyped, Pack!TypeOK
  <2>3. archives'[slug][entries[slug].tree] = v
    BY <2>2, ArchiveSet DEF PackTyped, IdentifiedTree
  <2>4. entries[slug].tree = v
    BY <2>1, <2>2 DEF PacksWhatItNames
  <2> QED
    BY <2>1, <2>2, <2>3, <2>4 DEF PacksWhatItNames, Pack!Archive
<1>6. CASE Pack!HashArchive
  <2>1. /\ packPc = "hash" /\ slug' = slug + 1 /\ slug \in Pack!Slugs
        /\ packPc' = IF slug = SlugCount THEN "index" ELSE "identity"
    BY <1>6 DEF Pack!HashArchive, PackTyped, Pack!TypeOK
  <2>2. /\ entries'[slug].tree = entries[slug].tree /\ entries'[slug].archive = Pack!Archive
        /\ \A s \in Pack!Slugs : s # slug => entries'[s] = entries[s]
    BY <1>6, ArchiveHashed
  <2>3. Restorable(entries'[slug])
    BY <2>1, <2>2 DEF PacksWhatItNames, Restorable
  <2>4. \A s \in Pack!Slugs : s < slug + 1 => Restorable(entries'[s])
    <3>1. \A s \in Pack!Slugs : s < slug + 1 => s < slug \/ s = slug
      BY <2>1 DEF PackBounds, Pack!Slugs
    <3>2. \A s \in Pack!Slugs : s < slug => s # slug /\ Restorable(entries[s])
      BY <2>1 DEF PacksWhatItNames, PackBounds, Pack!Slugs
    <3> QED
      BY <2>2, <2>3, <3>1, <3>2
  <2>5. slug = SlugCount => \A s \in Pack!Slugs : s < slug + 1
    BY DEF PackBounds, Pack!Slugs
  <2> QED
    BY <2>1, <2>4, <2>5 DEF PacksWhatItNames, Restorable
<1>7. CASE Pack!LoadIndex /\ packPc' # "idle"
  <2>1. index.state = "whole" /\ entries' = index.holds /\ packPc' = "assets"
    BY <1>7 DEF Pack!LoadIndex, Pack!Refuses
  <2> QED
    BY <2>1 DEF PacksWhatItNames, FilesRestorable, Restorable
<1>8. CASE \/ Pack!OpenIndex \/ Pack!DumpIndex \/ Pack!OpenSums \/ Pack!VerifyAssets
           \/ Pack!CheckRecorded \/ Pack!OpenRecorded
  <2>1. \/ packPc' = "idle"
        \/ /\ packPc \in {"index", "dump", "sums", "assets", "exists", "open"}
           /\ packPc' \in {"dump", "sums", "sum", "exists", "open", "record"}
           /\ entries' = entries
    BY <1>8 DEF Pack!OpenIndex, Pack!DumpIndex, Pack!OpenSums, Pack!VerifyAssets,
                Pack!CheckRecorded, Pack!OpenRecorded, Pack!Refuses
  <2> QED
    BY <1>1, <2>1 DEF PacksWhatItNames, Restorable
<1>9. CASE UNCHANGED Pack!vars
  BY <1>9 DEF Pack!vars, Pack!output, PacksWhatItNames, Restorable, Pack!Archive
<1> QED
  <2>1. packPc' = "idle" \/ packPc' = "load" \/ packPc' # "idle"
    OBVIOUS
  <2>2. \/ Pack!StartRecord \/ Pack!WriteSums \/ Pack!WriteRecorded \/ Pack!Dies
        \/ Pack!EmptyOutput \/ Pack!RemoveTornRecord \/ (\E s \in Pack!Slugs : Pack!Edit(s))
        => packPc' = "idle" \/ packPc' = "load"
    BY DEF Pack!StartRecord, Pack!Begins, Pack!WriteSums, Pack!WriteRecorded, Pack!Dies,
           Pack!EmptyOutput, Pack!RemoveTornRecord, Pack!Edit
  <2> QED
    BY <1>1, <1>2, <1>3, <1>4, <1>5, <1>6, <1>7, <1>8, <1>9, <2>2 DEF Pack!Next

LEMMA FilesRestorableStep ==
  ASSUME PackTyped, PacksWhatItNames, FilesRestorable, [Pack!Next]_Pack!vars
  PROVE  FilesRestorable'
<1>1. \/ index' = index \/ index'.state # "whole"
      \/ index' = Pack!Whole(entries) /\ packPc = "dump"
  BY DEF Pack!Next, Pack!vars, Pack!StartPack, Pack!StartRecord, Pack!Begins,
         Pack!IdentifyTree, Pack!CreateArchive, Pack!WriteArchive, Pack!HashArchive,
         Pack!OpenIndex, Pack!DumpIndex, Pack!OpenSums, Pack!WriteSums, Pack!LoadIndex,
         Pack!VerifyAssets, Pack!CheckRecorded, Pack!OpenRecorded, Pack!WriteRecorded,
         Pack!Dies, Pack!Refuses, Pack!EmptyOutput, Pack!RemoveTornRecord, Pack!Edit,
         Pack!output, Pack!Torn, Pack!NoFile
<1>2. \/ recorded' = recorded \/ recorded'.state # "whole"
      \/ recorded' = Pack!Whole(entries) /\ packPc = "record"
  BY DEF Pack!Next, Pack!vars, Pack!StartPack, Pack!StartRecord, Pack!Begins,
         Pack!IdentifyTree, Pack!CreateArchive, Pack!WriteArchive, Pack!HashArchive,
         Pack!OpenIndex, Pack!DumpIndex, Pack!OpenSums, Pack!WriteSums, Pack!LoadIndex,
         Pack!VerifyAssets, Pack!CheckRecorded, Pack!OpenRecorded, Pack!WriteRecorded,
         Pack!Dies, Pack!Refuses, Pack!EmptyOutput, Pack!RemoveTornRecord, Pack!Edit,
         Pack!Torn, Pack!NoFile
<1>3. Pack!Whole(entries).holds = entries
  BY DEF Pack!Whole
<1>4. packPc \in {"dump", "record"} => \A s \in Pack!Slugs : Restorable(entries[s])
  BY DEF PacksWhatItNames
<1>5. index'.state = "whole" => \A s \in Pack!Slugs : Restorable(index'.holds[s])
  BY <1>1, <1>3, <1>4 DEF FilesRestorable
<1>6. recorded'.state = "whole" => \A s \in Pack!Slugs : Restorable(recorded'.holds[s])
  BY <1>2, <1>3, <1>4 DEF FilesRestorable
<1> QED
  BY <1>5, <1>6 DEF FilesRestorable, Restorable

(* Every archive of a recorded index unpacks to the tree the index names,    *)
(* when trees change between commands only, whatever commands were killed    *)
(* and however often they were started again.                               *)
THEOREM RecordedBundlesRestore ==
  ASSUME PackBounds, ~EditsWhilePacking
  PROVE  Pack!Spec => []Pack!RecordedIsRestorable
<1>1. Pack!Init => PacksWhatItNames /\ FilesRestorable
  BY DEF Pack!Init, PacksWhatItNames, FilesRestorable, Pack!NoFile
<1>2. PackTyped /\ PacksWhatItNames /\ FilesRestorable /\ [Pack!Next]_Pack!vars
        => PacksWhatItNames' /\ FilesRestorable'
  BY PacksWhatItNamesStep, FilesRestorableStep
<1>3. FilesRestorable => Pack!RecordedIsRestorable
  BY DEF FilesRestorable, Restorable, Pack!RecordedIsRestorable
<1> QED
  BY <1>1, <1>2, <1>3, PackTypesHold, PTL DEF Pack!Spec
=============================================================================
