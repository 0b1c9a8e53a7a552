------------------------------- MODULE MCRelease -------------------------------
(* Instances of the distribution of artifact bundles for TLC, side by side:   *)
(* restoring them (ArtifactFetch, with the constants of the cfg), packing     *)
(* them (ArtifactPack) and publishing them (ArtifactPublish).  The variable   *)
(* part says which one a behaviour is of; the state of the others stays as it *)
(* began.                                                                     *)
EXTENDS ArtifactFetch

VARIABLES
  part,
  packPc, slug, entries, trees, archives, index, sums, recorded, commands,
  publishPc, seen, starters, missing, uploading, sent, releases, made, draftOf,
  published, held, tag, publishFaults, deletes

packVars == <<packPc, slug, entries, trees, archives, index, sums, recorded, commands>>
publishVars == <<publishPc, seen, starters, missing, uploading, sent, releases, made,
                 draftOf, published, held, tag, publishFaults, deletes>>
releaseVars == <<part, vars, packVars, publishVars>>

(* Two entries, four commands; trees change between commands only. *)
Pack == INSTANCE ArtifactPack WITH
  SlugCount <- 2, MaxVersion <- 2, MaxCommands <- 4, EditsWhilePacking <- FALSE,
  pc <- packPc

(* The index was recorded anew by a second commit, which p2 publishes. *)
Publish == INSTANCE ArtifactPublish WITH
  Publishers <- {"p1", "p2", "p3"}, Assets <- {"index", "archive"},
  Commits <- {"c1", "c2"}, NoCommit <- "no commit",
  Target <- [p1 |-> "c1", p2 |-> "c2", p3 |-> "c1"], DryRuns <- {}, Overlap <- FALSE,
  MaxReleases <- 3, MaxFaults <- 2, MaxDeletes <- 1,
  pc <- publishPc, faults <- publishFaults

(* One commit, more executions than failures, and nobody deletes a release. *)
Reruns == INSTANCE ArtifactPublish WITH
  Publishers <- {"p1", "p2", "p3"}, Assets <- {"index", "archive"},
  Commits <- {"c1", "c2"}, NoCommit <- "no commit",
  Target <- [p1 |-> "c1", p2 |-> "c1", p3 |-> "c1"], DryRuns <- {}, Overlap <- FALSE,
  MaxReleases <- 3, MaxFaults <- 2, MaxDeletes <- 0,
  pc <- publishPc, faults <- publishFaults

(* Two executions and a dry run that overlap. *)
Overlapping == INSTANCE ArtifactPublish WITH
  Publishers <- {"p1", "p2", "p3"}, Assets <- {"index", "archive"},
  Commits <- {"c1", "c2"}, NoCommit <- "no commit",
  Target <- [p1 |-> "c1", p2 |-> "c1", p3 |-> "c1"], DryRuns <- {"p3"}, Overlap <- TRUE,
  MaxReleases <- 2, MaxFaults <- 0, MaxDeletes <- 1,
  pc <- publishPc, faults <- publishFaults

ReleaseInit ==
  /\ part \in {"fetch", "pack", "publish", "reruns", "overlapping"}
  /\ IF part = "fetch" THEN Init ELSE Init /\ shelf = "none"
  /\ Pack!Init
  /\ CASE part = "reruns" -> Reruns!Init
       [] part = "overlapping" -> Overlapping!Init
       [] OTHER -> Publish!Init

ReleaseNext ==
  /\ UNCHANGED part
  /\ \/ part = "fetch" /\ Next /\ UNCHANGED <<packVars, publishVars>>
     \/ part = "pack" /\ Pack!Next /\ UNCHANGED <<vars, publishVars>>
     \/ part = "publish" /\ Publish!Next /\ UNCHANGED <<vars, packVars>>
     \/ part = "reruns" /\ Reruns!Next /\ UNCHANGED <<vars, packVars>>
     \/ part = "overlapping" /\ Overlapping!Next /\ UNCHANGED <<vars, packVars>>

(* The fairness of ArtifactFetch and of ArtifactPublish. *)
ReleaseFairness ==
  /\ \A e \in Fetches :
       WF_releaseVars(/\ part = "fetch"
                      /\ Start(e) \/ Step(e)
                      /\ UNCHANGED <<part, packVars, publishVars>>)
  /\ \A p \in {"p1", "p2", "p3"} :
       WF_releaseVars(/\ \/ part = "reruns" /\ (Reruns!Start(p) \/ Reruns!Step(p))
                         \/ /\ part = "overlapping"
                            /\ Overlapping!Start(p) \/ Overlapping!Step(p)
                      /\ UNCHANGED <<part, vars, packVars>>)

ReleaseSpec == ReleaseInit /\ [][ReleaseNext]_releaseVars /\ ReleaseFairness

-----------------------------------------------------------------------------
(* The properties, of the instance a behaviour is of. *)

(* The state has its type; a destination holds nothing or the verified tree,  *)
(* put there by one execution; what is recorded can be restored; the tag of a *)
(* published release names its commit (see ArtifactFetch, ArtifactPack and    *)
(* ArtifactPublish).                                                          *)
BundlesAreWhole ==
  /\ TypeOK /\ DestinationIsVerified /\ OneRestores
  /\ Pack!TypeOK /\ Pack!RecordedIsRestorable
  /\ CASE part = "reruns" -> Reruns!TypeOK /\ Reruns!TagNamesItsCommit
       [] part = "overlapping" -> Overlapping!TypeOK
       [] OTHER -> Publish!TypeOK /\ Publish!TagNamesItsCommit

(* A step of record records what was packed, and a step of publish keeps the  *)
(* promise made of a release and, when it returns, has completed one (see     *)
(* ArtifactPack and ArtifactPublish); executions that overlap need not.       *)
PublishKeepsPromise ==
  /\ Publish!Promise!Init
  /\ [][/\ Pack!RecordsPacked
        /\ CASE part = "publish" ->
                  /\ Publish!CompletesWhatIsDone
                  /\ Publish!Promise!Next \/ UNCHANGED Publish!Promise!vars
             [] part = "reruns" ->
                  /\ Reruns!CompletesWhatIsDone
                  /\ Reruns!Promise!Next \/ UNCHANGED Reruns!Promise!vars
             [] OTHER -> TRUE]_releaseVars

(* Running publish again completes a release, executions of it that overlap   *)
(* all end, and every fetch that is not killed ends and cleans up (see        *)
(* ArtifactPublish and ArtifactFetch).                                        *)
ReleasesEnd ==
  <>(CASE part = "fetch" -> EveryFetchEnded
       [] part = "reruns" -> Reruns!ReleaseIsComplete
       [] part = "overlapping" -> Overlapping!EveryPublishEnded
       [] OTHER -> TRUE)
=============================================================================
