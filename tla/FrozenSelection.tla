---------------------------- MODULE FrozenSelection ----------------------------
(***************************************************************************)
(* The campaign that selects a model: fit-and-freeze                       *)
(* (src/lab/action_dynamics/run_mprm_jepa.py), the commands prepare,       *)
(* collect, qualify and score (run_mprm_selection.py) and the assessor     *)
(* that score calls (assess_mprm_jepa.py).  Each command is an execution   *)
(* of its own, started by the operator in any order, also while another    *)
(* one runs; a command may fail or be killed at any step.                  *)
(*                                                                         *)
(* Meanwhile the tracked files may be edited or another commit be checked  *)
(* out, and what git ignores may be changed: the evidence of the fit, the  *)
(* frozen models, the captures.  A version stands for the hash of each.    *)
(* The frozen models may also be removed, to freeze again.  What prepare    *)
(* reads between its checks and its first file is one reading, and so are   *)
(* the models, sources and HEAD that the assessor compares at its end.      *)
(***************************************************************************)
EXTENDS Naturals, FiniteSets

CONSTANTS
  Commands,    \* executions, 1 .. n in the order in which they start
  MaxAlive,    \* bound: executions at once
  MaxEdits,    \* bound: changes of the tracked files or of HEAD
  MaxSwaps,    \* bound: changes of the fit evidence and of the frozen models
  MaxDamage,   \* bound: changes of the captures
  MaxFaults,   \* bound: commands that fail or are killed
  MaxTrouble   \* bound: edits, swaps, damage and faults together

(* Two commits; the third version of the tracked files is not committed, and *)
(* has the protocol of the second.                                          *)
Commits == {1, 2}
Trees == Commits \cup {3}
Protocols == {"first", "second"}
Protocol(version) == IF version = 1 THEN "first" ELSE "second"
Versions == 0 .. MaxDamage
Freezes == 0 .. Cardinality(Commands)
Duties == {"freeze", "prepare", "collect", "qualify", "score"}

(* The directory of the frozen models, and that of the campaign. *)
FreezeFiles == {"directory", "models", "manifest", "outcome"}
WrittenOnce == {"protocol", "manifests", "prepared", "attestation", "arrays", "identities",
                "assessment"}
MadeOnce == {"inputs", "captures", "predictions"}
Files == WrittenOnce \cup MadeOnce \cup {"qualified"}

VARIABLES
  run,          \* each execution: its command, its next step, what it has read
  head, tree,   \* HEAD, and the tracked files
  fitSource,    \* the evidence of the fit: is it what the protocol pins?
  staging,      \* what is in <output>.staging, and in <output>
  frozen,
  freeze,       \* model-freeze-manifest.json
  weights,      \* the files under models/: are they what it hashes?
  kept, torn,   \* what is in the campaign's directory; the files cut short
  bindings,     \* campaign_bindings: [freeze, protocol]
  evidence,     \* the version of the captures
  grade,        \* does a version pass the gates of the pairs?
  qualified,    \* qualified-corpus.json: [assessed, evidence]
  predictions,  \* what the arrays were computed from
  disturbed,    \* history: captures changed between two readings of a command
  edits, swaps, faults

repository == <<head, tree, edits>>
ignored == <<fitSource, weights, swaps>>
freezing == <<staging, frozen, freeze>>
campaign == <<kept, torn, bindings, qualified, predictions>>
captured == <<evidence, grade, disturbed>>
vars == <<run, repository, ignored, freezing, campaign, captured, faults>>

Steps == {"idle", "preflight", "commit", "absent", "fit", "staging", "models", "parity",
          "sources", "manifest", "outcome", "rename", "bind", "unclaimed", "contract",
          "gates", "hashes", "decision", "verify", "bound", "load", "rollout", "corpus",
          "artifacts", "ended"} \cup Files

Manifests == [id : Freezes, protocol : Protocols, recipe : Protocols, commit : Commits,
              source : Trees, fit : {"pinned", "other"}]

Corpora == [assessed : Versions, evidence : Versions]

TypeOK ==
  /\ run \in [Commands -> [duty : Duties, step : Steps, manifest : Manifests,
                           corpus : Corpora, loaded : Versions,
                           model : {"frozen", "other"}]]
  /\ head \in Commits /\ tree \in Trees
  /\ fitSource \in {"pinned", "other"} /\ weights \in {"frozen", "other"}
  /\ staging \subseteq FreezeFiles /\ frozen \subseteq FreezeFiles /\ freeze \in Manifests
  /\ kept \subseteq Files /\ torn \subseteq kept \ MadeOnce
  /\ bindings \in [freeze : Freezes, protocol : Protocols]
  /\ evidence \in Versions /\ grade \in [Versions -> BOOLEAN] /\ disturbed \in BOOLEAN
  /\ qualified \in Corpora
  /\ predictions \in [model : {"frozen", "other"}, evidence : Versions, freeze : Freezes,
                      corpus : Corpora]
  /\ edits \in 0 .. MaxEdits /\ swaps \in 0 .. MaxSwaps /\ faults \in 0 .. MaxFaults

NoManifest == [id |-> 0, protocol |-> "first", recipe |-> "first", commit |-> 1,
               source |-> 1, fit |-> "pinned"]
NoCorpus == [assessed |-> 0, evidence |-> 0]

(* An execution that does not run; what it read is forgotten. *)
Rests(where) == [duty |-> "freeze", step |-> where, manifest |-> NoManifest,
                 corpus |-> NoCorpus, loaded |-> 0, model |-> "frozen"]

Init ==
  /\ run = [e \in Commands |-> Rests("idle")]
  /\ head = 1 /\ tree = 1 /\ fitSource = "pinned" /\ weights = "frozen"
  /\ staging = {} /\ frozen = {} /\ freeze = NoManifest
  /\ kept = {} /\ torn = {} /\ bindings = [freeze |-> 0, protocol |-> "first"]
  /\ evidence = 0 /\ grade \in [Versions -> BOOLEAN] /\ disturbed = FALSE
  /\ qualified = NoCorpus
  /\ predictions = [model |-> "frozen", evidence |-> 0, freeze |-> 0, corpus |-> NoCorpus]
  /\ edits = 0 /\ swaps = 0 /\ faults = 0

-----------------------------------------------------------------------------
At(e, name) == run[e].step = name
Alive(e) == run[e].step \notin {"idle", "ended"}
Whole(files) == files \subseteq kept \ torn

Calm == edits + swaps + evidence + faults < MaxTrouble

(* The execution goes on to its next step, with what it knows then. *)
Goto(e, next, knows) ==
  run' = [run EXCEPT ![e] = IF next = "ended" THEN Rests("ended")
                                              ELSE [knows EXCEPT !.step = next]]

(* A step that only reads: it goes on, or raises. *)
Learns(e, knows, condition, next) ==
  /\ Goto(e, IF condition THEN next ELSE "ended", knows)
  /\ UNCHANGED <<repository, ignored, freezing, campaign, captured, faults>>

Checks(e, condition, next) == Learns(e, run[e], condition, next)

(* mkdir in the campaign's directory, which raises when it is there. *)
Makes(e, name, possible, next) ==
  /\ At(e, name)
  /\ LET made == possible /\ name \notin kept
     IN  /\ Goto(e, IF made THEN next ELSE "ended", run[e])
         /\ kept' = IF made THEN kept \cup {name} ELSE kept
  /\ UNCHANGED <<repository, ignored, freezing, torn, bindings, qualified, predictions,
                 captured, faults>>

(* write_text or savez in the campaign's directory: over what is there. *)
Writes(e, name, next) ==
  /\ At(e, name) /\ Goto(e, next, run[e])
  /\ kept' = kept \cup {name} /\ torn' = torn \ {name}
  /\ UNCHANGED <<repository, ignored, freezing, captured, faults>>

-----------------------------------------------------------------------------
(* The operator starts a command. *)
FirstStep == [freeze |-> "preflight", prepare |-> "preflight", collect |-> "unclaimed",
              qualify |-> "contract", score |-> "verify"]

Start(e) ==
  /\ At(e, "idle") /\ \A d \in Commands : d < e => ~At(d, "idle")
  /\ Cardinality({d \in Commands : Alive(d)}) < MaxAlive
  /\ \E command \in Duties : Goto(e, FirstStep[command], [run[e] EXCEPT !.duty = command])
  /\ UNCHANGED <<repository, ignored, freezing, campaign, captured, faults>>

(* Faulty Preflight: the evidence of the fit is not compared. *)
PreflightOfTheTree(e) ==
  /\ At(e, "preflight")
  /\ Checks(e, tree = head, IF run[e].duty = "freeze" THEN "commit" ELSE "bind")

(* preflight_mprm_jepa, of fit-and-freeze and of prepare: the audit and the   *)
(* evidence of the fit are those that the protocol pins, and `git status` is  *)
(* empty.                                                                    *)
Preflight(e) ==
  /\ At(e, "preflight")
  /\ Checks(e, fitSource = "pinned" /\ tree = head,
            IF run[e].duty = "freeze" THEN "commit" ELSE "bind")

-----------------------------------------------------------------------------
(* fit_and_freeze_mprm_models *)

(* `git rev-parse HEAD` and the hash of the protocol end the preflight. *)
ReadCommit(e) ==
  /\ At(e, "commit")
  /\ Learns(e, [run[e] EXCEPT !.manifest.commit = head, !.manifest.protocol = Protocol(tree)],
            TRUE, "absent")

CheckOutput(e) == At(e, "absent") /\ Checks(e, frozen = {} /\ staging = {}, "fit")

(* The recipe and the evidence are read; then the networks are built. *)
ReadFit(e) ==
  /\ At(e, "fit")
  /\ Learns(e, [run[e] EXCEPT !.manifest.recipe = Protocol(tree), !.manifest.fit = fitSource],
            TRUE, "staging")

(* Faulty MakeStaging: exist_ok. *)
MakeStagingAgain(e) ==
  /\ At(e, "staging") /\ Goto(e, "models", run[e]) /\ staging' = staging \cup {"directory"}
  /\ UNCHANGED <<repository, ignored, frozen, freeze, campaign, captured, faults>>

MakeStaging(e) ==
  /\ At(e, "staging")
  /\ Goto(e, IF staging = {} THEN "models" ELSE "ended", run[e])
  /\ staging' = staging \cup {"directory"}
  /\ UNCHANGED <<repository, ignored, frozen, freeze, campaign, captured, faults>>

(* Training, and one file after the other below the staging directory. *)
AfterStaged == [models |-> "parity", manifest |-> "outcome", outcome |-> "rename"]

WriteStaged(e, name) ==
  /\ At(e, name)
  /\ IF staging = {}
     THEN Goto(e, "ended", run[e]) /\ UNCHANGED staging
     ELSE Goto(e, AfterStaged[name], run[e]) /\ staging' = staging \cup {name}
  /\ UNCHANGED <<repository, ignored, frozen, freeze, campaign, captured, faults>>

(* verify-restore, in a fresh process. *)
VerifyRestore(e) == At(e, "parity") /\ Checks(e, "models" \in staging, "sources")

(* The source files are hashed. *)
HashSources(e) ==
  /\ At(e, "sources")
  /\ Learns(e, [run[e] EXCEPT !.manifest.source = tree], TRUE, "manifest")

(* Faulty Publish: an older freeze is removed first. *)
ReplaceFreeze(e) ==
  /\ At(e, "rename") /\ Goto(e, "ended", run[e])
  /\ frozen' = staging /\ staging' = {} /\ weights' = "frozen"
  /\ freeze' = [run[e].manifest EXCEPT !.id = freeze.id + 1]
  /\ UNCHANGED <<repository, fitSource, swaps, campaign, captured, faults>>

(* The rename of the staging directory: it raises when the other exists, for *)
(* that one has entries.                                                     *)
Publish(e) ==
  /\ At(e, "rename") /\ Goto(e, "ended", run[e])
  /\ IF frozen = {} /\ staging # {}
     THEN /\ frozen' = staging /\ staging' = {} /\ weights' = "frozen"
          /\ freeze' = [run[e].manifest EXCEPT !.id = freeze.id + 1]
     ELSE UNCHANGED <<freezing, weights>>
  /\ UNCHANGED <<repository, fitSource, swaps, campaign, captured, faults>>

-----------------------------------------------------------------------------
(* prepare_selection: the output does not exist, a freeze does, and its hash  *)
(* and that of the protocol are bound.                                       *)
Bind(e) ==
  /\ At(e, "bind")
  /\ Learns(e, [run[e] EXCEPT !.manifest.id = freeze.id,
                              !.manifest.protocol = Protocol(tree)],
            kept = {} /\ "manifest" \in frozen, "inputs")

MakeInputs(e) == Makes(e, "inputs", TRUE, "protocol")

WriteProtocol(e) ==
  /\ Writes(e, "protocol", "manifests")
  /\ bindings' = [freeze |-> run[e].manifest.id, protocol |-> run[e].manifest.protocol]
  /\ UNCHANGED <<qualified, predictions>>

AfterWrite == [manifests |-> "prepared", prepared |-> "ended", attestation |-> "ended",
               assessment |-> "ended"]

(* A file whose content the model does not tell apart. *)
WriteFile(e, name) ==
  Writes(e, name, AfterWrite[name]) /\ UNCHANGED <<bindings, qualified, predictions>>

-----------------------------------------------------------------------------
(* collect_selection, and collect_action_cases: module CollectionLanes *)
CheckUnclaimed(e) ==
  /\ At(e, "unclaimed")
  /\ Checks(e, Whole({"protocol", "manifests"}) /\ kept \cap {"captures", "attestation"} = {},
            "captures")

MakeCaptures(e) == Makes(e, "captures", TRUE, "attestation")

-----------------------------------------------------------------------------
(* qualify_selection: the protocol of the repository is the one of the         *)
(* manifests.                                                                 *)
ReadProtocol(e) ==
  /\ At(e, "contract")
  /\ Checks(e, Whole({"protocol", "manifests"}) /\ Protocol(tree) = bindings.protocol, "gates")

(* The metrics of all captures are read for the gates, ... *)
AssessPairs(e) ==
  /\ At(e, "gates")
  /\ Learns(e, [run[e] EXCEPT !.corpus.assessed = evidence], "captures" \in kept, "hashes")

(* ... and then every file of theirs is hashed. *)
HashCaptures(e) ==
  /\ At(e, "hashes")
  /\ Learns(e, [run[e] EXCEPT !.corpus.evidence = evidence], TRUE, "decision")

(* Faulty Decide: an attestation that is missing or cut short will do. *)
DecideWithoutAttestation(e) ==
  At(e, "decision") /\ Checks(e, grade[run[e].corpus.assessed], "qualified")

(* qualify_mprm_selection_campaign: the attestation is complete, and every    *)
(* pair passes.                                                              *)
Decide(e) ==
  /\ At(e, "decision")
  /\ Checks(e, Whole({"attestation"}) /\ grade[run[e].corpus.assessed], "qualified")

WriteQualified(e) ==
  /\ Writes(e, "qualified", "ended")
  /\ qualified' = run[e].corpus
  /\ UNCHANGED <<bindings, predictions>>

-----------------------------------------------------------------------------
(* score_selection: the corpus is qualified and its files are those that were  *)
(* hashed, ...                                                                *)
VerifySources(e) ==
  /\ At(e, "verify")
  /\ Learns(e, [run[e] EXCEPT !.corpus = qualified],
            Whole({"qualified", "manifests"}) /\ qualified.evidence = evidence, "bound")

(* ... the freeze and the protocol are the bound ones, ... *)
CheckBound(e) ==
  /\ At(e, "bound")
  /\ Checks(e, /\ "manifest" \in frozen
               /\ bindings = [freeze |-> freeze.id, protocol |-> Protocol(tree)], "load")

(* ... the captures are read again, ... *)
LoadCaptures(e) ==
  At(e, "load") /\ Learns(e, [run[e] EXCEPT !.loaded = evidence], TRUE, "rollout")

(* ... and the models. *)
Rollout(e) ==
  /\ At(e, "rollout")
  /\ Learns(e, [run[e] EXCEPT !.model = weights], "models" \in frozen, "predictions")

(* Faulty MakePredictions: exist_ok. *)
MakePredictionsAgain(e) ==
  /\ At(e, "predictions") /\ Goto(e, "arrays", run[e]) /\ kept' = kept \cup {"predictions"}
  /\ UNCHANGED <<repository, ignored, freezing, torn, bindings, qualified, predictions,
                 captured, faults>>

MakePredictions(e) == Makes(e, "predictions", TRUE, "arrays")

WriteArrays(e) ==
  /\ Writes(e, "arrays", "identities")
  /\ predictions' = [predictions EXCEPT !.model = run[e].model, !.evidence = run[e].loaded]
  /\ UNCHANGED <<bindings, qualified>>

(* prediction-manifest.json: the hash of the freeze as it is now, which        *)
(* raises when it is gone, and the identity of the corpus that was read.      *)
WriteIdentities(e) ==
  \/ /\ "manifest" \in frozen
     /\ Writes(e, "identities", "corpus")
     /\ predictions' = [predictions EXCEPT !.freeze = freeze.id, !.corpus = run[e].corpus]
     /\ UNCHANGED <<bindings, qualified>>
  \/ "manifest" \notin frozen /\ At(e, "identities") /\ Checks(e, FALSE, "ended")

(* assess_stored_mprm_selection: the freeze is the one the predictions and     *)
(* the campaign name, the corpus is the one that was scored, ...              *)
AssessCorpus(e) ==
  /\ At(e, "corpus")
  /\ Checks(e, /\ "manifest" \in frozen /\ Whole({"qualified"})
               /\ predictions.freeze = freeze.id
               /\ predictions.corpus = run[e].corpus /\ qualified = run[e].corpus
               /\ bindings = [freeze |-> freeze.id, protocol |-> Protocol(tree)],
            "artifacts")

(* Faulty AssessArtifacts: HEAD and the models are not compared. *)
AssessSources(e) ==
  /\ At(e, "artifacts")
  /\ Checks(e, frozen # {} /\ tree = freeze.source, "assessment")

(* ... and the models, the sources and HEAD are those of the freeze.  The      *)
(* stored arrays are not computed again.                                      *)
AssessArtifacts(e) ==
  /\ At(e, "artifacts")
  /\ Checks(e, /\ frozen # {} /\ weights = "frozen"
               /\ tree = freeze.source /\ head = freeze.commit, "assessment")

-----------------------------------------------------------------------------
(* A command fails or is killed; a file that it was writing may be cut short. *)
Fails(e) ==
  /\ Calm /\ faults < MaxFaults /\ faults' = faults + 1
  /\ Alive(e) /\ Goto(e, "ended", run[e])
  /\ \/ UNCHANGED <<kept, torn>>
     \/ /\ run[e].step \in WrittenOnce \cup {"qualified"}
        /\ kept' = kept \cup {run[e].step} /\ torn' = torn \cup {run[e].step}
  /\ UNCHANGED <<repository, ignored, freezing, bindings, qualified, predictions, captured>>

(* A tracked file is edited, the edit is taken back, or the other commit is    *)
(* checked out.                                                               *)
ChangeTree ==
  /\ Calm /\ edits < MaxEdits /\ edits' = edits + 1
  /\ \/ tree' \in {head, 3} \ {tree} /\ UNCHANGED head
     \/ tree = head /\ head' \in Commits \ {head} /\ tree' = head'
  /\ UNCHANGED <<run, ignored, freezing, campaign, captured, faults>>

(* The evidence of the fit or the frozen models are changed, or put back; or   *)
(* the frozen models are removed, to freeze again.                            *)
ChangeIgnored ==
  /\ Calm /\ swaps < MaxSwaps /\ swaps' = swaps + 1
  /\ \/ fitSource' \in {"pinned", "other"} \ {fitSource} /\ UNCHANGED <<weights, frozen>>
     \/ /\ frozen # {} /\ weights' \in {"frozen", "other"} \ {weights}
        /\ UNCHANGED <<fitSource, frozen>>
     \/ frozen # {} /\ frozen' = {} /\ UNCHANGED <<fitSource, weights>>
  /\ UNCHANGED <<run, repository, staging, freeze, campaign, captured, faults>>

(* The captures change. *)
DamageCaptures ==
  /\ Calm /\ "captures" \in kept /\ evidence < MaxDamage /\ evidence' = evidence + 1
  /\ disturbed' = (disturbed \/ \E e \in Commands : run[e].step \in {"hashes", "bound", "load"})
  /\ UNCHANGED <<run, repository, ignored, freezing, campaign, grade, faults>>

-----------------------------------------------------------------------------
Command(e) ==
  \/ Start(e) \/ Preflight(e) \/ ReadCommit(e) \/ CheckOutput(e) \/ ReadFit(e)
  \/ MakeStaging(e) \/ VerifyRestore(e) \/ HashSources(e) \/ Publish(e)
  \/ \E name \in DOMAIN AfterStaged : WriteStaged(e, name)
  \/ Bind(e) \/ MakeInputs(e) \/ WriteProtocol(e)
  \/ \E name \in DOMAIN AfterWrite : WriteFile(e, name)
  \/ CheckUnclaimed(e) \/ MakeCaptures(e)
  \/ ReadProtocol(e) \/ AssessPairs(e) \/ HashCaptures(e) \/ Decide(e) \/ WriteQualified(e)
  \/ VerifySources(e) \/ CheckBound(e) \/ LoadCaptures(e) \/ Rollout(e)
  \/ MakePredictions(e) \/ WriteArrays(e) \/ WriteIdentities(e)
  \/ AssessCorpus(e) \/ AssessArtifacts(e)

Next ==
  \/ \E e \in Commands : Command(e) \/ Fails(e)
  \/ ChangeTree \/ ChangeIgnored \/ DamageCaptures

Spec == Init /\ [][Next]_vars

-----------------------------------------------------------------------------
(* A selection is sealed.  When score has written its assessment, the freeze   *)
(* it judged was bound before anything was collected; as long as that freeze   *)
(* stands, its models were fitted by the recipe it names, on the evidence that *)
(* the protocol pins, by committed sources, and they are the ones that         *)
(* predicted; and they predicted captures that were completely collected and   *)
(* qualified.  It takes two or three changes of the tracked files, or two of   *)
(* what git ignores, each between two particular readings, to get past the     *)
(* checks; or one change of the captures, between the two times that qualify,  *)
(* or score, reads them.                                                       *)
SelectionIsSealed ==
  "assessment" \in kept \ torn =>
    /\ bindings.freeze = predictions.freeze
    /\ freeze.id = predictions.freeze =>
         /\ edits < 2 => freeze.recipe = freeze.protocol /\ freeze.protocol = bindings.protocol
         /\ edits < 3 => freeze.source = freeze.commit
         /\ swaps < 2 => freeze.fit = "pinned"
    /\ swaps < 2 => predictions.model = "frozen"
    /\ ~disturbed => /\ predictions.evidence = predictions.corpus.evidence
                     /\ grade[predictions.evidence]
    /\ Whole({"protocol", "manifests", "attestation", "arrays", "identities"})

(* A freeze is immutable: it appears whole, by one rename, no overlapping or   *)
(* later execution writes into it or into the staging directory of another,    *)
(* and it gives way to another only after it was removed.                      *)
FreezesAreWhole ==
  /\ frozen \in {{}, FreezeFiles}
  /\ freeze.id <= 1 + swaps
  /\ Cardinality({e \in Commands : run[e].step \in
                    {"models", "parity", "sources", "manifest", "outcome", "rename"}}) <= 1

(* Nothing is collected, predicted or assessed twice; a qualification alone    *)
(* may be repeated.                                                           *)
NothingIsWrittenTwice ==
  \A e \in Commands : run[e].step \in WrittenOnce =>
    /\ run[e].step \notin kept
    /\ \A d \in Commands \ {e} : run[d].step # run[e].step
=============================================================================
