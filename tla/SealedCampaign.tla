---------------------------- MODULE SealedCampaign -----------------------------
(***************************************************************************)
(* A sealed confirmation: the commands prepare, collect, qualify and score *)
(* of src/lab/action_dynamics/run_run_aware_alert_confirmation.py on one   *)
(* output directory, and the assessor that score calls                     *)
(* (assess_run_aware_alert_confirmation.py).  Each command is an execution *)
(* of its own, started by the operator in any order, also while another    *)
(* one runs; a command may fail or be killed at any step.                  *)
(*                                                                         *)
(* Meanwhile the repository may change: its tracked files are edited,      *)
(* restored, or another commit is checked out.  The frozen model lies      *)
(* under artifacts/, which git ignores, so `git status` does not see that  *)
(* it was replaced.  Captures may be changed after they were collected.    *)
(*                                                                         *)
(* A version of the tracked files stands for their hashes, a version of    *)
(* the captures for theirs.  The image and the qualifying evidence of the  *)
(* preparation are those of QualificationChain, the cases of a collection  *)
(* those of CollectionLanes.                                               *)
(***************************************************************************)
EXTENDS Naturals, FiniteSets

CONSTANTS
  Commands,    \* executions, 1 .. n in the order in which they start
  MaxAlive,    \* bound: executions at once
  MaxEdits,    \* bound: changes of the tracked files or of HEAD
  MaxSwaps,    \* bound: replacements of the model file
  MaxDamage,   \* bound: changes of the captures
  MaxFaults,   \* bound: commands that fail or are killed
  MaxTrouble   \* bound: edits, swaps and faults together

(* Two commits; the third version of the tracked files is not committed. *)
Commits == {1, 2}
Trees == Commits \cup {3}
Contracts == {"first", "second"}
Contract(version) == IF version = 1 THEN "first" ELSE "second"
Models == {"frozen", "other"}
Versions == 0 .. MaxDamage
Duties == {"prepare", "collect", "qualify", "score"}

(* The output directory: what is written to it once, the files of a            *)
(* qualification, and the directories that must be absent when they are made. *)
WrittenOnce == {"protocol", "plan", "schema", "prepared", "attestation",
                "arrays", "identities", "assessment", "retained"}
Targets == {"quality", "report", "manifest"}
MadeOnce == {"inputs", "cases", "predictions"}
Files == WrittenOnce \cup Targets \cup MadeOnce

VARIABLES
  run,            \* each execution: its command, its next step, what it has read
  head, tree,     \* HEAD, and the tracked files
  weights,        \* the model file
  kept, torn,     \* what is in the output directory; the files cut short
  protocol,       \* inputs/protocol.json: [contract, commit]
  evidence,       \* the version of the captures
  grade,          \* does a version pass the qualification gates?
  quality,        \* data-quality.json: the version it assessed
  recorded,       \* artifact-manifest.json: [evidence, quality, files, torn]
  predictions,    \* predictions/*.npz: [model, evidence]
  identities,     \* prediction-manifest.json: [contract, model]
  result,         \* confirmation-assessment.json: the contract it names
  edits, swaps, faults

repository == <<head, tree, weights, edits, swaps>>
directory == <<kept, torn>>
qualification == <<quality, recorded>>
scoring == <<predictions, identities, result>>
captured == <<evidence, grade>>
vars == <<run, repository, directory, protocol, qualification, scoring,
          captured, faults>>

Steps == {"idle", "preflight", "absent", "bind", "clean", "targets", "assess", "contract",
          "load", "rollout", "verify", "reproduce", "ended"} \cup Files

TypeOK ==
  /\ run \in [Commands -> [duty : Duties, step : Steps, contract : Contracts,
                           commit : Commits, evidence : Versions, model : Models]]
  /\ head \in Commits /\ tree \in Trees /\ weights \in Models
  /\ kept \subseteq Files /\ torn \subseteq kept \ MadeOnce
  /\ protocol \in [contract : Contracts, commit : Commits]
  /\ evidence \in Versions /\ grade \in [Versions -> BOOLEAN] /\ quality \in Versions
  /\ recorded \in [evidence : Versions, quality : Versions, files : SUBSET Files,
                   torn : SUBSET Files]
  /\ predictions \in [model : Models, evidence : Versions]
  /\ identities \in [contract : Contracts, model : Models]
  /\ result \in Contracts
  /\ edits \in 0 .. MaxEdits /\ swaps \in 0 .. MaxSwaps /\ faults \in 0 .. MaxFaults

(* An execution that does not run; what it read is forgotten. *)
Rests(where) == [duty |-> "prepare", step |-> where, contract |-> "first", commit |-> 1,
                 evidence |-> 0, model |-> "frozen"]

Init ==
  /\ run = [e \in Commands |-> Rests("idle")]
  /\ head = 1 /\ tree = 1 /\ weights = "frozen"
  /\ kept = {} /\ torn = {}
  /\ protocol = [contract |-> "first", commit |-> 1]
  /\ evidence = 0 /\ grade \in [Versions -> BOOLEAN] /\ quality = 0
  /\ recorded = [evidence |-> 0, quality |-> 0, files |-> {}, torn |-> {}]
  /\ predictions = [model |-> "frozen", evidence |-> 0]
  /\ identities = [contract |-> "first", model |-> "frozen"]
  /\ result = "first"
  /\ edits = 0 /\ swaps = 0 /\ faults = 0

-----------------------------------------------------------------------------
At(e, name) == run[e].step = name
Alive(e) == run[e].step \notin {"idle", "ended"}
Whole(files) == files \subseteq kept \ torn

Calm == edits + swaps + faults < MaxTrouble

(* The execution goes on to its next step, with what it knows then. *)
Goto(e, next, knows) ==
  run' = [run EXCEPT ![e] = IF next = "ended" THEN Rests("ended")
                                              ELSE [knows EXCEPT !.step = next]]

(* A step that only reads: it goes on, or raises. *)
Learns(e, knows, condition, next) ==
  /\ Goto(e, IF condition THEN next ELSE "ended", knows)
  /\ UNCHANGED <<repository, directory, protocol, qualification, scoring, captured, faults>>

Checks(e, condition, next) == Learns(e, run[e], condition, next)

(* mkdir, which raises when the directory is there. *)
Makes(e, name, possible, next) ==
  /\ At(e, name)
  /\ LET made == possible /\ name \notin kept IN
       /\ Goto(e, IF made THEN next ELSE "ended", run[e])
       /\ kept' = IF made THEN kept \cup {name} ELSE kept
  /\ UNCHANGED <<repository, torn, protocol, qualification, scoring, captured, faults>>

(* write_text: over what is there. *)
Writes(e, name, next) ==
  /\ At(e, name) /\ Goto(e, next, run[e])
  /\ kept' = kept \cup {name} /\ torn' = torn \ {name}
  /\ UNCHANGED <<repository, captured, faults>>

-----------------------------------------------------------------------------
(* The operator starts a command. *)
Start(e) ==
  /\ At(e, "idle") /\ \A d \in Commands : d < e => ~At(d, "idle")
  /\ Cardinality({d \in Commands : Alive(d)}) < MaxAlive
  /\ \E command \in Duties :
       Goto(e, IF command \in {"prepare", "score"} THEN "preflight" ELSE "bind",
            [run[e] EXCEPT !.duty = command])
  /\ UNCHANGED <<repository, directory, protocol, qualification, scoring, captured, faults>>

(* preflight_confirmation, of prepare and of score: no tracked file is edited, *)
(* and the model is the one that the contract names.  One reading.            *)
Preflight(e) ==
  /\ At(e, "preflight")
  /\ Checks(e, tree = head /\ weights = "frozen",
            IF run[e].duty = "prepare" THEN "absent" ELSE "contract")

(* prepare: the output does not exist yet; score: nothing to check here.  The *)
(* contract is read.                                                          *)
ReadContract(e) ==
  /\ At(e, "absent") \/ At(e, "contract")
  /\ Learns(e, [run[e] EXCEPT !.contract = Contract(tree)],
            At(e, "absent") => kept = {}, "bind")

(* `git rev-parse HEAD`: for prepare the commit to bind, for the others (see   *)
(* _require_prepared_source) that of inputs/protocol.json.                    *)
Bind(e) ==
  /\ At(e, "bind")
  /\ Learns(e, [run[e] EXCEPT !.commit = head],
            run[e].duty = "prepare" \/ (Whole({"protocol"}) /\ protocol.commit = head),
            "clean")

(* `git status`, and, for score, the stored protocol is the one that the       *)
(* contract of the repository gives.                                          *)
AfterClean == [prepare |-> "inputs", collect |-> "cases", qualify |-> "targets",
               score |-> "load"]

Clean(e) ==
  /\ At(e, "clean")
  /\ Checks(e, tree = head /\ (run[e].duty = "score" => run[e].contract = protocol.contract),
            AfterClean[run[e].duty])

-----------------------------------------------------------------------------
(* prepare_confirmation: write_prepared_action_collection makes inputs/ and    *)
(* writes the protocol, then manifests and plan; two more files follow.       *)
MakeInputs(e) == Makes(e, "inputs", TRUE, "protocol")

WriteProtocol(e) ==
  /\ Writes(e, "protocol", "plan")
  /\ protocol' = [contract |-> run[e].contract, commit |-> run[e].commit]
  /\ UNCHANGED <<qualification, scoring>>

AfterWrite == [plan |-> "schema", schema |-> "prepared", prepared |-> "ended",
               attestation |-> "ended", report |-> "manifest", retained |-> "ended"]

(* A file whose content the model does not tell apart. *)
WriteFile(e, name) ==
  /\ Writes(e, name, AfterWrite[name])
  /\ UNCHANGED <<protocol, qualification, scoring>>

(* collect_confirmation and collect_action_cases: neither captures nor an      *)
(* attestation exist; the attestation is written when every case succeeded.   *)
MakeCases(e) == Makes(e, "cases", Whole({"plan"}) /\ "attestation" \notin kept, "attestation")

-----------------------------------------------------------------------------
(* write_action_collection_assessment: none of its files exists. *)
CheckTargets(e) == At(e, "targets") /\ Checks(e, kept \cap Targets = {}, "assess")

(* assess_prepared_action_collection *)
Assess(e) ==
  /\ At(e, "assess")
  /\ Learns(e, [run[e] EXCEPT !.evidence = evidence],
            Whole({"plan", "attestation"}), "quality")

WriteQuality(e) ==
  /\ Writes(e, "quality", "report")
  /\ quality' = run[e].evidence
  /\ UNCHANGED <<protocol, recorded, scoring>>

(* Every file of the output is hashed; a status other than qualified makes     *)
(* qualify_confirmation raise, after the files are written.                   *)
WriteManifest(e) ==
  /\ Writes(e, "manifest", "ended")
  /\ recorded' = [evidence |-> evidence, quality |-> quality,
                  files |-> kept \ {"manifest"}, torn |-> torn \ {"manifest"}]
  /\ UNCHANGED <<protocol, quality, scoring>>

-----------------------------------------------------------------------------
(* The hashes of artifact-manifest.json are those of the files. *)
HashesHold ==
  /\ recorded.files \subseteq kept /\ torn \cap recorded.files = recorded.torn
  /\ evidence = recorded.evidence /\ quality = recorded.quality

(* Faulty loading: the recorded assessment is believed. *)
LoadableByTheRecord ==
  /\ Whole({"protocol", "manifest", "quality", "plan", "attestation", "schema"})
  /\ HashesHold /\ grade[quality]

(* load_action_dynamics_development_corpus: the files are those that were      *)
(* hashed, the recorded assessment is the one recomputed from the captures,   *)
(* and it qualifies them.                                                     *)
Loadable ==
  /\ Whole({"protocol", "manifest", "quality", "plan", "attestation", "schema"})
  /\ HashesHold /\ quality = evidence /\ grade[evidence]

(* There is no other file in the directory. *)
Load(e) ==
  /\ At(e, "load")
  /\ Learns(e, [run[e] EXCEPT !.evidence = evidence],
            Loadable /\ kept = recorded.files \cup {"manifest"}, "rollout")

(* The model file is read and rolled out. *)
Rollout(e) ==
  /\ At(e, "rollout")
  /\ Learns(e, [run[e] EXCEPT !.model = weights], TRUE, "predictions")

(* Faulty mkdir: exist_ok. *)
MakePredictionsAgain(e) ==
  /\ At(e, "predictions") /\ Goto(e, "arrays", run[e]) /\ kept' = kept \cup {"predictions"}
  /\ UNCHANGED <<repository, torn, protocol, qualification, scoring, captured, faults>>

MakePredictions(e) == Makes(e, "predictions", TRUE, "arrays")

WriteArrays(e) ==
  /\ Writes(e, "arrays", "identities")
  /\ predictions' = [model |-> run[e].model, evidence |-> run[e].evidence]
  /\ UNCHANGED <<protocol, qualification, identities, result>>

(* prediction-manifest.json: hashes of the files as they are now. *)
WriteIdentities(e) ==
  /\ Writes(e, "identities", "verify")
  /\ identities' = [contract |-> Contract(tree), model |-> weights]
  /\ UNCHANGED <<protocol, qualification, predictions, result>>

-----------------------------------------------------------------------------
(* The assessor: the identities are those of the contract that is in the       *)
(* repository now, the model is the one this contract names, the qualified    *)
(* source is the one that was hashed, and its protocol is of the contract.    *)
Identified(contract) ==
  /\ weights = "frozen" /\ identities = [contract |-> contract, model |-> weights]
  /\ Whole({"protocol", "manifest", "quality", "attestation"})
  /\ {"protocol", "quality", "attestation"} \subseteq recorded.files
  /\ HashesHold /\ grade[quality] /\ protocol.contract = contract

(* Faulty verification: the source protocol is not compared with the contract. *)
VerifyIdentitiesOnly(e) ==
  /\ At(e, "verify")
  /\ Learns(e, [run[e] EXCEPT !.contract = Contract(tree)],
            weights = "frozen" /\ HashesHold /\ identities.contract = Contract(tree)
              /\ identities.model = weights, "reproduce")

Verify(e) ==
  /\ At(e, "verify")
  /\ Learns(e, [run[e] EXCEPT !.contract = Contract(tree)],
            Identified(Contract(tree)), "reproduce")

(* Faulty assessor: the stored arrays are not computed again. *)
BelieveTheArrays(e) == At(e, "reproduce") /\ Checks(e, Loadable, "assessment")

(* _verify_stored_arrays_against_raw: the corpus is loaded again, from links   *)
(* to the files that the manifest names, and the model read again; the arrays *)
(* come out the same.                                                         *)
Reproduce(e) ==
  /\ At(e, "reproduce")
  /\ Checks(e, Loadable /\ predictions = [model |-> weights, evidence |-> evidence],
            "assessment")

WriteAssessment(e) ==
  /\ Writes(e, "assessment", "retained")
  /\ result' = run[e].contract
  /\ UNCHANGED <<protocol, qualification, predictions, identities>>

-----------------------------------------------------------------------------
(* A command fails or is killed; a file that it was writing may be cut short. *)
Fails(e) ==
  /\ Calm /\ faults < MaxFaults /\ faults' = faults + 1
  /\ Alive(e) /\ Goto(e, "ended", run[e])
  /\ \/ UNCHANGED directory
     \/ /\ run[e].step \in WrittenOnce \cup Targets
        /\ kept' = kept \cup {run[e].step} /\ torn' = torn \cup {run[e].step}
  /\ UNCHANGED <<repository, protocol, qualification, scoring, captured>>

(* A tracked file is edited, the edit is taken back, or the other commit is    *)
(* checked out.                                                               *)
ChangeTree ==
  /\ Calm /\ edits < MaxEdits /\ edits' = edits + 1
  /\ \/ tree' \in {head, 3} \ {tree} /\ UNCHANGED head
     \/ tree = head /\ head' \in Commits \ {head} /\ tree' = head'
  /\ UNCHANGED <<run, weights, swaps, directory, protocol, qualification,
                 scoring, captured, faults>>

(* Another model is put in the place of the frozen one, or it is put back. *)
SwapModel ==
  /\ Calm /\ swaps < MaxSwaps /\ swaps' = swaps + 1
  /\ weights' \in Models \ {weights}
  /\ UNCHANGED <<run, head, tree, edits, directory, protocol, qualification,
                 scoring, captured, faults>>

(* The captures change. *)
DamageCaptures ==
  /\ "cases" \in kept /\ evidence < MaxDamage /\ evidence' = evidence + 1
  /\ UNCHANGED <<run, repository, directory, protocol, qualification, scoring,
                 grade, faults>>

-----------------------------------------------------------------------------
Command(e) ==
  \/ Start(e) \/ Preflight(e) \/ ReadContract(e) \/ Bind(e) \/ Clean(e)
  \/ MakeInputs(e) \/ WriteProtocol(e) \/ MakeCases(e)
  \/ \E name \in DOMAIN AfterWrite : WriteFile(e, name)
  \/ CheckTargets(e) \/ Assess(e) \/ WriteQuality(e) \/ WriteManifest(e)
  \/ Load(e) \/ Rollout(e) \/ MakePredictions(e) \/ WriteArrays(e)
  \/ WriteIdentities(e) \/ Verify(e) \/ Reproduce(e) \/ WriteAssessment(e)

Next ==
  \/ \E e \in Commands : Command(e) \/ Fails(e)
  \/ ChangeTree \/ SwapModel \/ DamageCaptures

Spec == Init /\ [][Next]_vars

-----------------------------------------------------------------------------
(* A confirmation result is sealed.  When score has written its assessment,    *)
(* the contract it names is the one that the campaign was prepared under and  *)
(* the one of the commit that its protocol names; its predictions are of the  *)
(* frozen model and of captures that pass every gate; and what they rest on   *)
(* was written completely: a collection that failed, or a preparation that    *)
(* was cut short, is never scored.  It takes three replacements of the model  *)
(* or four changes of the tracked files, each between two particular readings *)
(* of one command, to get past the checks.                                    *)
ResultIsSealed ==
  "assessment" \in kept \ torn =>
    /\ result = protocol.contract
    /\ edits < 4 => protocol.contract = Contract(protocol.commit)
    /\ swaps < 3 => predictions.model = "frozen"
    /\ grade[predictions.evidence]
    /\ Whole({"protocol", "plan", "schema", "attestation", "arrays", "identities"})

(* Nothing is collected, predicted or assessed twice: an execution that is     *)
(* about to write a file of the campaign has it absent, and no other is about *)
(* to write the same, however the commands overlap; only the files of a       *)
(* qualification are not protected from an overlapping one.                   *)
NothingIsWrittenTwice ==
  \A e \in Commands : run[e].step \in WrittenOnce =>
    /\ run[e].step \notin kept
    /\ \A d \in Commands \ {e} : run[d].step # run[e].step
=============================================================================
