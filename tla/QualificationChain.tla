-------------------------- MODULE QualificationChain ---------------------------
(***************************************************************************)
(* The chain smoke -> pilot -> development of action-dynamics collections: *)
(* run_lab_pilot and _run_stage (src/lab/action_dynamics/run_lab_pilot.py),*)
(* run_action_development (run_development.py), and the preparation, the   *)
(* qualifications and the assessment they call in                          *)
(* src/src/quantis_core/action_dynamics_lab.py.                            *)
(*                                                                         *)
(* A lab execution builds the image, then runs smoke and, if it qualifies, *)
(* the pilot.  A development execution builds on the evidence of both.     *)
(* Executions of either kind may overlap on one host, fail and be killed; *)
(* the working tree may be edited and evidence may be damaged meanwhile.   *)
(*                                                                         *)
(* The captures of a collection are those of one pair of twins, the second *)
(* after the first; CollectionLanes has the rest of the collection.  Their *)
(* quality is a choice of the assessment.  Evidence is read in one step.   *)
(* A directory stands for the hashes of what it holds, which is sound as   *)
(* long as one execution writes it (OneWriter, a checked property).        *)
(***************************************************************************)
EXTENDS Naturals, FiniteSets

CONSTANTS
  Labs,            \* executions of run_lab_pilot
  Developments,    \* executions of run_action_development
  Directories,     \* output and evidence directories
  SmokeDir,        \* each execution: smoke output, or smoke evidence
  PilotDir,        \* each execution: pilot output, or pilot evidence
  DevelopmentDir,  \* each development execution: its output
  Authorized,      \* the frozen protocol's authorization_identity:
                   \* [smoke, pilot, context]
  None,            \* no directory
  Overlap,         \* may executions overlap?
  MaxEdits,        \* bound: edits of the working tree
  MaxFaults,       \* bound: failures and kills
  MaxDamage        \* bound: complete directories that are changed afterwards

Drivers == Labs \cup Developments

VARIABLES
  pc,        \* the next step of each execution
  stage,     \* the stage it is at
  image,     \* the application image it inspected, by the source it is built of
  context,   \* the working tree it hashed
  source,    \* the working tree: how often it was edited
  tagged,    \* what the image tag quantis-action-dynamics-app:local names
  files,     \* each directory: the files that are complete
  writers,   \* history: the executions that wrote to it
  plan,      \* what its plan binds
  ran,       \* the images its captures ran, in order of the twins
  attested,  \* the image its attestation names
  status,    \* what its assessment says
  damaged,   \* complete directories something was changed in since
  faults

runVars == <<stage, image, context>>
hostVars == <<source, tagged>>
evidence == <<files, writers, plan, ran, attested, status, damaged>>
vars == <<pc, runVars, hostVars, evidence, faults>>

Sources == 0 .. MaxEdits
NoImage == MaxEdits + 1

Files == {"inputs", "qualification", "plan", "schema", "cases", "attestation", "quality",
          "report", "manifest"}
Stages == {"smoke", "pilot", "development"}
Plans == [stage : Stages \cup {"none"}, context : Sources,
          smoke : Directories \cup {None}, pilot : Directories \cup {None}]
NoPlan == [stage |-> "none", context |-> 0, smoke |-> None, pilot |-> None]

Steps == {"idle", "build", "inspect", "hash", "same", "inputs", "smoke", "pilot", "plan",
          "schema", "collect", "first", "second", "attest", "assess", "report", "manifest"}
Ends == {"qualified", "stopped", "refused", "failed"}

TypeOK ==
  /\ pc \in [Drivers -> Steps \cup Ends]
  /\ stage \in [Drivers -> Stages]
  /\ image \in [Drivers -> Sources \cup {NoImage}]
  /\ context \in [Drivers -> Sources]
  /\ source \in Sources /\ tagged \in Sources \cup {NoImage}
  /\ files \in [Directories -> SUBSET Files]
  /\ writers \in [Directories -> SUBSET Drivers]
  /\ plan \in [Directories -> Plans]
  /\ ran \in [Directories -> [{"first", "second"} -> Sources \cup {NoImage}]]
  /\ attested \in [Directories -> Sources \cup {NoImage}]
  /\ status \in [Directories -> {"none", "qualified", "failed"}]
  /\ damaged \in SUBSET Directories
  /\ faults \in 0 .. MaxFaults

Init ==
  /\ pc = [e \in Drivers |-> "idle"]
  /\ stage = [e \in Drivers |-> IF e \in Labs THEN "smoke" ELSE "development"]
  /\ image = [e \in Drivers |-> NoImage]
  /\ context = [e \in Drivers |-> 0]
  /\ source = 0 /\ tagged = NoImage
  /\ files = [d \in Directories |-> {}]
  /\ writers = [d \in Directories |-> {}]
  /\ plan = [d \in Directories |-> NoPlan]
  /\ ran = [d \in Directories |-> [t \in {"first", "second"} |-> NoImage]]
  /\ attested = [d \in Directories |-> NoImage]
  /\ status = [d \in Directories |-> "none"]
  /\ damaged = {} /\ faults = 0

-----------------------------------------------------------------------------
Goto(e, step) == pc' = [pc EXCEPT ![e] = step]
Moves(e, step) == Goto(e, step) /\ UNCHANGED <<runVars, hostVars, evidence, faults>>
Running(e) == pc[e] \notin Ends \cup {"idle"}

(* The directory of the stage an execution is at. *)
StageDir(e) ==
  CASE stage[e] = "smoke" -> SmokeDir[e]
    [] stage[e] = "pilot" -> PilotDir[e]
    [] stage[e] = "development" -> DevelopmentDir[e]

Exists(d) == files[d] # {}

Completes(e, file) ==
  /\ files' = [files EXCEPT ![StageDir(e)] = @ \cup {file}]
  /\ writers' = [writers EXCEPT ![StageDir(e)] = @ \cup {e}]

(* A failing command or file operation, a failed check that is not modelled *)
(* as one, or a kill: what is on disk stays as it is.                       *)
Fails(e) ==
  /\ Running(e) /\ faults < MaxFaults /\ faults' = faults + 1
  /\ Goto(e, "failed") /\ UNCHANGED <<runVars, hostVars, evidence>>

-----------------------------------------------------------------------------
(* Before the stages *)

Start(e) ==
  /\ pc[e] = "idle"
  /\ Overlap \/ \A f \in Drivers : ~Running(f)
  /\ \/ /\ e \in Labs
        /\ Moves(e, IF Exists(SmokeDir[e]) \/ Exists(PilotDir[e]) THEN "refused" ELSE "build")
     \/ /\ e \in Developments
        /\ Moves(e, IF \/ Exists(DevelopmentDir[e])
                       \/ \E d \in {SmokeDir[e], PilotDir[e]} : "quality" \notin files[d]
                    THEN "refused" ELSE "build")

(* docker compose build api: the image of the tree, under the shared tag. *)
Build(e) ==
  /\ pc[e] = "build" /\ Goto(e, "inspect")
  /\ tagged' = source
  /\ UNCHANGED <<runVars, source, evidence, faults>>

(* Faulty Inspect: the identity is taken from the tree, not from the tag.   *)
InspectOfTree(e) ==
  /\ pc[e] = "inspect" /\ Goto(e, "hash")
  /\ image' = [image EXCEPT ![e] = source]
  /\ UNCHANGED <<stage, context, hostVars, evidence, faults>>

Inspect(e) ==
  /\ pc[e] = "inspect" /\ Goto(e, "hash")
  /\ image' = [image EXCEPT ![e] = tagged]
  /\ UNCHANGED <<stage, context, hostVars, evidence, faults>>

(* hash_build_context.py: the tree as it is now. *)
HashContext(e) ==
  /\ pc[e] = "hash"
  /\ context' = [context EXCEPT ![e] = source]
  /\ Goto(e, IF e \in Labs THEN "inputs" ELSE "same")
  /\ UNCHANGED <<stage, image, hostVars, evidence, faults>>

(* _require_same_build *)
RequireSameBuild(e) ==
  /\ pc[e] = "same"
  /\ LET same == \A d \in {SmokeDir[e], PilotDir[e]} :
                   "plan" \in files[d] /\ plan[d].context = context[e]
     IN Moves(e, IF same THEN "inputs" ELSE "refused")

-----------------------------------------------------------------------------
(* A stage: write_prepared_action_collection *)

(* Faulty CreateInputs: mkdir(exist_ok=True), on the word of the check that *)
(* was made at the start.                                                   *)
CreateInputsAgain(e) ==
  /\ pc[e] = "inputs" /\ Completes(e, "inputs")
  /\ Goto(e, IF stage[e] = "smoke" THEN "plan" ELSE "smoke")
  /\ UNCHANGED <<runVars, hostVars, plan, ran, attested, status, damaged, faults>>

(* The inputs must be absent or empty, and mkdir of their manifests         *)
(* directory succeeds once.                                                 *)
CreateInputs(e) ==
  /\ pc[e] = "inputs"
  /\ \/ "inputs" \in files[StageDir(e)] /\ Moves(e, "refused")
     \/ /\ "inputs" \notin files[StageDir(e)]
        /\ Completes(e, "inputs")
        /\ Goto(e, IF stage[e] = "smoke" THEN "plan" ELSE "smoke")
        /\ UNCHANGED <<runVars, hostVars, plan, ran, attested, status, damaged, faults>>

(* Faulty Qualifies: the assessment alone is asked for.                     *)
QualifiesByAssessment(d, s) ==
  /\ {"plan", "quality", "attestation"} \subseteq files[d]
  /\ plan[d].stage = s /\ status[d] = "qualified" /\ d \notin damaged

(* The evidence of a finished stage: its files are complete, their hashes   *)
(* are those of the artifact manifest, and the assessment recomputed from   *)
(* the captures is the recorded one and qualified.                          *)
Qualifies(d, s) ==
  /\ {"plan", "quality", "manifest", "attestation"} \subseteq files[d]
  /\ plan[d].stage = s /\ status[d] = "qualified" /\ d \notin damaged

(* _write_smoke_qualification and, for development, the authorization. *)
BindSmoke(e) ==
  /\ pc[e] = "smoke"
  /\ LET s == SmokeDir[e] IN
     \/ /\ Qualifies(s, "smoke")
        /\ stage[e] = "development" => s = Authorized.smoke /\ context[e] = Authorized.context
        /\ Completes(e, "qualification")
        /\ plan' = [plan EXCEPT ![StageDir(e)].smoke = s]
        /\ Goto(e, IF stage[e] = "development" THEN "pilot" ELSE "plan")
        /\ UNCHANGED <<runVars, hostVars, ran, attested, status, damaged, faults>>
     \/ /\ \/ ~Qualifies(s, "smoke")
           \/ stage[e] = "development" /\ (s # Authorized.smoke \/ context[e] # Authorized.context)
        /\ Moves(e, "refused")

(* _write_pilot_qualification *)
BindPilot(e) ==
  /\ pc[e] = "pilot"
  /\ LET p == PilotDir[e]
         fits == /\ Qualifies(p, "pilot") /\ plan[p].smoke = SmokeDir[e]
                 /\ plan[p].context = context[e] /\ p = Authorized.pilot
     IN \/ /\ fits
           /\ plan' = [plan EXCEPT ![StageDir(e)].pilot = p]
           /\ Goto(e, "plan")
           /\ UNCHANGED <<runVars, hostVars, files, writers, ran, attested, status, damaged,
                          faults>>
        \/ ~fits /\ Moves(e, "refused")

WritePlan(e) ==
  /\ pc[e] = "plan" /\ Goto(e, "schema")
  /\ plan' = [plan EXCEPT ![StageDir(e)].stage = stage[e], ![StageDir(e)].context = context[e]]
  /\ Completes(e, "plan")
  /\ UNCHANGED <<runVars, hostVars, ran, attested, status, damaged, faults>>

WriteSchema(e) ==
  /\ pc[e] = "schema" /\ Goto(e, "collect") /\ Completes(e, "schema")
  /\ UNCHANGED <<runVars, hostVars, plan, ran, attested, status, damaged, faults>>

-----------------------------------------------------------------------------
(* A stage: collect_action_cases *)

StartCollection(e) ==
  /\ pc[e] = "collect"
  /\ \/ {"cases", "attestation"} \cap files[StageDir(e)] # {} /\ Moves(e, "refused")
     \/ /\ {"cases", "attestation"} \cap files[StageDir(e)] = {}
        /\ Completes(e, "cases") /\ Goto(e, "first")
        /\ UNCHANGED <<runVars, hostVars, plan, ran, attested, status, damaged, faults>>

(* Compose starts the containers of the image tag. *)
Capture(e, twin) ==
  /\ pc[e] = twin /\ Goto(e, IF twin = "first" THEN "second" ELSE "attest")
  /\ ran' = [ran EXCEPT ![StageDir(e)][twin] = tagged]
  /\ UNCHANGED <<runVars, hostVars, files, writers, plan, attested, status, damaged, faults>>

Attest(e) ==
  /\ pc[e] = "attest" /\ Goto(e, "assess") /\ Completes(e, "attestation")
  /\ attested' = [attested EXCEPT ![StageDir(e)] = image[e]]
  /\ UNCHANGED <<runVars, hostVars, plan, ran, status, damaged, faults>>

-----------------------------------------------------------------------------
(* A stage: write_action_collection_assessment.  The gates hold or not, as  *)
(* the captures have it.                                                    *)
Assess(e) ==
  /\ pc[e] = "assess" /\ Goto(e, "report") /\ Completes(e, "quality")
  /\ \E verdict \in {"qualified", "failed"} :
       status' = [status EXCEPT ![StageDir(e)] = verdict]
  /\ UNCHANGED <<runVars, hostVars, plan, ran, attested, damaged, faults>>

WriteReport(e) ==
  /\ pc[e] = "report" /\ Goto(e, "manifest") /\ Completes(e, "report")
  /\ UNCHANGED <<runVars, hostVars, plan, ran, attested, status, damaged, faults>>

(* The hashes of every file; then the smoke gate, or the end. *)
WriteManifest(e) ==
  /\ pc[e] = "manifest" /\ Completes(e, "manifest")
  /\ \/ /\ stage[e] = "smoke" /\ status[StageDir(e)] = "qualified"
        /\ stage' = [stage EXCEPT ![e] = "pilot"] /\ Goto(e, "inputs")
     \/ /\ stage[e] # "smoke" \/ status[StageDir(e)] # "qualified"
        /\ Goto(e, IF status[StageDir(e)] = "qualified" THEN "qualified" ELSE "stopped")
        /\ UNCHANGED stage
  /\ UNCHANGED <<image, context, hostVars, plan, ran, attested, status, damaged, faults>>

-----------------------------------------------------------------------------
(* The working tree is edited. *)
Edit == source < MaxEdits /\ source' = source + 1
        /\ UNCHANGED <<pc, runVars, tagged, evidence, faults>>

(* A file of a finished stage is changed, lost or added. *)
Damage(d) ==
  /\ "manifest" \in files[d] /\ d \notin damaged /\ Cardinality(damaged) < MaxDamage
  /\ damaged' = damaged \cup {d}
  /\ UNCHANGED <<pc, runVars, hostVars, files, writers, plan, ran, attested, status, faults>>

Step(e) ==
  \/ Start(e) \/ Build(e) \/ Inspect(e) \/ HashContext(e) \/ RequireSameBuild(e)
  \/ CreateInputs(e) \/ BindSmoke(e) \/ BindPilot(e) \/ WritePlan(e) \/ WriteSchema(e)
  \/ StartCollection(e) \/ Capture(e, "first") \/ Capture(e, "second") \/ Attest(e)
  \/ Assess(e) \/ WriteReport(e) \/ WriteManifest(e)

Next ==
  \/ \E e \in Drivers : Step(e) \/ Fails(e)
  \/ Edit
  \/ \E d \in Directories : Damage(d)

Spec == Init /\ [][Next]_vars

-----------------------------------------------------------------------------
(* Properties *)

(* The files of an output directory come from one execution, also when      *)
(* several that were started for it all found it absent: the checks at      *)
(* their start are long past, and the builds take minutes.                  *)
OneWriter == \A d \in Directories : \A e, f \in writers[d] : e = f

Finished(d, s) == "manifest" \in files[d] /\ plan[d].stage = s /\ status[d] = "qualified"

(* A pilot or development collection captures only on the evidence of a     *)
(* smoke, and of a pilot bound to that very smoke, that ran to the end,     *)
(* qualified and bind the same build context: never on what a killed or a   *)
(* failed stage left.                                                       *)
ChainIsSound ==
  \A d \in Directories :
    LET bound == plan[d] IN
    "cases" \in files[d] =>
      /\ bound.stage \in {"pilot", "development"} =>
           Finished(bound.smoke, "smoke") /\ plan[bound.smoke].context = bound.context
      /\ bound.stage = "development" =>
           /\ Finished(bound.pilot, "pilot") /\ plan[bound.pilot].context = bound.context
           /\ plan[bound.pilot].smoke = bound.smoke

(* Of executions one after the other: both twins run the image that the     *)
(* attestation names, although Compose is given its tag.                    *)
AttestedImageRuns ==
  \A d \in Directories :
    "attestation" \in files[d] => \A t \in DOMAIN ran[d] : ran[d][t] = attested[d]
================================================================================
