------------------------- MODULE QualificationChainProofs -------------------------
(***************************************************************************)
(* Theorems about the chain smoke -> pilot -> development, for any number  *)
(* of executions that overlap, fail and are killed, and any changes of the *)
(* working tree and of finished evidence.                                  *)
(***************************************************************************)
EXTENDS QualificationChain, TLAPS

(* What is assumed of the constants: every execution has its directories,   *)
(* and the bounds are numbers.                                              *)
ChainConstants ==
  /\ SmokeDir \in [Drivers -> Directories] /\ PilotDir \in [Drivers -> Directories]
  /\ DevelopmentDir \in [Developments -> Directories]
  /\ MaxEdits \in Nat /\ MaxFaults \in Nat

-----------------------------------------------------------------------------
(* Types *)

(* A lab execution is at smoke or at the pilot, a development execution at   *)
(* development.                                                              *)
StagesFit == \A e \in Drivers : e \in Labs <=> stage[e] # "development"

ChainTyped == TypeOK /\ StagesFit

LEMMA InitTyped ==
  ASSUME ChainConstants, Init
  PROVE  ChainTyped
<1>1. NoPlan \in Plans /\ 0 \in Sources
  BY DEF ChainConstants, NoPlan, Plans, Stages, Sources
<1>2. TypeOK
  BY <1>1 DEF Init, TypeOK, ChainConstants, Steps, Stages, NoImage
<1> QED
  BY <1>2 DEF Init, ChainTyped, StagesFit

LEMMA StageDirTyped ==
  ASSUME ChainConstants, ChainTyped, NEW e \in Drivers
  PROVE  StageDir(e) \in Directories
BY DEF ChainConstants, ChainTyped, TypeOK, StagesFit, StageDir, Stages, Drivers

(* An execution that moves on leaves the others where they are. *)
LEMMA Goes ==
  ASSUME TypeOK, NEW e \in Drivers, NEW step \in Steps \cup Ends, Goto(e, step)
  PROVE  /\ pc' \in [Drivers -> Steps \cup Ends] /\ pc'[e] = step
         /\ \A f \in Drivers : f # e => pc'[f] = pc[f]
BY DEF TypeOK, Goto

(* A file that is completed is one more file of one directory. *)
LEMMA FileCompleted ==
  ASSUME ChainConstants, ChainTyped, NEW e \in Drivers, NEW d \in Directories, d = StageDir(e),
         NEW file \in Files, Completes(e, file)
  PROVE  /\ files' \in [Directories -> SUBSET Files]
         /\ writers' \in [Directories -> SUBSET Drivers]
         /\ files'[d] = files[d] \cup {file} /\ writers'[d] = writers[d] \cup {e}
         /\ \A o \in Directories : o # d => files'[o] = files[o] /\ writers'[o] = writers[o]
BY DEF ChainTyped, TypeOK, Completes

(* Binding the evidence of a smoke or of a pilot, and writing the plan. *)
LEMMA PlanReplaced ==
  ASSUME TypeOK, NEW d \in Directories, NEW p \in Plans, plan' = [plan EXCEPT ![d] = p]
  PROVE  /\ plan' \in [Directories -> Plans] /\ plan'[d] = p
         /\ \A o \in Directories : o # d => plan'[o] = plan[o]
BY DEF TypeOK

LEMMA SmokeBound ==
  ASSUME TypeOK, NEW d \in Directories, NEW s \in Directories,
         plan' = [plan EXCEPT ![d].smoke = s]
  PROVE  /\ plan' \in [Directories -> Plans]
         /\ plan'[d].smoke = s /\ plan'[d].pilot = plan[d].pilot
         /\ \A o \in Directories : o # d => plan'[o] = plan[o]
<1>1. PICK p : p = [plan[d] EXCEPT !.smoke = s]
  OBVIOUS
<1>2. plan[d] \in Plans
  BY DEF TypeOK
<1>3. p \in Plans /\ p.smoke = s /\ p.pilot = plan[d].pilot
  BY <1>1, <1>2 DEF Plans
<1>4. plan' = [plan EXCEPT ![d] = p]
  BY <1>1
<1> QED
  BY <1>3, <1>4, PlanReplaced

LEMMA PilotBound ==
  ASSUME TypeOK, NEW d \in Directories, NEW s \in Directories,
         plan' = [plan EXCEPT ![d].pilot = s]
  PROVE  /\ plan' \in [Directories -> Plans]
         /\ plan'[d].pilot = s /\ plan'[d].smoke = plan[d].smoke
         /\ \A o \in Directories : o # d => plan'[o] = plan[o]
<1>1. PICK p : p = [plan[d] EXCEPT !.pilot = s]
  OBVIOUS
<1>2. plan[d] \in Plans
  BY DEF TypeOK
<1>3. p \in Plans /\ p.pilot = s /\ p.smoke = plan[d].smoke
  BY <1>1, <1>2 DEF Plans
<1>4. plan' = [plan EXCEPT ![d] = p]
  BY <1>1
<1> QED
  BY <1>3, <1>4, PlanReplaced

LEMMA PlanWritten ==
  ASSUME TypeOK, NEW e \in Drivers, WritePlan(e), NEW d \in Directories, d = StageDir(e),
         NEW s \in Stages, s = stage[e], NEW c \in Sources, c = context[e]
  PROVE  /\ plan' \in [Directories -> Plans]
         /\ plan'[d].stage = s /\ plan'[d].context = c
         /\ plan'[d].smoke = plan[d].smoke /\ plan'[d].pilot = plan[d].pilot
         /\ \A o \in Directories : o # d => plan'[o] = plan[o]
<1>1. PICK p : p = [plan[d] EXCEPT !.stage = s, !.context = c]
  OBVIOUS
<1>2. plan[d] \in Plans
  BY DEF TypeOK
<1>3. /\ p \in Plans /\ p.stage = s /\ p.context = c
      /\ p.smoke = plan[d].smoke /\ p.pilot = plan[d].pilot
  BY <1>1, <1>2 DEF Plans
<1>4. plan' = [plan EXCEPT ![d] = p]
  <2>1. plan' = [plan EXCEPT ![d].stage = s, ![d].context = c]
    BY DEF WritePlan
  <2> QED
    BY <1>1, <1>2, <2>1 DEF TypeOK, Plans
<1> QED
  BY <1>3, <1>4, PlanReplaced

(* What a twin ran. *)
LEMMA TwinRan ==
  ASSUME TypeOK, NEW d \in Directories, NEW t \in {"first", "second"},
         ran' = [ran EXCEPT ![d][t] = tagged]
  PROVE  /\ ran' \in [Directories -> [{"first", "second"} -> Sources \cup {NoImage}]]
         /\ \A u \in {"first", "second"} : ran'[d][u] = IF u = t THEN tagged ELSE ran[d][u]
         /\ \A o \in Directories : o # d => ran'[o] = ran[o]
BY DEF TypeOK

(* A step that only moves an execution on. *)
LEMMA MovesTyped ==
  ASSUME ChainTyped, NEW e \in Drivers, NEW step \in Steps \cup Ends, Goto(e, step),
         UNCHANGED <<runVars, hostVars, evidence>>, faults' \in 0 .. MaxFaults
  PROVE  ChainTyped'
<1>1. pc' \in [Drivers -> Steps \cup Ends]
  BY Goes DEF ChainTyped
<1> QED
  BY <1>1 DEF ChainTyped, TypeOK, StagesFit, runVars, hostVars, evidence

(* A step that completes a file and moves on. *)
LEMMA CompletesTyped ==
  ASSUME ChainConstants, ChainTyped, NEW e \in Drivers, NEW step \in Steps \cup Ends,
         Goto(e, step), NEW file \in Files, Completes(e, file),
         plan' \in [Directories -> Plans],
         attested' \in [Directories -> Sources \cup {NoImage}],
         status' \in [Directories -> {"none", "qualified", "failed"}],
         UNCHANGED <<runVars, hostVars, ran, damaged, faults>>
  PROVE  ChainTyped'
<1>1. pc' \in [Drivers -> Steps \cup Ends]
  BY Goes DEF ChainTyped
<1>2. files' \in [Directories -> SUBSET Files] /\ writers' \in [Directories -> SUBSET Drivers]
  BY StageDirTyped, FileCompleted
<1> QED
  BY <1>1, <1>2 DEF ChainTyped, TypeOK, StagesFit, runVars, hostVars

LEMMA StepTyped ==
  ASSUME ChainConstants, ChainTyped, [Next]_vars
  PROVE  ChainTyped'
<1> USE DEF Steps, Ends, Files
<1>1. CASE UNCHANGED vars
  BY <1>1 DEF ChainTyped, TypeOK, StagesFit, vars, runVars, hostVars, evidence
<1>2. ASSUME NEW e \in Drivers, Fails(e) PROVE ChainTyped'
  <2>1. faults' \in 0 .. MaxFaults
    BY <1>2 DEF Fails, ChainConstants, ChainTyped, TypeOK
  <2> QED
    BY <1>2, <2>1, MovesTyped DEF Fails
<1>3. ASSUME NEW e \in Drivers, NEW step \in Steps \cup Ends, Moves(e, step) PROVE ChainTyped'
  BY <1>3, MovesTyped DEF Moves, ChainTyped, TypeOK
<1>4. ASSUME NEW e \in Drivers, Start(e) \/ RequireSameBuild(e) PROVE ChainTyped'
  <2>1. \E step \in Steps \cup Ends : Moves(e, step)
    BY <1>4 DEF Start, RequireSameBuild
  <2> QED
    BY <1>3, <2>1
<1>5. ASSUME NEW e \in Drivers, Build(e) \/ Inspect(e) \/ HashContext(e) PROVE ChainTyped'
  <2>1. \E step \in Steps \cup Ends : Goto(e, step)
    BY <1>5 DEF Build, Inspect, HashContext
  <2>2. pc' \in [Drivers -> Steps \cup Ends]
    BY <2>1, Goes DEF ChainTyped
  <2>3. UNCHANGED <<stage, source, evidence, faults>>
    BY <1>5 DEF Build, Inspect, HashContext, runVars, hostVars
  <2>4. /\ image' \in [Drivers -> Sources \cup {NoImage}] /\ context' \in [Drivers -> Sources]
        /\ tagged' \in Sources \cup {NoImage}
    <3>1. /\ image \in [Drivers -> Sources \cup {NoImage}] /\ context \in [Drivers -> Sources]
          /\ source \in Sources /\ tagged \in Sources \cup {NoImage}
      BY DEF ChainTyped, TypeOK
    <3>2. CASE Build(e)
      BY <3>1, <3>2 DEF Build, runVars
    <3>3. CASE Inspect(e)
      BY <3>1, <3>3 DEF Inspect, hostVars
    <3>4. CASE HashContext(e)
      BY <3>1, <3>4 DEF HashContext, hostVars
    <3> QED
      BY <1>5, <3>2, <3>3, <3>4
  <2> QED
    BY <2>2, <2>3, <2>4 DEF ChainTyped, TypeOK, StagesFit, evidence
<1>6. ASSUME NEW e \in Drivers, CreateInputs(e) \/ StartCollection(e) \/ WriteSchema(e)
                                \/ WriteReport(e)
      PROVE  ChainTyped'
  <2>1. CASE \E step \in Steps \cup Ends : Moves(e, step)
    BY <1>3, <2>1
  <2>2. CASE ~\E step \in Steps \cup Ends : Moves(e, step)
    <3>1. /\ \E step \in Steps \cup Ends : Goto(e, step)
          /\ \E file \in Files : Completes(e, file)
          /\ UNCHANGED <<runVars, hostVars, plan, ran, attested, status, damaged, faults>>
      BY <1>6, <2>2 DEF CreateInputs, StartCollection, WriteSchema, WriteReport
    <3> QED
      BY <3>1, CompletesTyped DEF ChainTyped, TypeOK
  <2> QED
    BY <2>1, <2>2
<1>7. ASSUME NEW e \in Drivers, BindSmoke(e) PROVE ChainTyped'
  <2>1. CASE Moves(e, "refused")
    BY <1>3, <2>1
  <2>2. CASE ~Moves(e, "refused")
    <3>1. PICK d \in Directories : d = StageDir(e)
      BY StageDirTyped
    <3>2. PICK s \in Directories : s = SmokeDir[e]
      BY DEF ChainConstants
    <3>3. plan' = [plan EXCEPT ![d].smoke = s]
      BY <1>7, <2>2, <3>1, <3>2 DEF BindSmoke
    <3>4. plan' \in [Directories -> Plans]
      BY <3>3, SmokeBound DEF ChainTyped
    <3>5. /\ Completes(e, "qualification") /\ \E step \in Steps \cup Ends : Goto(e, step)
          /\ UNCHANGED <<runVars, hostVars, ran, attested, status, damaged, faults>>
      BY <1>7, <2>2 DEF BindSmoke
    <3> QED
      BY <3>4, <3>5, CompletesTyped DEF ChainTyped, TypeOK
  <2> QED
    BY <2>1, <2>2
<1>8. ASSUME NEW e \in Drivers, BindPilot(e) PROVE ChainTyped'
  <2>1. CASE Moves(e, "refused")
    BY <1>3, <2>1
  <2>2. CASE ~Moves(e, "refused")
    <3>1. PICK d \in Directories : d = StageDir(e)
      BY StageDirTyped
    <3>2. PICK p \in Directories : p = PilotDir[e]
      BY DEF ChainConstants
    <3>3. plan' = [plan EXCEPT ![d].pilot = p]
      BY <1>8, <2>2, <3>1, <3>2 DEF BindPilot
    <3>4. plan' \in [Directories -> Plans]
      BY <3>3, PilotBound DEF ChainTyped
    <3>5. /\ Goto(e, "plan")
          /\ UNCHANGED <<runVars, hostVars, files, writers, ran, attested, status, damaged, faults>>
      BY <1>8, <2>2 DEF BindPilot
    <3>6. pc' \in [Drivers -> Steps \cup Ends]
      BY <3>5, Goes DEF ChainTyped
    <3> QED
      BY <3>4, <3>5, <3>6 DEF ChainTyped, TypeOK, StagesFit, runVars, hostVars
  <2> QED
    BY <2>1, <2>2
<1>9. ASSUME NEW e \in Drivers, WritePlan(e) PROVE ChainTyped'
  <2>1. PICK d \in Directories : d = StageDir(e)
    BY StageDirTyped
  <2>2. PICK s \in Stages, c \in Sources : s = stage[e] /\ c = context[e]
    BY DEF ChainTyped, TypeOK
  <2>3. plan' \in [Directories -> Plans]
    BY <1>9, <2>1, <2>2, PlanWritten DEF ChainTyped
  <2> QED
    BY <1>9, <2>3, CompletesTyped DEF WritePlan, ChainTyped, TypeOK
<1>10. ASSUME NEW e \in Drivers, NEW t \in {"first", "second"}, Capture(e, t) PROVE ChainTyped'
  <2>1. PICK d \in Directories : d = StageDir(e)
    BY StageDirTyped
  <2>2. ran' = [ran EXCEPT ![d][t] = tagged]
    BY <1>10, <2>1 DEF Capture
  <2>3. ran' \in [Directories -> [{"first", "second"} -> Sources \cup {NoImage}]]
    BY <2>2, TwinRan DEF ChainTyped
  <2>4. pc' \in [Drivers -> Steps \cup Ends]
    BY <1>10, Goes DEF Capture, ChainTyped
  <2> QED
    BY <1>10, <2>3, <2>4 DEF Capture, ChainTyped, TypeOK, StagesFit, runVars, hostVars
<1>11. ASSUME NEW e \in Drivers, Attest(e) PROVE ChainTyped'
  <2>1. attested' \in [Directories -> Sources \cup {NoImage}]
    BY <1>11, StageDirTyped DEF Attest, ChainTyped, TypeOK
  <2> QED
    BY <1>11, <2>1, CompletesTyped DEF Attest, ChainTyped, TypeOK
<1>12. ASSUME NEW e \in Drivers, Assess(e) PROVE ChainTyped'
  <2>1. status' \in [Directories -> {"none", "qualified", "failed"}]
    BY <1>12, StageDirTyped DEF Assess, ChainTyped, TypeOK
  <2> QED
    BY <1>12, <2>1, CompletesTyped DEF Assess, ChainTyped, TypeOK
<1>13. ASSUME NEW e \in Drivers, WriteManifest(e) PROVE ChainTyped'
  <2>1. \E step \in Steps \cup Ends : Goto(e, step)
    BY <1>13 DEF WriteManifest
  <2>2. pc' \in [Drivers -> Steps \cup Ends]
    BY <2>1, Goes DEF ChainTyped
  <2>3. files' \in [Directories -> SUBSET Files] /\ writers' \in [Directories -> SUBSET Drivers]
    BY <1>13, StageDirTyped, FileCompleted DEF WriteManifest
  <2>4. /\ stage' \in [Drivers -> Stages]
        /\ \A f \in Drivers : stage'[f] # "development" <=> stage[f] # "development"
    BY <1>13 DEF WriteManifest, ChainTyped, TypeOK, Stages
  <2> QED
    BY <1>13, <2>2, <2>3, <2>4 DEF WriteManifest, ChainTyped, TypeOK, StagesFit, hostVars
<1>14. CASE Edit
  BY <1>14 DEF Edit, ChainConstants, ChainTyped, TypeOK, StagesFit, runVars, evidence, Sources,
               NoImage
<1>15. ASSUME NEW d \in Directories, Damage(d) PROVE ChainTyped'
  BY <1>15 DEF Damage, ChainTyped, TypeOK, StagesFit, runVars, hostVars
<1> QED
  BY <1>1, <1>2, <1>4, <1>5, <1>6, <1>7, <1>8, <1>9, <1>10, <1>11, <1>12, <1>13, <1>14, <1>15
     DEF Next, Step

-----------------------------------------------------------------------------
(* The inductive invariant of the evidence *)

WritingSteps == {"smoke", "pilot", "plan", "schema", "collect", "first", "second", "attest",
                 "assess", "report", "manifest"}

Writing(e) == pc[e] \in WritingSteps

(* A directory comes into being with its inputs, and from then on has the    *)
(* one writer that made them.                                               *)
DirectoryIsOwned(d) ==
  /\ \A e, f \in writers[d] : e = f
  /\ writers[d] # {} => files[d] # {}
  /\ files[d] # {} => "inputs" \in files[d]

(* Its files are completed in the order of the stage. *)
FilesInOrder(d) ==
  /\ "cases" \in files[d] => "plan" \in files[d]
  /\ "attestation" \in files[d] => "cases" \in files[d]
  /\ "quality" \in files[d] => "attestation" \in files[d]
  /\ "manifest" \in files[d] => "quality" \in files[d]

(* A smoke that ran to the end, qualified and binds the build context c, and *)
(* a pilot that did so and binds the smoke s.                               *)
SmokeOf(d, c) == d \in Directories /\ Finished(d, "smoke") /\ plan[d].context = c

PilotOf(d, c, s) ==
  d \in Directories /\ Finished(d, "pilot") /\ plan[d].context = c /\ plan[d].smoke = s

(* What a plan binds is evidence of that kind: from the plan on, not just    *)
(* from the first case.                                                     *)
PlanIsSound(d) ==
  "plan" \in files[d] =>
    /\ plan[d].stage \in {"pilot", "development"} => SmokeOf(plan[d].smoke, plan[d].context)
    /\ plan[d].stage = "development" =>
         PilotOf(plan[d].pilot, plan[d].context, plan[d].smoke)

(* How far an execution is with the directory of its stage, which it owns. *)
WritesInOrder(e) ==
  LET D == StageDir(e) IN
  Writing(e) =>
    /\ e \in writers[D]
    /\ pc[e] \in {"smoke", "pilot", "plan"} <=> "plan" \notin files[D]
    /\ pc[e] \in {"first", "second", "attest"} =>
         "cases" \in files[D] /\ "attestation" \notin files[D]
    /\ pc[e] = "assess" => "attestation" \in files[D] /\ "quality" \notin files[D]
    /\ pc[e] \in {"report", "manifest"} => "quality" \in files[D] /\ "manifest" \notin files[D]
    /\ "plan" \in files[D] => plan[D].stage = stage[e] /\ plan[D].context = context[e]

(* The evidence an execution has found to be of its own build context: a     *)
(* development that of both directories, a pilot that of its own smoke.     *)
ReadsItsContext(e) ==
  /\ stage[e] = "development" /\ (pc[e] = "inputs" \/ Writing(e)) =>
       \A d \in {SmokeDir[e], PilotDir[e]} : "plan" \in files[d] /\ plan[d].context = context[e]
  /\ stage[e] = "pilot" =>
       SmokeOf(SmokeDir[e], context[e]) /\ pc[e] \in {"inputs"} \cup WritingSteps \cup Ends

(* What the steps before the plan have bound. *)
BindsEvidence(e) ==
  LET D == StageDir(e) IN
  /\ stage[e] # "smoke" /\ pc[e] \in {"pilot", "plan"} =>
       plan[D].smoke = SmokeDir[e] /\ SmokeOf(SmokeDir[e], context[e])
  /\ stage[e] = "development" /\ pc[e] = "plan" =>
       plan[D].pilot = PilotDir[e] /\ PilotOf(PilotDir[e], context[e], SmokeDir[e])
  /\ pc[e] = "pilot" => stage[e] = "development"
  /\ pc[e] = "smoke" => stage[e] # "smoke"

DirectoryFits(d) == DirectoryIsOwned(d) /\ FilesInOrder(d) /\ PlanIsSound(d)
ExecutionFits(e) == WritesInOrder(e) /\ ReadsItsContext(e) /\ BindsEvidence(e)

EvidenceInv ==
  /\ ChainTyped
  /\ \A d \in Directories : DirectoryFits(d)
  /\ \A e \in Drivers : ExecutionFits(e)

-----------------------------------------------------------------------------
(* What a step leaves of the evidence *)

(* Complete evidence stays as it is: files are never taken away, a plan is   *)
(* written once and so is an assessment.                                    *)
EvidenceStays ==
  \A d \in Directories :
    /\ files[d] \subseteq files'[d]
    /\ "plan" \in files[d] => plan'[d] = plan[d]
    /\ "quality" \in files[d] => status'[d] = status[d]

(* A step of e changes at most the directory o, which is its own or new. *)
ChangesOnly(e, o) ==
  /\ \A f \in Drivers :
       f # e => pc'[f] = pc[f] /\ stage'[f] = stage[f] /\ context'[f] = context[f]
  /\ \A d \in Directories :
       d # o \/ e \notin writers'[d] =>
         /\ files'[d] = files[d] /\ writers'[d] = writers[d]
         /\ plan'[d] = plan[d] /\ status'[d] = status[d]
  /\ e \in writers'[o] =>
       /\ writers'[o] = writers[o] \cup {e} /\ "inputs" \in files'[o]
       /\ e \notin writers[o] => "inputs" \notin files[o]

LEMMA SmokeStays ==
  ASSUME EvidenceStays, NEW d, NEW c, FilesInOrder(d), SmokeOf(d, c)
  PROVE  SmokeOf(d, c)'
BY DEF EvidenceStays, FilesInOrder, SmokeOf, Finished

LEMMA PilotStays ==
  ASSUME EvidenceStays, NEW d, NEW c, NEW s, FilesInOrder(d), PilotOf(d, c, s)
  PROVE  PilotOf(d, c, s)'
BY DEF EvidenceStays, FilesInOrder, PilotOf, Finished

(* A plan that is sound stays so. *)
LEMMA PlanStaysSound ==
  ASSUME EvidenceInv, EvidenceStays, NEW d \in Directories, "plan" \in files[d]
  PROVE  PlanIsSound(d)'
<1>1. PICK p : p = plan[d]
  OBVIOUS
<1>2. plan'[d] = p
  BY <1>1 DEF EvidenceStays
<1>3. \A x \in Directories : FilesInOrder(x)
  BY DEF EvidenceInv, DirectoryFits
<1>4. PlanIsSound(d)
  BY DEF EvidenceInv, DirectoryFits
<1>5. p.stage \in {"pilot", "development"} => SmokeOf(p.smoke, p.context)'
  <2>1. p.stage \in {"pilot", "development"} => SmokeOf(p.smoke, p.context)
    BY <1>1, <1>4 DEF PlanIsSound
  <2> QED
    BY <2>1, <1>3, SmokeStays DEF SmokeOf
<1>6. p.stage = "development" => PilotOf(p.pilot, p.context, p.smoke)'
  <2>1. p.stage = "development" => PilotOf(p.pilot, p.context, p.smoke)
    BY <1>1, <1>4 DEF PlanIsSound
  <2> QED
    BY <2>1, <1>3, PilotStays DEF PilotOf
<1> QED
  BY <1>2, <1>5, <1>6 DEF PlanIsSound

LEMMA StageDirKept ==
  ASSUME NEW e, stage'[e] = stage[e]
  PROVE  StageDir(e)' = StageDir(e)
BY DEF StageDir

(* The other executions keep what holds of them. *)
LEMMA OthersKeep ==
  ASSUME ChainConstants, EvidenceInv, NEW e \in Drivers, NEW o \in Directories,
         EvidenceStays, ChangesOnly(e, o), NEW f \in Drivers, f # e
  PROVE  ExecutionFits(f)'
<1>1. PICK D \in Directories, s \in Directories, p \in Directories, c \in Sources :
        D = StageDir(f) /\ s = SmokeDir[f] /\ p = PilotDir[f] /\ c = context[f]
  BY StageDirTyped DEF EvidenceInv, ChainConstants, ChainTyped, TypeOK
<1>2. pc'[f] = pc[f] /\ stage'[f] = stage[f] /\ context'[f] = c
  BY <1>1 DEF ChangesOnly
<1>3. StageDir(f)' = D
  BY <1>1, <1>2, StageDirKept
<1>4. ExecutionFits(f)
  BY DEF EvidenceInv
<1>5. \A x \in Directories : FilesInOrder(x)
  BY DEF EvidenceInv, DirectoryFits
<1>6. WritesInOrder(f)'
  <2>1. CASE pc[f] \notin WritingSteps
    BY <1>2, <2>1 DEF WritesInOrder, Writing
  <2>2. CASE pc[f] \in WritingSteps
    <3>1. f \in writers[D]
      BY <1>1, <1>4, <2>2 DEF ExecutionFits, WritesInOrder, Writing
    <3>2. DirectoryIsOwned(D)
      BY DEF EvidenceInv, DirectoryFits
    <3>3. e \notin writers[D] /\ "inputs" \in files[D]
      BY <3>1, <3>2 DEF DirectoryIsOwned
    <3>4. D # o \/ e \notin writers'[D]
      BY <3>3 DEF ChangesOnly
    <3>5. files'[D] = files[D] /\ writers'[D] = writers[D] /\ plan'[D] = plan[D]
      BY <3>4 DEF ChangesOnly
    <3> QED
      BY <1>1, <1>2, <1>3, <1>4, <3>5 DEF ExecutionFits, WritesInOrder, Writing
  <2> QED
    BY <2>1, <2>2
<1>7. ReadsItsContext(f)'
  <2>1. SmokeOf(s, c) => SmokeOf(s, c)'
    BY <1>5, SmokeStays
  <2>2. stage[f] = "pilot" =>
          SmokeOf(s, c) /\ pc[f] \in {"inputs"} \cup WritingSteps \cup Ends
    BY <1>1, <1>4 DEF ExecutionFits, ReadsItsContext
  <2>3. \A d \in {s, p} : "plan" \in files[d] /\ plan[d].context = c
                          => "plan" \in files'[d] /\ plan'[d].context = c
    BY DEF EvidenceStays
  <2>4. stage[f] = "development" /\ (pc[f] = "inputs" \/ pc[f] \in WritingSteps) =>
          \A d \in {s, p} : "plan" \in files[d] /\ plan[d].context = c
    BY <1>1, <1>4 DEF ExecutionFits, ReadsItsContext, Writing
  <2> QED
    BY <1>1, <1>2, <2>1, <2>2, <2>3, <2>4 DEF ReadsItsContext, Writing
<1>8. BindsEvidence(f)'
  <2>1. SmokeOf(s, c) => SmokeOf(s, c)'
    BY <1>5, SmokeStays
  <2>2. PilotOf(p, c, s) => PilotOf(p, c, s)'
    BY <1>5, PilotStays
  <2>3. pc[f] \in {"pilot", "plan"} => plan'[D] = plan[D]
    <3>1. SUFFICES ASSUME pc[f] \in {"pilot", "plan"} PROVE plan'[D] = plan[D]
      OBVIOUS
    <3>2. f \in writers[D]
      BY <1>1, <1>4, <3>1 DEF ExecutionFits, WritesInOrder, Writing, WritingSteps
    <3>3. DirectoryIsOwned(D)
      BY DEF EvidenceInv, DirectoryFits
    <3>4. e \notin writers[D] /\ "inputs" \in files[D]
      BY <3>2, <3>3 DEF DirectoryIsOwned
    <3> QED
      BY <3>4 DEF ChangesOnly
  <2>4. BindsEvidence(f)
    BY <1>4 DEF ExecutionFits
  <2> QED
    BY <1>1, <1>2, <1>3, <2>1, <2>2, <2>3, <2>4 DEF BindsEvidence
<1> QED
  BY <1>6, <1>7, <1>8 DEF ExecutionFits

(* The directories keep what holds of them, when the one that changes keeps  *)
(* the order of its files and a plan written to it is sound.                *)
LEMMA DirectoriesKeep ==
  ASSUME ChainConstants, EvidenceInv, NEW e \in Drivers, NEW o \in Directories,
         EvidenceStays, ChangesOnly(e, o), FilesInOrder(o)',
         "plan" \in files[o] \/ PlanIsSound(o)'
  PROVE  \A d \in Directories : DirectoryFits(d)'
<1>1. SUFFICES ASSUME NEW d \in Directories PROVE DirectoryFits(d)'
  OBVIOUS
<1>2. DirectoryFits(d)
  BY DEF EvidenceInv
<1>3. CASE d # o \/ e \notin writers'[d]
  <2>1. files'[d] = files[d] /\ writers'[d] = writers[d]
    BY <1>3 DEF ChangesOnly
  <2>2. DirectoryIsOwned(d)' /\ FilesInOrder(d)'
    BY <1>2, <2>1 DEF DirectoryFits, DirectoryIsOwned, FilesInOrder
  <2>3. PlanIsSound(d)'
    <3>1. CASE "plan" \in files[d]
      BY <3>1, PlanStaysSound
    <3>2. CASE "plan" \notin files[d]
      BY <2>1, <3>2 DEF PlanIsSound
    <3> QED
      BY <3>1, <3>2
  <2> QED
    BY <2>2, <2>3 DEF DirectoryFits
<1>4. CASE d = o /\ e \in writers'[o]
  <2>1. DirectoryIsOwned(o)'
    BY <1>2, <1>4 DEF DirectoryFits, DirectoryIsOwned, ChangesOnly
  <2>2. PlanIsSound(o)'
    BY PlanStaysSound
  <2> QED
    BY <1>4, <2>1, <2>2 DEF DirectoryFits
<1> QED
  BY <1>3, <1>4

-----------------------------------------------------------------------------
(* Each step *)

(* What is left to show of a step of e that changes at most the directory o. *)
LEMMA StepKeeps ==
  ASSUME ChainConstants, EvidenceInv, ChainTyped', NEW e \in Drivers, NEW o \in Directories,
         EvidenceStays, ChangesOnly(e, o), FilesInOrder(o)',
         "plan" \in files[o] \/ PlanIsSound(o)', ExecutionFits(e)'
  PROVE  EvidenceInv'
<1>1. \A d \in Directories : DirectoryFits(d)'
  BY DirectoriesKeep
<1>2. \A f \in Drivers : ExecutionFits(f)'
  BY OthersKeep
<1> QED
  BY <1>1, <1>2 DEF EvidenceInv

(* A step that writes nothing. *)
LEMMA QuietStep ==
  ASSUME ChainConstants, EvidenceInv, ChainTyped', NEW e \in Drivers,
         UNCHANGED <<files, writers, plan, status>>,
         \A f \in Drivers :
           f # e => pc'[f] = pc[f] /\ stage'[f] = stage[f] /\ context'[f] = context[f],
         ExecutionFits(e)'
  PROVE  EvidenceInv'
<1>1. EvidenceStays
  BY DEF EvidenceStays
<1>2. \A d \in Directories : DirectoryFits(d)'
  <2>1. SUFFICES ASSUME NEW d \in Directories PROVE DirectoryFits(d)'
    OBVIOUS
  <2>2. DirectoryFits(d)
    BY DEF EvidenceInv
  <2> QED
    BY <2>2 DEF DirectoryFits, DirectoryIsOwned, FilesInOrder, PlanIsSound, SmokeOf, PilotOf,
                Finished
<1>3. ASSUME NEW f \in Drivers, f # e PROVE ExecutionFits(f)'
  <2>1. pc'[f] = pc[f] /\ stage'[f] = stage[f] /\ context'[f] = context[f]
    BY <1>3
  <2>2. PICK D \in Directories : D = StageDir(f)
    BY StageDirTyped DEF EvidenceInv
  <2>3. StageDir(f)' = D
    BY <2>1, <2>2, StageDirKept
  <2>4. ExecutionFits(f)
    BY DEF EvidenceInv
  <2>5. WritesInOrder(f)'
    BY <2>1, <2>2, <2>3, <2>4 DEF ExecutionFits, WritesInOrder, Writing
  <2>6. ReadsItsContext(f)'
    BY <2>1, <2>4 DEF ExecutionFits, ReadsItsContext, Writing, SmokeOf, Finished
  <2>7. BindsEvidence(f)'
    BY <2>1, <2>2, <2>3, <2>4 DEF ExecutionFits, BindsEvidence, SmokeOf, PilotOf, Finished
  <2> QED
    BY <2>5, <2>6, <2>7 DEF ExecutionFits
<1> QED
  BY <1>2, <1>3 DEF EvidenceInv

(* An execution that is refused, stops or fails. *)
LEMMA EndedFits ==
  ASSUME EvidenceInv, NEW e \in Drivers, pc'[e] \in Ends, stage'[e] = stage[e],
         context'[e] = context[e], UNCHANGED <<files, plan, status>>
  PROVE  ExecutionFits(e)'
<1>1. pc'[e] \notin WritingSteps /\ pc'[e] # "inputs"
  BY DEF Ends, WritingSteps
<1>2. WritesInOrder(e)'
  BY <1>1 DEF WritesInOrder, Writing
<1>3. ReadsItsContext(e)'
  <2>1. ReadsItsContext(e)
    BY DEF EvidenceInv, ExecutionFits
  <2> QED
    BY <1>1, <2>1 DEF ReadsItsContext, Writing, SmokeOf, Finished
<1>4. BindsEvidence(e)'
  BY <1>1 DEF BindsEvidence, WritingSteps
<1> QED
  BY <1>2, <1>3, <1>4 DEF ExecutionFits

LEMMA MovesKeep ==
  ASSUME ChainConstants, EvidenceInv, ChainTyped', NEW e \in Drivers,
         NEW step \in Steps \cup Ends, Goto(e, step),
         UNCHANGED <<runVars, files, writers, plan, status>>, step \in Ends \/ ExecutionFits(e)'
  PROVE  EvidenceInv'
<1>1. pc'[e] = step /\ \A f \in Drivers : f # e => pc'[f] = pc[f]
  BY Goes DEF EvidenceInv, ChainTyped
<1>2. stage' = stage /\ context' = context
  BY DEF runVars
<1>3. ExecutionFits(e)'
  BY <1>1, <1>2, EndedFits
<1> QED
  BY <1>1, <1>2, <1>3, QuietStep

(* Before the stages, an execution has not yet read or bound anything. *)
LEMMA EarlyFits ==
  ASSUME EvidenceInv, NEW e \in Drivers, pc[e] \in {"idle", "build", "inspect", "hash"},
         pc'[e] \in {"build", "inspect", "hash", "same"}, stage'[e] = stage[e]
  PROVE  ExecutionFits(e)'
<1>1. pc'[e] \notin WritingSteps /\ pc'[e] \notin {"inputs", "smoke", "pilot", "plan"}
  BY DEF WritingSteps
<1>2. stage[e] # "pilot"
  BY DEF EvidenceInv, ExecutionFits, ReadsItsContext, WritingSteps, Ends
<1>3. WritesInOrder(e)' /\ BindsEvidence(e)'
  BY <1>1 DEF WritesInOrder, Writing, BindsEvidence
<1>4. ReadsItsContext(e)'
  BY <1>1, <1>2 DEF ReadsItsContext, Writing
<1> QED
  BY <1>3, <1>4 DEF ExecutionFits

LEMMA StartKeeps ==
  ASSUME ChainConstants, EvidenceInv, ChainTyped', NEW e \in Drivers, Start(e)
  PROVE  EvidenceInv'
<1>1. pc[e] = "idle" /\ (Moves(e, "refused") \/ Moves(e, "build"))
  BY DEF Start
<1>2. CASE Moves(e, "refused")
  BY <1>2, MovesKeep DEF Moves, evidence, Ends
<1>3. CASE Moves(e, "build")
  <2>1. pc'[e] = "build" /\ stage'[e] = stage[e]
    BY <1>3, Goes DEF Moves, runVars, EvidenceInv, ChainTyped, Steps
  <2>2. ExecutionFits(e)'
    BY <1>1, <2>1, EarlyFits
  <2> QED
    BY <1>3, <2>2, MovesKeep DEF Moves, evidence, Steps
<1> QED
  BY <1>1, <1>2, <1>3

LEMMA BuildKeeps ==
  ASSUME ChainConstants, EvidenceInv, ChainTyped', NEW e \in Drivers, Build(e) \/ Inspect(e)
  PROVE  EvidenceInv'
<1>1. PICK step \in {"inspect", "hash"} : Goto(e, step)
  BY DEF Build, Inspect
<1>2. /\ pc[e] \in {"build", "inspect"}
      /\ UNCHANGED <<stage, context, files, writers, plan, status>>
  BY DEF Build, Inspect, runVars, evidence
<1>3. pc'[e] = step /\ \A f \in Drivers : f # e => pc'[f] = pc[f]
  BY <1>1, Goes DEF EvidenceInv, ChainTyped, Steps
<1>4. ExecutionFits(e)'
  BY <1>2, <1>3, EarlyFits
<1> QED
  BY <1>2, <1>3, <1>4, QuietStep

LEMMA HashContextKeeps ==
  ASSUME ChainConstants, EvidenceInv, ChainTyped', NEW e \in Drivers, HashContext(e)
  PROVE  EvidenceInv'
<1>1. PICK step \in {"inputs", "same"} :
        Goto(e, step) /\ (step = "inputs" <=> e \in Labs)
  BY DEF HashContext
<1>2. /\ pc[e] = "hash" /\ context' = [context EXCEPT ![e] = source]
      /\ UNCHANGED <<stage, files, writers, plan, status>>
  BY DEF HashContext, evidence
<1>3. pc'[e] = step /\ \A f \in Drivers : f # e => pc'[f] = pc[f]
  BY <1>1, Goes DEF EvidenceInv, ChainTyped, Steps
<1>4. \A f \in Drivers : f # e => context'[f] = context[f]
  BY <1>2 DEF EvidenceInv, ChainTyped, TypeOK
<1>5. ExecutionFits(e)'
  <2>1. CASE step = "same"
    BY <1>2, <1>3, <2>1, EarlyFits
  <2>2. CASE step = "inputs"
    <3>1. stage[e] # "development"
      BY <1>1, <2>2 DEF EvidenceInv, ChainTyped, StagesFit
    <3>2. stage[e] # "pilot"
      BY <1>2 DEF EvidenceInv, ExecutionFits, ReadsItsContext, WritingSteps, Ends
    <3> QED
      BY <1>2, <1>3, <2>2, <3>1, <3>2
         DEF ExecutionFits, WritesInOrder, ReadsItsContext, BindsEvidence, Writing, WritingSteps
  <2> QED
    BY <2>1, <2>2
<1> QED
  BY <1>2, <1>3, <1>4, <1>5, QuietStep

LEMMA RequireSameBuildKeeps ==
  ASSUME ChainConstants, EvidenceInv, ChainTyped', NEW e \in Drivers, RequireSameBuild(e)
  PROVE  EvidenceInv'
<1>1. pc[e] = "same" /\ (Moves(e, "refused") \/ Moves(e, "inputs"))
  BY DEF RequireSameBuild
<1>2. CASE Moves(e, "refused")
  BY <1>2, MovesKeep DEF Moves, evidence, Ends
<1>3. CASE ~Moves(e, "refused")
  <2>1. /\ Moves(e, "inputs")
        /\ \A d \in {SmokeDir[e], PilotDir[e]} :
             "plan" \in files[d] /\ plan[d].context = context[e]
    BY <1>3 DEF RequireSameBuild
  <2>2. pc'[e] = "inputs" /\ UNCHANGED <<stage, context, files, plan>>
    BY <2>1, Goes DEF Moves, runVars, evidence, EvidenceInv, ChainTyped, Steps
  <2>3. stage[e] # "pilot"
    BY <1>1 DEF EvidenceInv, ExecutionFits, ReadsItsContext, WritingSteps, Ends
  <2>4. ExecutionFits(e)'
    BY <2>1, <2>2, <2>3
       DEF ExecutionFits, WritesInOrder, ReadsItsContext, BindsEvidence, Writing, WritingSteps
  <2> QED
    BY <2>1, <2>4, MovesKeep DEF Moves, evidence, Steps
<1> QED
  BY <1>1, <1>2, <1>3

(* A step that completes a file of the directory of its stage. *)
LEMMA OwnStep ==
  ASSUME ChainConstants, EvidenceInv, NEW e \in Drivers, NEW o \in Directories, o = StageDir(e),
         NEW file \in Files, Completes(e, file), NEW step \in Steps \cup Ends, Goto(e, step),
         Writing(e) \/ (file = "inputs" /\ "inputs" \notin files[o]),
         \A d \in Directories : d # o => plan'[d] = plan[d] /\ status'[d] = status[d],
         "plan" \in files[o] => plan'[o] = plan[o],
         "quality" \in files[o] => status'[o] = status[o],
         \A f \in Drivers : f # e => stage'[f] = stage[f] /\ context'[f] = context[f]
  PROVE  /\ EvidenceStays /\ ChangesOnly(e, o)
         /\ files'[o] = files[o] \cup {file} /\ e \in writers'[o] /\ pc'[e] = step
<1>1. /\ files'[o] = files[o] \cup {file} /\ writers'[o] = writers[o] \cup {e}
      /\ \A d \in Directories : d # o => files'[d] = files[d] /\ writers'[d] = writers[d]
  BY FileCompleted DEF EvidenceInv
<1>2. pc'[e] = step /\ \A f \in Drivers : f # e => pc'[f] = pc[f]
  BY Goes DEF EvidenceInv, ChainTyped
<1>3. DirectoryIsOwned(o)
  BY DEF EvidenceInv, DirectoryFits
<1>4. Writing(e) => e \in writers[o]
  BY DEF EvidenceInv, ExecutionFits, WritesInOrder
<1>5. EvidenceStays
  <2>1. SUFFICES ASSUME NEW d \in Directories
                 PROVE  /\ files[d] \subseteq files'[d]
                        /\ "plan" \in files[d] => plan'[d] = plan[d]
                        /\ "quality" \in files[d] => status'[d] = status[d]
    BY DEF EvidenceStays
  <2> QED
    BY <1>1
<1>6. ChangesOnly(e, o)
  <2>1. \A d \in Directories : d # o \/ e \notin writers'[d] => d # o
    BY <1>1
  <2>2. "inputs" \in files'[o] /\ (e \notin writers[o] => "inputs" \notin files[o])
    BY <1>1, <1>3, <1>4 DEF DirectoryIsOwned
  <2> QED
    BY <1>1, <1>2, <2>1, <2>2 DEF ChangesOnly
<1> QED
  BY <1>1, <1>2, <1>5, <1>6

LEMMA CaptureKeeps ==
  ASSUME ChainConstants, EvidenceInv, ChainTyped', NEW e \in Drivers,
         NEW t \in {"first", "second"}, Capture(e, t)
  PROVE  EvidenceInv'
<1>1. PICK step \in {"second", "attest"} : Goto(e, step)
  BY DEF Capture
<1>2. pc[e] \in {"first", "second"} /\ UNCHANGED <<runVars, files, writers, plan, status>>
  BY DEF Capture
<1>3. pc'[e] = step /\ UNCHANGED <<stage, context>>
  BY <1>1, <1>2, Goes DEF EvidenceInv, ChainTyped, Steps, runVars
<1>4. PICK o \in Directories : o = StageDir(e)
  BY StageDirTyped DEF EvidenceInv
<1>5. StageDir(e)' = o
  BY <1>3, <1>4, StageDirKept
<1>6. ExecutionFits(e)
  BY DEF EvidenceInv
<1>7. WritesInOrder(e)'
  BY <1>2, <1>3, <1>4, <1>5, <1>6 DEF ExecutionFits, WritesInOrder, Writing, WritingSteps
<1>8. ReadsItsContext(e)' /\ BindsEvidence(e)'
  BY <1>2, <1>3, <1>6 DEF ExecutionFits, ReadsItsContext, BindsEvidence, Writing, WritingSteps,
                          SmokeOf, Finished
<1> QED
  BY <1>1, <1>2, <1>7, <1>8, MovesKeep DEF ExecutionFits, Steps

LEMMA CreateInputsKeeps ==
  ASSUME ChainConstants, EvidenceInv, ChainTyped', NEW e \in Drivers, CreateInputs(e)
  PROVE  EvidenceInv'
<1>1. CASE Moves(e, "refused")
  BY <1>1, MovesKeep DEF Moves, evidence, Ends
<1>2. CASE ~Moves(e, "refused")
  <2>1. PICK o \in Directories : o = StageDir(e)
    BY StageDirTyped DEF EvidenceInv
  <2>2. PICK step \in {"smoke", "plan"} : step = IF stage[e] = "smoke" THEN "plan" ELSE "smoke"
    OBVIOUS
  <2>3. /\ pc[e] = "inputs" /\ "inputs" \notin files[o] /\ Completes(e, "inputs")
        /\ Goto(e, step) /\ UNCHANGED <<runVars, plan, status>>
    BY <1>2, <2>1, <2>2 DEF CreateInputs
  <2>4. UNCHANGED <<stage, context>>
    BY <2>3 DEF runVars
  <2>5. /\ EvidenceStays /\ ChangesOnly(e, o)
        /\ files'[o] = files[o] \cup {"inputs"} /\ e \in writers'[o] /\ pc'[e] = step
    BY <2>1, <2>2, <2>3, <2>4, OwnStep DEF Files, Steps
  <2>6. files[o] = {}
    BY <2>3 DEF EvidenceInv, DirectoryFits, DirectoryIsOwned
  <2>7. FilesInOrder(o)' /\ PlanIsSound(o)'
    BY <2>5, <2>6 DEF FilesInOrder, PlanIsSound
  <2>8. StageDir(e)' = o
    BY <2>1, <2>4, StageDirKept
  <2>9. WritesInOrder(e)'
    BY <2>2, <2>4, <2>5, <2>6, <2>8 DEF WritesInOrder, Writing
  <2>10. ReadsItsContext(e)'
    <3>1. ReadsItsContext(e)
      BY DEF EvidenceInv, ExecutionFits
    <3>2. PICK c \in Sources, s \in Directories, p \in Directories :
            c = context[e] /\ s = SmokeDir[e] /\ p = PilotDir[e]
      BY DEF EvidenceInv, ChainTyped, TypeOK, ChainConstants
    <3>3. \A d \in {s, p} : "plan" \in files[d] => "plan" \in files'[d] /\ plan'[d] = plan[d]
      BY <2>5 DEF EvidenceStays
    <3>4. FilesInOrder(s)
      BY DEF EvidenceInv, DirectoryFits
    <3>5. SmokeOf(s, c) => SmokeOf(s, c)'
      BY <2>5, <3>4, SmokeStays
    <3> QED
      BY <2>2, <2>3, <2>4, <2>5, <3>1, <3>2, <3>3, <3>5
         DEF ReadsItsContext, Writing, WritingSteps
  <2>11. BindsEvidence(e)'
    BY <2>2, <2>4, <2>5 DEF BindsEvidence, EvidenceInv, ChainTyped, TypeOK, Stages
  <2> QED
    BY <2>5, <2>7, <2>9, <2>10, <2>11, StepKeeps DEF ExecutionFits
<1> QED
  BY <1>1, <1>2

(* What an execution has read stays so. *)
LEMMA ReadsKept ==
  ASSUME ChainConstants, EvidenceInv, EvidenceStays, NEW e \in Drivers, Writing(e),
         stage'[e] = stage[e], context'[e] = context[e],
         pc'[e] \in {"inputs"} \cup WritingSteps \cup Ends
  PROVE  ReadsItsContext(e)'
<1>1. PICK c \in Sources, s \in Directories, p \in Directories :
        c = context[e] /\ s = SmokeDir[e] /\ p = PilotDir[e]
  BY DEF EvidenceInv, ChainTyped, TypeOK, ChainConstants
<1>2. \A d \in {s, p} : "plan" \in files[d] => "plan" \in files'[d] /\ plan'[d] = plan[d]
  BY DEF EvidenceStays
<1>3. FilesInOrder(s)
  BY DEF EvidenceInv, DirectoryFits
<1>4. SmokeOf(s, c) => SmokeOf(s, c)'
  BY <1>3, SmokeStays
<1>5. ReadsItsContext(e)
  BY DEF EvidenceInv, ExecutionFits
<1> QED
  BY <1>1, <1>2, <1>4, <1>5 DEF ReadsItsContext, Writing

(* A step after the plan that completes the next file. *)
LEMMA NextFileKeeps ==
  ASSUME ChainConstants, EvidenceInv, ChainTyped', NEW e \in Drivers, NEW o \in Directories,
         o = StageDir(e), Writing(e), "plan" \in files[o],
         NEW file \in Files, Completes(e, file), NEW step \in Steps \cup Ends, Goto(e, step),
         step \in {"collect", "first", "assess", "report", "manifest"} \cup Ends,
         file # "plan",
         UNCHANGED <<stage, context, plan>>,
         \A d \in Directories : d # o \/ "quality" \in files[o] => status'[d] = status[d],
         FilesInOrder(o)', WritesInOrder(e)'
  PROVE  EvidenceInv'
<1>1. /\ EvidenceStays /\ ChangesOnly(e, o)
      /\ files'[o] = files[o] \cup {file} /\ e \in writers'[o] /\ pc'[e] = step
  <2>1. \A d \in Directories : d # o => plan'[d] = plan[d] /\ status'[d] = status[d]
    OBVIOUS
  <2>2. plan'[o] = plan[o] /\ ("quality" \in files[o] => status'[o] = status[o])
    OBVIOUS
  <2>3. \A f \in Drivers : f # e => stage'[f] = stage[f] /\ context'[f] = context[f]
    OBVIOUS
  <2> QED
    BY <2>1, <2>2, <2>3, OwnStep
<1>2. ReadsItsContext(e)'
  BY <1>1, ReadsKept DEF WritingSteps
<1>3. BindsEvidence(e)'
  BY <1>1 DEF BindsEvidence, Ends
<1> QED
  BY <1>1, <1>2, <1>3, StepKeeps DEF ExecutionFits

LEMMA LaterFilesKeep ==
  ASSUME ChainConstants, EvidenceInv, ChainTyped', NEW e \in Drivers,
         WriteSchema(e) \/ Attest(e) \/ Assess(e) \/ WriteReport(e)
  PROVE  EvidenceInv'
<1>1. PICK o \in Directories : o = StageDir(e)
  BY StageDirTyped DEF EvidenceInv
<1>2. WritesInOrder(e) /\ FilesInOrder(o)
  BY DEF EvidenceInv, ExecutionFits, DirectoryFits
<1>3. UNCHANGED <<stage, context, plan>>
  BY DEF WriteSchema, Attest, Assess, WriteReport, runVars
<1>4. StageDir(e)' = o
  BY <1>1, <1>3, StageDirKept
<1>5. Writing(e) /\ "plan" \in files[o]
  BY <1>1, <1>2 DEF WriteSchema, Attest, Assess, WriteReport, Writing, WritingSteps, WritesInOrder
<1>6. PICK file \in {"schema", "attestation", "quality", "report"},
           step \in {"collect", "assess", "report", "manifest"} :
        /\ Completes(e, file) /\ Goto(e, step)
        /\ \/ pc[e] = "schema" /\ file = "schema" /\ step = "collect"
           \/ pc[e] = "attest" /\ file = "attestation" /\ step = "assess"
           \/ pc[e] = "assess" /\ file = "quality" /\ step = "report"
           \/ pc[e] = "report" /\ file = "report" /\ step = "manifest"
  BY DEF WriteSchema, Attest, Assess, WriteReport
<1>7. \A d \in Directories : d # o \/ "quality" \in files[o] => status'[d] = status[d]
  <2>1. CASE WriteSchema(e) \/ Attest(e) \/ WriteReport(e)
    BY <2>1 DEF WriteSchema, Attest, WriteReport
  <2>2. CASE Assess(e)
    <3>1. "quality" \notin files[o]
      BY <1>1, <1>2, <2>2 DEF Assess, WritesInOrder, Writing, WritingSteps
    <3>2. PICK v : status' = [status EXCEPT ![o] = v]
      BY <1>1, <2>2 DEF Assess
    <3> QED
      BY <3>1, <3>2 DEF EvidenceInv, ChainTyped, TypeOK
  <2> QED
    BY <2>1, <2>2
<1>8. /\ files'[o] = files[o] \cup {file} /\ e \in writers'[o] /\ pc'[e] = step
  <2>1. /\ \A d \in Directories : d # o => plan'[d] = plan[d] /\ status'[d] = status[d]
        /\ plan'[o] = plan[o] /\ ("quality" \in files[o] => status'[o] = status[o])
    BY <1>3, <1>7
  <2>2. \A f \in Drivers : f # e => stage'[f] = stage[f] /\ context'[f] = context[f]
    BY <1>3
  <2>3. file \in Files /\ step \in Steps \cup Ends
    BY DEF Files, Steps
  <2> QED
    BY <1>1, <1>5, <1>6, <2>1, <2>2, <2>3, OwnStep
<1>9. FilesInOrder(o)'
  BY <1>1, <1>2, <1>5, <1>6, <1>8 DEF FilesInOrder, WritesInOrder, Writing
<1>10. WritesInOrder(e)'
  BY <1>1, <1>2, <1>3, <1>4, <1>5, <1>6, <1>8
     DEF FilesInOrder, WritesInOrder, Writing
<1> QED
  BY <1>1, <1>3, <1>5, <1>6, <1>7, <1>9, <1>10, NextFileKeeps DEF Files, Steps

LEMMA StartCollectionKeeps ==
  ASSUME ChainConstants, EvidenceInv, ChainTyped', NEW e \in Drivers, StartCollection(e)
  PROVE  EvidenceInv'
<1>1. CASE Moves(e, "refused")
  BY <1>1, MovesKeep DEF Moves, evidence, Ends
<1>2. CASE ~Moves(e, "refused")
  <2>1. PICK o \in Directories : o = StageDir(e)
    BY StageDirTyped DEF EvidenceInv
  <2>2. /\ pc[e] = "collect" /\ {"cases", "attestation"} \cap files[o] = {}
        /\ Completes(e, "cases") /\ Goto(e, "first") /\ UNCHANGED <<stage, context, plan, status>>
    BY <1>2, <2>1 DEF StartCollection, runVars
  <2>3. WritesInOrder(e) /\ FilesInOrder(o)
    BY DEF EvidenceInv, ExecutionFits, DirectoryFits
  <2>4. Writing(e) /\ "plan" \in files[o]
    BY <2>1, <2>2, <2>3 DEF Writing, WritingSteps, WritesInOrder
  <2>5. files'[o] = files[o] \cup {"cases"} /\ e \in writers'[o] /\ pc'[e] = "first"
    BY <2>1, <2>2, <2>4, OwnStep DEF Files, Steps
  <2>6. StageDir(e)' = o
    BY <2>1, <2>2, StageDirKept
  <2>7. FilesInOrder(o)'
    BY <2>2, <2>3, <2>4, <2>5 DEF FilesInOrder
  <2>8. WritesInOrder(e)'
    BY <2>1, <2>2, <2>3, <2>4, <2>5, <2>6 DEF WritesInOrder, Writing
  <2> QED
    BY <2>1, <2>2, <2>4, <2>7, <2>8, NextFileKeeps DEF Files, Steps
<1> QED
  BY <1>1, <1>2

LEMMA BindSmokeKeeps ==
  ASSUME ChainConstants, EvidenceInv, ChainTyped', NEW e \in Drivers, BindSmoke(e)
  PROVE  EvidenceInv'
<1>1. CASE Moves(e, "refused")
  BY <1>1, MovesKeep DEF Moves, evidence, Ends
<1>2. CASE ~Moves(e, "refused")
  <2>1. PICK o \in Directories : o = StageDir(e)
    BY StageDirTyped DEF EvidenceInv
  <2>2. PICK s \in Directories, c \in Sources : s = SmokeDir[e] /\ c = context[e]
    BY DEF ChainConstants, EvidenceInv, ChainTyped, TypeOK
  <2>3. PICK step \in {"pilot", "plan"} :
          step = IF stage[e] = "development" THEN "pilot" ELSE "plan"
    OBVIOUS
  <2>4. /\ pc[e] = "smoke" /\ Qualifies(s, "smoke") /\ Completes(e, "qualification")
        /\ plan' = [plan EXCEPT ![o].smoke = s]
        /\ Goto(e, step) /\ UNCHANGED <<stage, context, status>>
    BY <1>2, <2>1, <2>2, <2>3 DEF BindSmoke, runVars
  <2>5. ExecutionFits(e) /\ FilesInOrder(o) /\ FilesInOrder(s)
    BY DEF EvidenceInv, DirectoryFits
  <2>6. Writing(e) /\ "plan" \notin files[o]
    BY <2>1, <2>4, <2>5 DEF Writing, WritingSteps, WritesInOrder, ExecutionFits
  <2>7. plan'[o].smoke = s /\ \A d \in Directories : d # o => plan'[d] = plan[d]
    BY <2>4, SmokeBound DEF EvidenceInv, ChainTyped
  <2>8. /\ EvidenceStays /\ ChangesOnly(e, o)
        /\ files'[o] = files[o] \cup {"qualification"} /\ e \in writers'[o] /\ pc'[e] = step
    BY <2>1, <2>4, <2>6, <2>7, OwnStep DEF Files, Steps
  <2>9. StageDir(e)' = o
    BY <2>1, <2>4, StageDirKept
  <2>10. FilesInOrder(o)' /\ PlanIsSound(o)'
    BY <2>5, <2>6, <2>8 DEF FilesInOrder, PlanIsSound
  <2>11. WritesInOrder(e)'
    BY <2>6, <2>8, <2>9 DEF WritesInOrder, Writing
  <2>12. ReadsItsContext(e)'
    BY <2>4, <2>6, <2>8, ReadsKept DEF WritingSteps
  <2>13. stage[e] # "smoke" /\ SmokeOf(s, c)
    <3>1. stage[e] \in {"pilot", "development"}
      BY <2>4, <2>5 DEF ExecutionFits, BindsEvidence, EvidenceInv, ChainTyped, TypeOK, Stages
    <3>2. CASE stage[e] = "pilot"
      BY <2>2, <2>5, <3>2 DEF ExecutionFits, ReadsItsContext
    <3>3. CASE stage[e] = "development"
      <4>1. plan[s].context = c
        BY <2>2, <2>5, <2>6, <3>3 DEF ExecutionFits, ReadsItsContext
      <4> QED
        BY <2>4, <3>3, <4>1 DEF SmokeOf, Qualifies, Finished
    <3> QED
      BY <3>1, <3>2, <3>3
  <2>14. SmokeOf(s, c)'
    BY <2>5, <2>8, <2>13, SmokeStays
  <2>15. BindsEvidence(e)'
    BY <2>2, <2>3, <2>4, <2>7, <2>8, <2>9, <2>13, <2>14 DEF BindsEvidence
  <2> QED
    BY <2>8, <2>10, <2>11, <2>12, <2>15, StepKeeps DEF ExecutionFits
<1> QED
  BY <1>1, <1>2

LEMMA BindPilotKeeps ==
  ASSUME ChainConstants, EvidenceInv, ChainTyped', NEW e \in Drivers, BindPilot(e)
  PROVE  EvidenceInv'
<1>1. CASE Moves(e, "refused")
  BY <1>1, MovesKeep DEF Moves, evidence, Ends
<1>2. CASE ~Moves(e, "refused")
  <2>1. PICK o \in Directories : o = StageDir(e)
    BY StageDirTyped DEF EvidenceInv
  <2>2. PICK s \in Directories, p \in Directories, c \in Sources :
          s = SmokeDir[e] /\ p = PilotDir[e] /\ c = context[e]
    BY DEF ChainConstants, EvidenceInv, ChainTyped, TypeOK
  <2>3. /\ pc[e] = "pilot" /\ Qualifies(p, "pilot") /\ plan[p].smoke = s /\ plan[p].context = c
        /\ plan' = [plan EXCEPT ![o].pilot = p]
        /\ Goto(e, "plan") /\ UNCHANGED <<stage, context, files, writers, status>>
    BY <1>2, <2>1, <2>2 DEF BindPilot, runVars
  <2>4. ExecutionFits(e) /\ FilesInOrder(o) /\ FilesInOrder(s) /\ FilesInOrder(p)
    BY DEF EvidenceInv, DirectoryFits
  <2>5. Writing(e) /\ "plan" \notin files[o] /\ e \in writers[o]
    BY <2>1, <2>3, <2>4 DEF Writing, WritingSteps, WritesInOrder, ExecutionFits
  <2>6. /\ plan'[o].pilot = p /\ plan'[o].smoke = plan[o].smoke
        /\ \A d \in Directories : d # o => plan'[d] = plan[d]
    BY <2>3, PilotBound DEF EvidenceInv, ChainTyped
  <2>7. pc'[e] = "plan" /\ \A f \in Drivers : f # e => pc'[f] = pc[f]
    BY <2>3, Goes DEF EvidenceInv, ChainTyped, Steps
  <2>8. EvidenceStays
    BY <2>3, <2>5, <2>6 DEF EvidenceStays
  <2>9. ChangesOnly(e, o)
    <3>1. "inputs" \in files[o]
      BY <2>5 DEF EvidenceInv, DirectoryFits, DirectoryIsOwned
    <3>2. writers'[o] = writers[o] \cup {e}
      BY <2>3, <2>5
    <3>3. \A d \in Directories : d # o \/ e \notin writers'[d] => d # o
      BY <2>3, <2>5
    <3> QED
      BY <2>3, <2>5, <2>6, <2>7, <3>1, <3>2, <3>3 DEF ChangesOnly
  <2>10. StageDir(e)' = o
    BY <2>1, <2>3, StageDirKept
  <2>11. FilesInOrder(o)' /\ PlanIsSound(o)'
    BY <2>3, <2>4, <2>5 DEF FilesInOrder, PlanIsSound
  <2>12. WritesInOrder(e)'
    BY <2>3, <2>5, <2>7, <2>10 DEF WritesInOrder, Writing
  <2>13. ReadsItsContext(e)'
    BY <2>3, <2>5, <2>7, <2>8, ReadsKept DEF WritingSteps
  <2>14. plan[o].smoke = s /\ SmokeOf(s, c)
    BY <2>1, <2>2, <2>3, <2>4 DEF ExecutionFits, BindsEvidence
  <2>15. PilotOf(p, c, s)
    BY <2>3 DEF PilotOf, Qualifies, Finished
  <2>16. SmokeOf(s, c)' /\ PilotOf(p, c, s)'
    BY <2>4, <2>8, <2>14, <2>15, SmokeStays, PilotStays
  <2>17. BindsEvidence(e)'
    BY <2>2, <2>3, <2>6, <2>7, <2>10, <2>14, <2>16 DEF BindsEvidence
  <2> QED
    BY <2>8, <2>9, <2>11, <2>12, <2>13, <2>17, StepKeeps DEF ExecutionFits
<1> QED
  BY <1>1, <1>2

LEMMA WritePlanKeeps ==
  ASSUME ChainConstants, EvidenceInv, ChainTyped', NEW e \in Drivers, WritePlan(e)
  PROVE  EvidenceInv'
<1>1. PICK o \in Directories : o = StageDir(e)
  BY StageDirTyped DEF EvidenceInv
<1>2. PICK s \in Directories, p \in Directories, c \in Sources, g \in Stages :
        s = SmokeDir[e] /\ p = PilotDir[e] /\ c = context[e] /\ g = stage[e]
  BY DEF ChainConstants, EvidenceInv, ChainTyped, TypeOK
<1>3. /\ pc[e] = "plan" /\ Goto(e, "schema") /\ Completes(e, "plan")
      /\ UNCHANGED <<stage, context, status>>
  BY DEF WritePlan, runVars
<1>4. ExecutionFits(e) /\ FilesInOrder(o) /\ \A d \in Directories : FilesInOrder(d)
  BY DEF EvidenceInv, DirectoryFits
<1>5. Writing(e) /\ "plan" \notin files[o]
  BY <1>1, <1>3, <1>4 DEF Writing, WritingSteps, WritesInOrder, ExecutionFits
<1>6. /\ plan'[o].stage = g /\ plan'[o].context = c
      /\ plan'[o].smoke = plan[o].smoke /\ plan'[o].pilot = plan[o].pilot
      /\ \A d \in Directories : d # o => plan'[d] = plan[d]
  BY <1>1, <1>2, PlanWritten DEF EvidenceInv, ChainTyped
<1>7. /\ EvidenceStays /\ ChangesOnly(e, o)
      /\ files'[o] = files[o] \cup {"plan"} /\ e \in writers'[o] /\ pc'[e] = "schema"
  <2>1. \A d \in Directories : d # o => plan'[d] = plan[d] /\ status'[d] = status[d]
    BY <1>3, <1>6
  <2>2. \A f \in Drivers : f # e => stage'[f] = stage[f] /\ context'[f] = context[f]
    BY <1>3
  <2> QED
    BY <1>1, <1>3, <1>5, <2>1, <2>2, OwnStep DEF Files, Steps
<1>8. StageDir(e)' = o
  BY <1>1, <1>3, StageDirKept
<1>9. FilesInOrder(o)'
  BY <1>4, <1>5, <1>7 DEF FilesInOrder
<1>10. PlanIsSound(o)'
  <2>1. g # "smoke" => plan'[o].smoke = s /\ SmokeOf(s, c)'
    <3>1. g # "smoke" => plan[o].smoke = s /\ SmokeOf(s, c)
      BY <1>1, <1>2, <1>3, <1>4 DEF ExecutionFits, BindsEvidence
    <3> QED
      BY <1>4, <1>6, <1>7, <3>1, SmokeStays
  <2>2. g = "development" => plan'[o].pilot = p /\ PilotOf(p, c, s)'
    <3>1. g = "development" => plan[o].pilot = p /\ PilotOf(p, c, s)
      BY <1>1, <1>2, <1>3, <1>4 DEF ExecutionFits, BindsEvidence
    <3> QED
      BY <1>4, <1>6, <1>7, <3>1, PilotStays
  <2> QED
    BY <1>6, <2>1, <2>2 DEF PlanIsSound
<1>11. WritesInOrder(e)'
  BY <1>2, <1>3, <1>5, <1>6, <1>7, <1>8 DEF WritesInOrder, Writing
<1>12. ReadsItsContext(e)'
  BY <1>3, <1>5, <1>7, ReadsKept DEF WritingSteps
<1>13. BindsEvidence(e)'
  BY <1>7 DEF BindsEvidence
<1> QED
  BY <1>7, <1>9, <1>10, <1>11, <1>12, <1>13, StepKeeps DEF ExecutionFits

LEMMA WriteManifestKeeps ==
  ASSUME ChainConstants, EvidenceInv, ChainTyped', NEW e \in Drivers, WriteManifest(e)
  PROVE  EvidenceInv'
<1>1. PICK o \in Directories : o = StageDir(e)
  BY StageDirTyped DEF EvidenceInv
<1>2. pc[e] = "manifest" /\ Completes(e, "manifest") /\ UNCHANGED <<context, plan, status>>
  BY DEF WriteManifest
<1>3. ExecutionFits(e) /\ FilesInOrder(o)
  BY DEF EvidenceInv, DirectoryFits
<1>4. Writing(e) /\ {"plan", "quality"} \subseteq files[o]
  BY <1>1, <1>2, <1>3 DEF Writing, WritingSteps, WritesInOrder, ExecutionFits
<1>5. CASE stage' = stage
  <2>1. PICK step \in {"qualified", "stopped"} : Goto(e, step)
    BY <1>5, <1>2 DEF WriteManifest, EvidenceInv, ChainTyped, TypeOK
  <2>2. files'[o] = files[o] \cup {"manifest"} /\ pc'[e] = step
    BY <1>1, <1>2, <1>4, <1>5, <2>1, OwnStep DEF Files, Ends
  <2>3. FilesInOrder(o)'
    BY <1>3, <1>4, <2>2 DEF FilesInOrder
  <2>4. WritesInOrder(e)'
    BY <2>2 DEF WritesInOrder, Writing, WritingSteps
  <2> QED
    BY <1>1, <1>2, <1>4, <1>5, <2>1, <2>3, <2>4, NextFileKeeps DEF Files, Ends
<1>6. CASE stage' # stage
  <2>1. /\ stage[e] = "smoke" /\ status[o] = "qualified" /\ stage' = [stage EXCEPT ![e] = "pilot"]
        /\ Goto(e, "inputs")
    BY <1>1, <1>6 DEF WriteManifest
  <2>2. stage'[e] = "pilot" /\ \A f \in Drivers : f # e => stage'[f] = stage[f]
    BY <2>1 DEF EvidenceInv, ChainTyped, TypeOK
  <2>3. /\ EvidenceStays /\ ChangesOnly(e, o)
        /\ files'[o] = files[o] \cup {"manifest"} /\ e \in writers'[o] /\ pc'[e] = "inputs"
    BY <1>1, <1>2, <1>4, <2>1, <2>2, OwnStep DEF Files, Steps
  <2>4. FilesInOrder(o)'
    BY <1>3, <1>4, <2>3 DEF FilesInOrder
  <2>5. WritesInOrder(e)' /\ BindsEvidence(e)'
    BY <2>3 DEF WritesInOrder, BindsEvidence, Writing, WritingSteps
  <2>6. ReadsItsContext(e)'
    <3>1. o = SmokeDir[e] /\ plan[o].stage = "smoke" /\ plan[o].context = context[e]
      BY <1>1, <1>3, <1>4, <2>1 DEF StageDir, ExecutionFits, WritesInOrder
    <3>2. SmokeOf(SmokeDir[e], context[e])'
      BY <1>2, <2>1, <2>3, <3>1 DEF SmokeOf, Finished
    <3> QED
      BY <2>2, <2>3, <3>2 DEF ReadsItsContext
  <2> QED
    BY <1>4, <2>3, <2>4, <2>5, <2>6, StepKeeps DEF ExecutionFits
<1> QED
  BY <1>5, <1>6

(* The working tree and finished evidence change beside the executions. *)
LEMMA OutsideKeeps ==
  ASSUME EvidenceInv, ChainTyped', UNCHANGED <<pc, stage, context, files, writers, plan, status>>
  PROVE  EvidenceInv'
<1>1. ASSUME NEW d \in Directories PROVE DirectoryFits(d)'
  BY DEF EvidenceInv, DirectoryFits, DirectoryIsOwned, FilesInOrder, PlanIsSound, SmokeOf,
         PilotOf, Finished
<1>2. ASSUME NEW e \in Drivers PROVE ExecutionFits(e)'
  <2>1. ExecutionFits(e) /\ StageDir(e)' = StageDir(e)
    BY StageDirKept DEF EvidenceInv
  <2>2. WritesInOrder(e)'
    BY <2>1 DEF ExecutionFits, WritesInOrder, Writing
  <2>3. ReadsItsContext(e)'
    BY <2>1 DEF ExecutionFits, ReadsItsContext, Writing, SmokeOf, Finished
  <2>4. BindsEvidence(e)'
    BY <2>1 DEF ExecutionFits, BindsEvidence, SmokeOf, PilotOf, Finished
  <2> QED
    BY <2>2, <2>3, <2>4 DEF ExecutionFits
<1> QED
  BY <1>1, <1>2 DEF EvidenceInv

LEMMA EvidenceStep ==
  ASSUME ChainConstants, EvidenceInv, [Next]_vars
  PROVE  EvidenceInv'
<1>1. ChainTyped'
  BY StepTyped DEF EvidenceInv
<1>2. CASE UNCHANGED vars
  BY <1>1, <1>2, OutsideKeeps DEF vars, runVars, evidence
<1>3. ASSUME NEW e \in Drivers, Step(e) PROVE EvidenceInv'
  BY <1>1, <1>3, StartKeeps, BuildKeeps, HashContextKeeps, RequireSameBuildKeeps,
     CreateInputsKeeps, BindSmokeKeeps, BindPilotKeeps, WritePlanKeeps, StartCollectionKeeps,
     CaptureKeeps, LaterFilesKeep, WriteManifestKeeps DEF Step
<1>4. ASSUME NEW e \in Drivers, Fails(e) PROVE EvidenceInv'
  BY <1>1, <1>4, MovesKeep DEF Fails, evidence, Ends
<1>5. CASE Edit \/ \E d \in Directories : Damage(d)
  BY <1>1, <1>5, OutsideKeeps DEF Edit, Damage, runVars, evidence
<1> QED
  BY <1>2, <1>3, <1>4, <1>5 DEF Next

LEMMA EvidenceInit ==
  ASSUME ChainConstants, Init
  PROVE  EvidenceInv
<1>1. ChainTyped
  BY InitTyped
<1>2. ASSUME NEW d \in Directories PROVE DirectoryFits(d)
  BY DEF Init, DirectoryFits, DirectoryIsOwned, FilesInOrder, PlanIsSound
<1>3. ASSUME NEW e \in Drivers PROVE ExecutionFits(e)
  BY DEF Init, ExecutionFits, WritesInOrder, ReadsItsContext, BindsEvidence, Writing,
         WritingSteps
<1> QED
  BY <1>1, <1>2, <1>3 DEF EvidenceInv

LEMMA EvidenceInvariant ==
  ASSUME ChainConstants
  PROVE  Spec => []EvidenceInv
<1>1. Init => EvidenceInv
  BY EvidenceInit
<1>2. EvidenceInv /\ [Next]_vars => EvidenceInv'
  BY EvidenceStep
<1> QED
  BY <1>1, <1>2, PTL DEF Spec

-----------------------------------------------------------------------------
(* Theorems *)

(* In every chain the state has its type. *)
THEOREM ChainTypeCorrect ==
  ASSUME ChainConstants
  PROVE  Spec => []TypeOK
<1>1. EvidenceInv => TypeOK
  BY DEF EvidenceInv, ChainTyped
<1> QED
  BY <1>1, EvidenceInvariant, PTL

(* A directory has one writer, of executions that overlap too: mkdir succeeds *)
(* for one of them, and only that one goes on to write.                      *)
THEOREM ChainHasOneWriter ==
  ASSUME ChainConstants
  PROVE  Spec => []OneWriter
<1>1. EvidenceInv => OneWriter
  BY DEF EvidenceInv, DirectoryFits, DirectoryIsOwned, OneWriter
<1> QED
  BY <1>1, EvidenceInvariant, PTL

(* A stage captures only on finished, qualified evidence of its own build     *)
(* context, and a development on a pilot that is bound to the very smoke: the *)
(* files of a directory are written once and in order, so what was read stays *)
(* true until the plan binds it and ever after.                              *)
THEOREM StagesCaptureOnEvidence ==
  ASSUME ChainConstants
  PROVE  Spec => []ChainIsSound
<1>1. EvidenceInv => ChainIsSound
  BY DEF EvidenceInv, DirectoryFits, FilesInOrder, PlanIsSound, SmokeOf, PilotOf, ChainIsSound
<1> QED
  BY <1>1, EvidenceInvariant, PTL

-----------------------------------------------------------------------------
(* Executions one after the other *)

(* No two executions are under way. *)
OneRuns == \A e, f \in Drivers : Running(e) /\ Running(f) => e = f

(* The tag still names the image an execution inspected, and the twins it    *)
(* has started ran it.                                                       *)
RunsItsImage(e) ==
  LET D == StageDir(e) IN
  /\ Running(e) /\ pc[e] \notin {"build", "inspect"} => image[e] = tagged
  /\ pc[e] = "second" => ran[D]["first"] = tagged
  /\ pc[e] = "attest" => ran[D]["first"] = tagged /\ ran[D]["second"] = tagged

AttestationHolds(d) ==
  "attestation" \in files[d] => ran[d]["first"] = attested[d] /\ ran[d]["second"] = attested[d]

ImageInv ==
  /\ OneRuns
  /\ \A e \in Drivers : RunsItsImage(e)
  /\ \A d \in Directories : AttestationHolds(d)

(* What a step of e leaves of the twins and attestations of others, and of   *)
(* the other executions.                                                    *)
LEMMA OneRunsStep ==
  ASSUME ~Overlap, TypeOK, OneRuns, NEW e \in Drivers, Step(e) \/ Fails(e)
  PROVE  /\ OneRuns'
         /\ \A f \in Drivers : f # e => ~Running(f) /\ pc'[f] = pc[f]
         /\ Start(e) \/ Running(e)
<1>1. PICK step \in Steps \cup Ends : Goto(e, step)
  BY DEF Step, Fails, Start, Build, Inspect, HashContext, RequireSameBuild, CreateInputs,
         BindSmoke, BindPilot, WritePlan, WriteSchema, StartCollection, Capture, Attest, Assess,
         WriteReport, WriteManifest, Moves, Steps, Ends
<1>2. pc'[e] = step /\ \A f \in Drivers : f # e => pc'[f] = pc[f]
  BY <1>1, Goes
<1>3. Start(e) \/ Running(e)
  BY DEF Step, Fails, Build, Inspect, HashContext, RequireSameBuild, CreateInputs,
         BindSmoke, BindPilot, WritePlan, WriteSchema, StartCollection, Capture, Attest, Assess,
         WriteReport, WriteManifest, Running, Ends
<1>4. \A f \in Drivers : f # e => ~Running(f)
  BY <1>3 DEF Start, OneRuns
<1>5. OneRuns'
  BY <1>2, <1>4 DEF OneRuns, Running
<1> QED
  BY <1>2, <1>3, <1>4, <1>5

LEMMA IdleRunsNothing ==
  ASSUME NEW f, ~Running(f), pc'[f] = pc[f]
  PROVE  RunsItsImage(f)'
BY DEF RunsItsImage, Running, Ends

(* A step that neither runs a twin nor attests, and leaves the tag or is     *)
(* before the inspection.                                                   *)
LEMMA ImageKept ==
  ASSUME ~Overlap, TypeOK, ImageInv, NEW e \in Drivers, Step(e) \/ Fails(e),
         UNCHANGED <<ran, attested>>,
         \A d \in Directories : "attestation" \in files'[d] => "attestation" \in files[d],
         RunsItsImage(e)'
  PROVE  ImageInv'
<1>1. OneRuns' /\ \A f \in Drivers : f # e => RunsItsImage(f)'
  BY OneRunsStep, IdleRunsNothing DEF ImageInv
<1>2. \A d \in Directories : AttestationHolds(d)'
  BY DEF ImageInv, AttestationHolds
<1> QED
  BY <1>1, <1>2 DEF ImageInv

LEMMA ImageStepOne ==
  ASSUME ChainConstants, ~Overlap, EvidenceInv, ImageInv, NEW e \in Drivers, Step(e) \/ Fails(e)
  PROVE  ImageInv'
<1> USE DEF Steps, Ends
<1>1. TypeOK /\ RunsItsImage(e)
  BY DEF EvidenceInv, ChainTyped, ImageInv
<1>2. PICK o \in Directories : o = StageDir(e)
  BY StageDirTyped DEF EvidenceInv
<1>3. ASSUME NEW step \in Steps \cup Ends, Goto(e, step),
             UNCHANGED <<image, tagged, files, ran, attested>>,
             step \in {"build"} \cup Ends \/ (pc[e] = "same" /\ step = "inputs")
      PROVE  ImageInv'
  <2>1. pc'[e] = step
    BY <1>1, <1>3, Goes
  <2>2. RunsItsImage(e)'
    BY <1>1, <1>3, <2>1 DEF RunsItsImage, Running
  <2> QED
    BY <1>1, <1>3, <2>2, ImageKept
<1>4. CASE Fails(e)
  BY <1>3, <1>4 DEF Fails, runVars, hostVars, evidence
<1>5. CASE Start(e)
  <2>1. PICK step \in {"build", "refused"} : Moves(e, step)
    BY <1>5 DEF Start
  <2> QED
    BY <1>3, <2>1 DEF Moves, runVars, hostVars, evidence
<1>6. CASE RequireSameBuild(e)
  <2>1. PICK step \in {"inputs", "refused"} : Moves(e, step) /\ pc[e] = "same"
    BY <1>6 DEF RequireSameBuild
  <2> QED
    BY <1>3, <2>1 DEF Moves, runVars, hostVars, evidence
<1>7. CASE Build(e) \/ Inspect(e)
  <2>1. PICK step \in {"inspect", "hash"} : Goto(e, step)
    BY <1>7 DEF Build, Inspect
  <2>2. pc'[e] = step
    BY <1>1, <2>1, Goes
  <2>3. UNCHANGED <<files, ran, attested>>
    BY <1>7 DEF Build, Inspect, evidence
  <2>4. RunsItsImage(e)'
    <3>1. CASE Build(e)
      <4>1. step = "inspect"
        BY <1>1, <2>2, <3>1, Goes DEF Build
      <4> QED
        BY <2>2, <4>1 DEF RunsItsImage
    <3>2. CASE Inspect(e)
      <4>1. image'[e] = tagged /\ tagged' = tagged
        BY <1>1, <3>2 DEF Inspect, TypeOK, hostVars
      <4> QED
        BY <2>2, <4>1 DEF RunsItsImage
    <3> QED
      BY <1>7, <3>1, <3>2
  <2> QED
    BY <1>1, <2>3, <2>4, ImageKept
<1>8. CASE HashContext(e)
  <2>1. PICK step \in {"inputs", "same"} : Goto(e, step)
    BY <1>8 DEF HashContext
  <2>2. pc'[e] = step /\ pc[e] = "hash" /\ UNCHANGED <<image, tagged, files, ran, attested>>
    BY <1>1, <1>8, <2>1, Goes DEF HashContext, hostVars, evidence
  <2>3. RunsItsImage(e)'
    BY <1>1, <2>2 DEF RunsItsImage, Running
  <2> QED
    BY <1>1, <2>2, <2>3, ImageKept
<1>9. ASSUME NEW file \in Files, Completes(e, file), file # "attestation",
             NEW step \in Steps \cup Ends, Goto(e, step), step \notin {"second", "attest"},
             pc[e] \notin {"idle", "build", "inspect"}, Running(e),
             UNCHANGED <<image, tagged, ran, attested>>
      PROVE  ImageInv'
  <2>1. pc'[e] = step
    BY <1>1, <1>9, Goes
  <2>2. \A d \in Directories : "attestation" \in files'[d] => "attestation" \in files[d]
    <3>1. files'[o] = files[o] \cup {file} /\ \A d \in Directories : d # o => files'[d] = files[d]
      BY <1>2, <1>9, FileCompleted DEF EvidenceInv
    <3> QED
      BY <1>9, <3>1
  <2>3. RunsItsImage(e)'
    BY <1>1, <1>9, <2>1 DEF RunsItsImage, Running
  <2> QED
    BY <1>1, <1>9, <2>2, <2>3, ImageKept
<1>10. CASE CreateInputs(e) \/ StartCollection(e) \/ BindSmoke(e)
  <2>1. CASE Moves(e, "refused")
    BY <1>3, <2>1 DEF Moves, runVars, hostVars, evidence
  <2>2. CASE ~Moves(e, "refused")
    <3>1. PICK file \in {"inputs", "cases", "qualification"},
               step \in {"smoke", "plan", "first", "pilot"} :
            /\ Completes(e, file) /\ Goto(e, step)
            /\ pc[e] \in {"inputs", "collect", "smoke"}
            /\ UNCHANGED <<image, tagged, ran, attested>>
      BY <1>10, <2>2 DEF CreateInputs, StartCollection, BindSmoke, runVars, hostVars
    <3>2. Running(e)
      BY <3>1 DEF Running
    <3> QED
      BY <1>9, <3>1, <3>2 DEF Files
  <2> QED
    BY <2>1, <2>2
<1>11. CASE WritePlan(e) \/ WriteSchema(e) \/ Assess(e) \/ WriteReport(e) \/ WriteManifest(e)
  <2>1. PICK file \in {"plan", "schema", "quality", "report", "manifest"},
             step \in {"schema", "collect", "report", "manifest", "inputs", "qualified",
                       "stopped"} :
          /\ Completes(e, file) /\ Goto(e, step)
          /\ pc[e] \in {"plan", "schema", "assess", "report", "manifest"}
          /\ UNCHANGED <<image, tagged, ran, attested>>
    BY <1>11 DEF WritePlan, WriteSchema, Assess, WriteReport, WriteManifest, runVars, hostVars
  <2>2. Running(e)
    BY <2>1 DEF Running
  <2> QED
    BY <1>9, <2>1, <2>2 DEF Files
<1>12. CASE BindPilot(e)
  <2>1. CASE Moves(e, "refused")
    BY <1>3, <2>1 DEF Moves, runVars, hostVars, evidence
  <2>2. CASE ~Moves(e, "refused")
    <3>1. /\ pc[e] = "pilot" /\ Goto(e, "plan")
          /\ UNCHANGED <<image, tagged, files, ran, attested>>
      BY <1>12, <2>2 DEF BindPilot, runVars, hostVars
    <3>2. pc'[e] = "plan"
      BY <1>1, <3>1, Goes
    <3>3. RunsItsImage(e)'
      BY <1>1, <3>1, <3>2 DEF RunsItsImage, Running
    <3> QED
      BY <1>1, <3>1, <3>3, ImageKept
  <2> QED
    BY <2>1, <2>2
<1>13. ASSUME NEW t \in {"first", "second"}, Capture(e, t) PROVE ImageInv'
  <2>1. /\ pc[e] = t /\ ran' = [ran EXCEPT ![o][t] = tagged]
        /\ UNCHANGED <<image, stage, tagged, files, attested>>
    BY <1>2, <1>13 DEF Capture, runVars, hostVars
  <2>2. /\ \A u \in {"first", "second"} : ran'[o][u] = IF u = t THEN tagged ELSE ran[o][u]
        /\ \A d \in Directories : d # o => ran'[d] = ran[d]
    BY <1>1, <2>1, TwinRan
  <2>3. pc'[e] = IF t = "first" THEN "second" ELSE "attest"
    BY <1>1, <1>13, Goes DEF Capture
  <2>4. StageDir(e)' = o
    BY <1>2, <2>1, StageDirKept
  <2>5. RunsItsImage(e)'
    BY <1>1, <1>2, <2>1, <2>2, <2>3, <2>4 DEF RunsItsImage, Running
  <2>6. "attestation" \notin files[o]
    BY <1>2, <2>1 DEF EvidenceInv, ExecutionFits, WritesInOrder, Writing, WritingSteps
  <2>7. \A d \in Directories : AttestationHolds(d)'
    BY <2>1, <2>2, <2>6 DEF ImageInv, AttestationHolds
  <2>8. OneRuns' /\ \A f \in Drivers : f # e => RunsItsImage(f)'
    BY <1>1, OneRunsStep, IdleRunsNothing DEF ImageInv
  <2> QED
    BY <2>5, <2>7, <2>8 DEF ImageInv
<1>14. CASE Attest(e)
  <2>1. /\ pc[e] = "attest" /\ Goto(e, "assess") /\ Completes(e, "attestation")
        /\ attested' = [attested EXCEPT ![o] = image[e]] /\ UNCHANGED <<image, tagged, ran>>
    BY <1>2, <1>14 DEF Attest, runVars, hostVars
  <2>2. /\ attested'[o] = image[e]
        /\ \A d \in Directories : d # o => attested'[d] = attested[d] /\ files'[d] = files[d]
    BY <1>1, <1>2, <2>1, FileCompleted DEF TypeOK, EvidenceInv, Files
  <2>3. image[e] = tagged /\ ran[o]["first"] = tagged /\ ran[o]["second"] = tagged
    BY <1>1, <1>2, <2>1 DEF RunsItsImage, Running
  <2>4. \A d \in Directories : AttestationHolds(d)'
    BY <2>1, <2>2, <2>3 DEF ImageInv, AttestationHolds
  <2>5. pc'[e] = "assess"
    BY <1>1, <2>1, Goes
  <2>6. RunsItsImage(e)'
    BY <2>1, <2>3, <2>5 DEF RunsItsImage
  <2>7. OneRuns' /\ \A f \in Drivers : f # e => RunsItsImage(f)'
    BY <1>1, OneRunsStep, IdleRunsNothing DEF ImageInv
  <2> QED
    BY <2>4, <2>6, <2>7 DEF ImageInv
<1> QED
  BY <1>4, <1>5, <1>6, <1>7, <1>8, <1>10, <1>11, <1>12, <1>13, <1>14 DEF Step

LEMMA ImageStep ==
  ASSUME ChainConstants, ~Overlap, EvidenceInv, ImageInv, [Next]_vars
  PROVE  ImageInv'
<1>1. CASE UNCHANGED <<pc, stage, image, tagged, files, ran, attested>>
  <2>1. \A e \in Drivers : RunsItsImage(e)'
    BY <1>1 DEF ImageInv, RunsItsImage, Running, StageDir
  <2>2. OneRuns' /\ \A d \in Directories : AttestationHolds(d)'
    BY <1>1 DEF ImageInv, OneRuns, Running, AttestationHolds
  <2> QED
    BY <2>1, <2>2 DEF ImageInv
<1>2. CASE UNCHANGED vars \/ Edit \/ \E d \in Directories : Damage(d)
  BY <1>1, <1>2 DEF vars, Edit, Damage, runVars, hostVars, evidence
<1> QED
  BY <1>2, ImageStepOne DEF Next

(* Of executions one after the other, both twins of every collection run the *)
(* image that its attestation names: the tag is moved only by a build, and   *)
(* no other execution is then between its inspection and its attestation.    *)
THEOREM AttestedImagesRun ==
  ASSUME ChainConstants, ~Overlap
  PROVE  Spec => []AttestedImageRuns
<1>1. Init => ImageInv
  BY DEF Init, ImageInv, OneRuns, RunsItsImage, AttestationHolds, Running
<1>2. EvidenceInv /\ ImageInv /\ [Next]_vars => ImageInv'
  BY ImageStep
<1>3. EvidenceInv /\ ImageInv => AttestedImageRuns
  BY DEF EvidenceInv, ChainTyped, TypeOK, ImageInv, AttestationHolds, AttestedImageRuns
<1> QED
  BY <1>1, <1>2, <1>3, EvidenceInvariant, PTL DEF Spec
=============================================================================
