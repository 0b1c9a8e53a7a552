----------------------------- MODULE CampaignProofs -----------------------------
(***************************************************************************)
(* Theorems about the two kinds of campaigns, a sealed confirmation and a  *)
(* selection by frozen models: for any number of commands, any number of   *)
(* them at once, and any changes of the repository, of what git ignores    *)
(* and of the captures.                                                    *)
(***************************************************************************)
EXTENDS SealedCampaign, FiniteSetTheorems, TLAPS

(* What is assumed of the constants: the operator starts finitely many       *)
(* commands, and the bounds are numbers.                                    *)
CampaignBounds ==
  /\ Commands \in SUBSET Nat /\ IsFiniteSet(Commands) /\ MaxAlive \in Nat
  /\ MaxEdits \in Nat /\ MaxSwaps \in Nat /\ MaxDamage \in Nat /\ MaxFaults \in Nat

-----------------------------------------------------------------------------
(* Sealed confirmations: types *)

Executions == [duty : Duties, step : Steps, contract : Contracts, commit : Commits,
               evidence : Versions, model : Models]

LEMMA RestsTyped ==
  ASSUME CampaignBounds, NEW where \in Steps
  PROVE  Rests(where) \in Executions /\ Rests(where).step = where
BY DEF CampaignBounds, Rests, Executions, Duties, Contracts, Commits, Versions, Models

LEMMA InitTyped ==
  ASSUME CampaignBounds, Init
  PROVE  TypeOK
<1>1. run \in [Commands -> Executions]
  BY RestsTyped DEF Init, Steps
<1> QED
  BY <1>1 DEF Init, TypeOK, Executions, CampaignBounds, Commits, Trees, Models, Contracts,
              Versions

(* The execution e does a step of its own: the others stay where they are, and *)
(* it is where the step leads, with what it knows then, or it has ended.       *)
LEMMA Goes ==
  ASSUME CampaignBounds, TypeOK, NEW e \in Commands, NEW next \in Steps,
         NEW knows \in Executions, Goto(e, next, knows)
  PROVE  /\ run' \in [Commands -> Executions]
         /\ \A f \in Commands : f # e => run'[f] = run[f]
         /\ run'[e].step = next
         /\ next # "ended" => run'[e] = [knows EXCEPT !.step = next]
<1>1. PICK r : r = IF next = "ended" THEN Rests("ended") ELSE [knows EXCEPT !.step = next]
  OBVIOUS
<1>2. r \in Executions /\ r.step = next
  BY <1>1, RestsTyped DEF Executions
<1>3. run' = [run EXCEPT ![e] = r]
  BY <1>1 DEF Goto
<1>4. run \in [Commands -> Executions]
  BY DEF TypeOK, Executions
<1> QED
  BY <1>1, <1>2, <1>3, <1>4

LEMMA Known ==
  ASSUME TypeOK, NEW e \in Commands
  PROVE  run[e] \in Executions
BY DEF TypeOK, Executions

(* A step that only reads. *)
LEMMA LearnsTyped ==
  ASSUME CampaignBounds, TypeOK, NEW e \in Commands, NEW knows \in Executions,
         NEW condition \in BOOLEAN, NEW next \in Steps, Learns(e, knows, condition, next)
  PROVE  TypeOK'
<1>1. PICK to : to = IF condition THEN next ELSE "ended"
  OBVIOUS
<1>2. to \in Steps /\ Goto(e, to, knows)
  BY <1>1 DEF Steps, Learns
<1>3. run' \in [Commands -> Executions]
  BY <1>2, Goes
<1> QED
  BY <1>3 DEF Learns, TypeOK, Executions, repository, directory, scoring, captured,
              qualification

LEMMA MakesTyped ==
  ASSUME CampaignBounds, TypeOK, NEW e \in Commands, NEW name \in MadeOnce,
         NEW possible \in BOOLEAN, NEW next \in Steps, Makes(e, name, possible, next)
  PROVE  TypeOK'
<1>1. PICK to : to = IF possible /\ name \notin kept THEN next ELSE "ended"
  OBVIOUS
<1>2. to \in Steps /\ Goto(e, to, run[e])
  BY <1>1 DEF Steps, Makes
<1>3. run' \in [Commands -> Executions]
  BY <1>2, Goes, Known
<1>4. kept \subseteq kept' /\ kept' \subseteq Files
  BY DEF Makes, TypeOK, Files
<1> QED
  BY <1>3, <1>4 DEF Makes, TypeOK, Executions, repository, scoring, captured, qualification

(* What a step that writes leaves of the types. *)
LEMMA WritesTyped ==
  ASSUME CampaignBounds, TypeOK, NEW e \in Commands, NEW name \in WrittenOnce \cup Targets,
         NEW next \in Steps, Writes(e, name, next)
  PROVE  /\ run' \in [Commands -> Executions]
         /\ kept' \subseteq Files /\ torn' \subseteq kept' \ MadeOnce
<1>1. run' \in [Commands -> Executions]
  BY Goes, Known DEF Writes
<1>2. kept' \subseteq Files /\ torn' \subseteq kept' \ MadeOnce
  BY DEF Writes, TypeOK, Files, WrittenOnce, Targets, MadeOnce
<1> QED
  BY <1>1, <1>2

LEMMA StepTyped ==
  ASSUME CampaignBounds, TypeOK, [Next]_vars
  PROVE  TypeOK'
<1> USE DEF CampaignBounds
<1>1. SUFFICES ASSUME NEW e \in Commands, Command(e) \/ Fails(e)
               PROVE  TypeOK'
  <2>1. CASE ChangeTree
    BY <2>1 DEF TypeOK, ChangeTree, Calm, Commits, Trees, directory, qualification, scoring,
                captured
  <2>2. CASE SwapModel
    BY <2>2 DEF TypeOK, SwapModel, Calm, directory, qualification, scoring, captured
  <2>3. CASE DamageCaptures
    BY <2>3 DEF TypeOK, DamageCaptures, Versions, repository, directory, qualification, scoring
  <2>4. CASE UNCHANGED vars
    BY <2>4 DEF TypeOK, vars, repository, directory, qualification, scoring, captured
  <2> QED
    BY <1>1, <2>1, <2>2, <2>3, <2>4 DEF Next
<1> DEFINE E == run[e]
<1>2. E \in Executions
  BY Known
<1>3. CASE Start(e)
  <2>1. PICK command \in Duties :
          Goto(e, IF command \in {"prepare", "score"} THEN "preflight" ELSE "bind",
               [E EXCEPT !.duty = command])
    BY <1>3 DEF Start
  <2>2. [E EXCEPT !.duty = command] \in Executions
    BY <1>2 DEF Executions
  <2>3. run' \in [Commands -> Executions]
    BY <2>1, <2>2, Goes DEF Steps
  <2> QED
    BY <1>3, <2>3 DEF Start, TypeOK, Executions, repository, directory, qualification,
                      scoring, captured
<1>4. CASE Preflight(e)
  BY <1>2, <1>4, LearnsTyped DEF Preflight, Checks, Steps
<1>5. CASE ReadContract(e)
  <2>1. [E EXCEPT !.contract = Contract(tree)] \in Executions
    BY <1>2 DEF Executions, Contract, Contracts
  <2>2. Learns(e, [E EXCEPT !.contract = Contract(tree)], At(e, "absent") => kept = {}, "bind")
    BY <1>5 DEF ReadContract
  <2> QED
    BY <2>1, <2>2, LearnsTyped DEF Steps
<1>6. CASE Bind(e)
  <2>1. [E EXCEPT !.commit = head] \in Executions
    BY <1>2 DEF Executions, TypeOK
  <2>2. Learns(e, [E EXCEPT !.commit = head],
               E.duty = "prepare" \/ (Whole({"protocol"}) /\ protocol.commit = head), "clean")
    BY <1>6 DEF Bind
  <2> QED
    BY <2>1, <2>2, LearnsTyped DEF Steps
<1>7. CASE Clean(e)
  <2>1. AfterClean[E.duty] \in Steps
    BY <1>2 DEF Executions, Duties, AfterClean, Steps, Files, MadeOnce
  <2>2. Learns(e, E, tree = head /\ (E.duty = "score" => E.contract = protocol.contract),
               AfterClean[E.duty])
    BY <1>7 DEF Clean, Checks
  <2> QED
    BY <1>2, <2>1, <2>2, LearnsTyped
<1>8. CASE MakeInputs(e)
  BY <1>8, MakesTyped DEF MakeInputs, MadeOnce, Steps, Files, WrittenOnce
<1>9. CASE WriteProtocol(e)
  <2>1. /\ run' \in [Commands -> Executions]
        /\ kept' \subseteq Files /\ torn' \subseteq kept' \ MadeOnce
    BY <1>9, WritesTyped DEF WriteProtocol, WrittenOnce, Steps, Files
  <2>2. protocol' \in [contract : Contracts, commit : Commits]
    BY <1>2, <1>9 DEF WriteProtocol, Executions
  <2> QED
    BY <1>9, <2>1, <2>2 DEF WriteProtocol, Writes, TypeOK, Executions, repository,
                            qualification, scoring, captured
<1>10. CASE MakeCases(e)
  BY <1>10, MakesTyped DEF MakeCases, MadeOnce, Steps, Files, WrittenOnce
<1>11. CASE \E name \in DOMAIN AfterWrite : WriteFile(e, name)
  <2>1. PICK name \in DOMAIN AfterWrite : WriteFile(e, name)
    BY <1>11
  <2>2. name \in WrittenOnce \cup Targets /\ AfterWrite[name] \in Steps
    BY DEF AfterWrite, WrittenOnce, Targets, Steps, Files
  <2>3. /\ run' \in [Commands -> Executions]
        /\ kept' \subseteq Files /\ torn' \subseteq kept' \ MadeOnce
    BY <2>1, <2>2, WritesTyped DEF WriteFile
  <2> QED
    BY <2>1, <2>3 DEF WriteFile, Writes, TypeOK, Executions, repository, qualification,
                      scoring, captured
<1>12. CASE CheckTargets(e)
  BY <1>2, <1>12, LearnsTyped DEF CheckTargets, Checks, Steps
<1>13. CASE Assess(e)
  <2>1. [E EXCEPT !.evidence = evidence] \in Executions
    BY <1>2 DEF Executions, TypeOK
  <2>2. Learns(e, [E EXCEPT !.evidence = evidence], Whole({"plan", "attestation"}), "quality")
    BY <1>13 DEF Assess
  <2> QED
    BY <2>1, <2>2, LearnsTyped DEF Steps, Files, Targets, Whole
<1>14. CASE WriteQuality(e)
  <2>1. /\ run' \in [Commands -> Executions]
        /\ kept' \subseteq Files /\ torn' \subseteq kept' \ MadeOnce
    BY <1>14, WritesTyped DEF WriteQuality, Targets, Steps, Files
  <2>2. quality' \in Versions
    BY <1>2, <1>14 DEF WriteQuality, Executions
  <2> QED
    BY <1>14, <2>1, <2>2 DEF WriteQuality, Writes, TypeOK, Executions, repository,
                             scoring, captured
<1>15. CASE WriteManifest(e)
  <2>1. /\ run' \in [Commands -> Executions]
        /\ kept' \subseteq Files /\ torn' \subseteq kept' \ MadeOnce
    BY <1>15, WritesTyped DEF WriteManifest, Targets, Steps
  <2>2. recorded' \in [evidence : Versions, quality : Versions, files : SUBSET Files,
                       torn : SUBSET Files]
    BY <1>15 DEF WriteManifest, TypeOK
  <2> QED
    BY <1>15, <2>1, <2>2 DEF WriteManifest, Writes, TypeOK, Executions, repository,
                             scoring, captured
<1>16. CASE Load(e)
  <2>1. [E EXCEPT !.evidence = evidence] \in Executions
    BY <1>2 DEF Executions, TypeOK
  <2>2. Learns(e, [E EXCEPT !.evidence = evidence],
               Loadable /\ kept = recorded.files \cup {"manifest"}, "rollout")
    BY <1>16 DEF Load
  <2> QED
    BY <2>1, <2>2, LearnsTyped DEF Steps
<1>17. CASE Rollout(e)
  <2>1. [E EXCEPT !.model = weights] \in Executions
    BY <1>2 DEF Executions, TypeOK
  <2>2. Learns(e, [E EXCEPT !.model = weights], TRUE, "predictions")
    BY <1>17 DEF Rollout
  <2> QED
    BY <2>1, <2>2, LearnsTyped DEF Steps, Files, MadeOnce
<1>18. CASE MakePredictions(e)
  BY <1>18, MakesTyped DEF MakePredictions, MadeOnce, Steps, Files, WrittenOnce
<1>19. CASE WriteArrays(e)
  <2>1. /\ run' \in [Commands -> Executions]
        /\ kept' \subseteq Files /\ torn' \subseteq kept' \ MadeOnce
    BY <1>19, WritesTyped DEF WriteArrays, WrittenOnce, Steps, Files
  <2>2. predictions' \in [model : Models, evidence : Versions]
    BY <1>2, <1>19 DEF WriteArrays, Executions
  <2> QED
    BY <1>19, <2>1, <2>2 DEF WriteArrays, Writes, TypeOK, Executions, repository,
                             qualification, captured
<1>20. CASE WriteIdentities(e)
  <2>1. /\ run' \in [Commands -> Executions]
        /\ kept' \subseteq Files /\ torn' \subseteq kept' \ MadeOnce
    BY <1>20, WritesTyped DEF WriteIdentities, WrittenOnce, Steps
  <2>2. identities' \in [contract : Contracts, model : Models]
    BY <1>20 DEF WriteIdentities, TypeOK, Contract, Contracts
  <2> QED
    BY <1>20, <2>1, <2>2 DEF WriteIdentities, Writes, TypeOK, Executions, repository,
                             qualification, captured
<1>21. CASE Verify(e)
  <2>1. [E EXCEPT !.contract = Contract(tree)] \in Executions
    BY <1>2 DEF Executions, Contract, Contracts
  <2>2. Learns(e, [E EXCEPT !.contract = Contract(tree)], Identified(Contract(tree)),
               "reproduce")
    BY <1>21 DEF Verify
  <2>3. Identified(Contract(tree)) \in BOOLEAN
    BY DEF Identified
  <2> QED
    BY <2>1, <2>2, <2>3, LearnsTyped DEF Steps
<1>22. CASE Reproduce(e)
  BY <1>2, <1>22, LearnsTyped DEF Reproduce, Checks, Steps, Files, WrittenOnce
<1>23. CASE WriteAssessment(e)
  <2>1. /\ run' \in [Commands -> Executions]
        /\ kept' \subseteq Files /\ torn' \subseteq kept' \ MadeOnce
    BY <1>23, WritesTyped DEF WriteAssessment, WrittenOnce, Steps, Files
  <2>2. result' \in Contracts
    BY <1>2, <1>23 DEF WriteAssessment, Executions
  <2> QED
    BY <1>23, <2>1, <2>2 DEF WriteAssessment, Writes, TypeOK, Executions, repository,
                             qualification, captured
<1>24. CASE Fails(e)
  <2>1. run' \in [Commands -> Executions]
    BY <1>24, Goes, Known DEF Fails, Steps
  <2>2. kept' \subseteq Files /\ torn' \subseteq kept' \ MadeOnce
    BY <1>24 DEF Fails, TypeOK, directory, Files, WrittenOnce, Targets, MadeOnce
  <2> QED
    BY <1>24, <2>1, <2>2 DEF Fails, Calm, TypeOK, Executions, repository, qualification,
                             scoring, captured
<1> QED
  BY <1>1, <1>3, <1>4, <1>5, <1>6, <1>7, <1>8, <1>9, <1>10, <1>11, <1>12, <1>13, <1>14,
     <1>15, <1>16, <1>17, <1>18, <1>19, <1>20, <1>21, <1>22, <1>23, <1>24 DEF Command

-----------------------------------------------------------------------------
(* Sealed confirmations: one writer *)

(* A directory that must be absent when it is made, the steps of the execution *)
(* that has made it, and the files that it still has to write at each of them. *)
Phases == [inputs |-> {"protocol", "plan", "schema", "prepared"}, cases |-> {"attestation"},
           predictions |-> {"arrays", "identities", "verify", "reproduce", "assessment",
                            "retained"}]
Entered == [inputs |-> "protocol", cases |-> "attestation", predictions |-> "arrays"]
Due == [protocol    |-> {"protocol", "plan", "schema", "prepared"},
        plan        |-> {"plan", "schema", "prepared"},
        schema      |-> {"schema", "prepared"},
        prepared    |-> {"prepared"},
        attestation |-> {"attestation"},
        arrays      |-> {"arrays", "identities", "assessment", "retained"},
        identities  |-> {"identities", "assessment", "retained"},
        verify      |-> {"assessment", "retained"},
        reproduce   |-> {"assessment", "retained"},
        assessment  |-> {"assessment", "retained"},
        retained    |-> {"retained"}]
InPhase == UNION {Phases[m] : m \in MadeOnce}

(* The files of a phase exist only after its directory, and one execution at  *)
(* most is in the phase; what it has to write is not there.                  *)
HasOneWriter(m) ==
  /\ \A e \in Commands : run[e].step \in Phases[m] => m \in kept /\ Due[run[e].step] \cap kept = {}
  /\ \A e, d \in Commands : run[e].step \in Phases[m] /\ run[d].step \in Phases[m] => e = d
  /\ Phases[m] \cap kept # {} => m \in kept

OneWriter == \A m \in MadeOnce : HasOneWriter(m)

LEMMA PhaseFacts ==
  /\ \A m \in MadeOnce : Entered[m] \in Phases[m] /\ Due[Entered[m]] \subseteq Phases[m]
                         /\ MadeOnce \cap Phases[m] = {}
  /\ \A m, o \in MadeOnce : m # o => Phases[m] \cap Phases[o] = {}
  /\ \A m \in MadeOnce : \A s \in Phases[m] : Due[s] \subseteq Phases[m]
  /\ \A m \in MadeOnce : \A s \in Phases[m] \cap WrittenOnce : s \in Due[s]
  /\ InPhase = WrittenOnce \cup {"verify", "reproduce"}
<1>1. /\ Phases["inputs"] = {"protocol", "plan", "schema", "prepared"}
      /\ Phases["cases"] = {"attestation"}
      /\ Phases["predictions"] = {"arrays", "identities", "verify", "reproduce", "assessment",
                                  "retained"}
  BY DEF Phases
<1>2. InPhase = Phases["inputs"] \cup Phases["cases"] \cup Phases["predictions"]
  BY DEF InPhase, MadeOnce
<1>3. InPhase = WrittenOnce \cup {"verify", "reproduce"}
  BY <1>1, <1>2 DEF WrittenOnce
<1>4. \A m \in MadeOnce : m \in {"inputs", "cases", "predictions"}
  BY DEF MadeOnce
<1>5. \A m \in MadeOnce : Entered[m] \in Phases[m] /\ Due[Entered[m]] \subseteq Phases[m]
                          /\ MadeOnce \cap Phases[m] = {}
  BY <1>1, <1>4 DEF Entered, Due, MadeOnce
<1>6. \A m, o \in MadeOnce : m # o => Phases[m] \cap Phases[o] = {}
  BY <1>1, <1>4
<1>7. \A m \in MadeOnce : \A s \in Phases[m] : Due[s] \subseteq Phases[m]
  BY <1>1, <1>4 DEF Due
<1>8. \A m \in MadeOnce : \A s \in Phases[m] \cap WrittenOnce : s \in Due[s]
  BY <1>1, <1>4 DEF Due, WrittenOnce
<1> QED
  BY <1>3, <1>5, <1>6, <1>7, <1>8

(* A step inside a phase, or out of it, that writes what it has to. *)
LEMMA OnwardKeepsOneWriter ==
  ASSUME OneWriter, NEW e \in Commands, NEW s, s = run[e].step, NEW t, t = run'[e].step,
         \A f \in Commands : f # e => run'[f] = run[f],
         NEW written, written \in {{}, {s}}, kept' = kept \cup written, s \notin MadeOnce,
         \/ t \notin InPhase
         \/ \E m \in MadeOnce : /\ s \in Phases[m]
                                /\ t \in Phases[m]
                                /\ Due[t] \subseteq Due[s] \ written
  PROVE  OneWriter'
<1>1. SUFFICES ASSUME NEW m \in MadeOnce
               PROVE  HasOneWriter(m)'
  BY DEF OneWriter
<1>2. HasOneWriter(m)
  BY DEF OneWriter
<1>3. t \in Phases[m] => s \in Phases[m] /\ Due[t] \subseteq Due[s] \ written
  <2>1. t \in Phases[m] => t \in InPhase
    BY DEF InPhase
  <2> QED
    BY <2>1, PhaseFacts
<1>4. \A f \in Commands : run'[f].step \in Phases[m] => run[f].step \in Phases[m]
  BY <1>3
<1>5. \A f, d \in Commands : run'[f].step \in Phases[m] /\ run'[d].step \in Phases[m] => f = d
  BY <1>2, <1>4 DEF HasOneWriter
<1>6. ASSUME NEW f \in Commands, run'[f].step \in Phases[m]
      PROVE  m \in kept' /\ Due[run'[f].step] \cap kept' = {}
  <2>1. m \in kept /\ Due[run[f].step] \cap kept = {}
    BY <1>2, <1>4, <1>6 DEF HasOneWriter
  <2>2. CASE f = e
    BY <1>3, <1>6, <2>1, <2>2
  <2>3. CASE f # e
    <3>1. run'[f].step = run[f].step /\ run[f].step \in Phases[m] /\ s \notin Phases[m]
      BY <1>2, <1>6, <2>3 DEF HasOneWriter
    <3>2. Due[run[f].step] \subseteq Phases[m]
      BY <3>1, PhaseFacts
    <3> QED
      BY <2>1, <3>1, <3>2
  <2> QED
    BY <2>2, <2>3
<1>7. Phases[m] \cap kept' # {} => m \in kept'
  <2>1. CASE Phases[m] \cap kept # {}
    BY <1>2, <2>1 DEF HasOneWriter
  <2>2. CASE Phases[m] \cap kept = {} /\ Phases[m] \cap kept' # {}
    <3>1. s \in Phases[m]
      BY <2>2
    <3> QED
      BY <1>2, <3>1 DEF HasOneWriter
  <2> QED
    BY <2>1, <2>2
<1> QED
  BY <1>5, <1>6, <1>7 DEF HasOneWriter

(* A directory that is made begins its phase. *)
LEMMA EnteredKeepsOneWriter ==
  ASSUME OneWriter, NEW e \in Commands, run[e].step \in MadeOnce, NEW n \in MadeOnce,
         n \notin kept, kept' = kept \cup {n}, run'[e].step = Entered[n],
         \A f \in Commands : f # e => run'[f] = run[f]
  PROVE  OneWriter'
<1>1. SUFFICES ASSUME NEW m \in MadeOnce
               PROVE  HasOneWriter(m)'
  BY DEF OneWriter
<1>2. HasOneWriter(m)
  BY DEF OneWriter
<1>3. run[e].step \notin Phases[m]
  BY PhaseFacts
<1>4. n \notin Phases[m] /\ \A s \in Phases[m] : n \notin Due[s]
  BY PhaseFacts
<1>5. CASE m = n
  <2>1. /\ \A f \in Commands : run[f].step \notin Phases[m]
        /\ Phases[m] \cap kept = {}
    BY <1>2, <1>5 DEF HasOneWriter
  <2>2. \A f \in Commands : run'[f].step \in Phases[m] => f = e
    BY <2>1
  <2>3. Due[run'[e].step] \cap kept' = {} /\ m \in kept'
    <3>1. Due[run'[e].step] \subseteq Phases[m]
      BY <1>5, PhaseFacts
    <3> QED
      BY <1>4, <1>5, <2>1, <3>1
  <2> QED
    BY <2>2, <2>3 DEF HasOneWriter
<1>6. CASE m # n
  <2>1. run'[e].step \notin Phases[m]
    BY <1>6, PhaseFacts
  <2>2. \A f \in Commands : run'[f].step \in Phases[m] => run'[f] = run[f]
    BY <2>1
  <2> QED
    BY <1>2, <1>4, <2>2 DEF HasOneWriter
<1> QED
  BY <1>5, <1>6

LEMMA InitOneWriter ==
  ASSUME Init
  PROVE  OneWriter
<1>1. kept = {} /\ \A e \in Commands : run[e].step = "idle"
  BY DEF Init, Rests
<1>2. \A m \in MadeOnce : "idle" \notin Phases[m]
  BY DEF MadeOnce, Phases
<1> QED
  BY <1>1, <1>2 DEF OneWriter, HasOneWriter

(* A step out of every phase that writes nothing; a directory that was not    *)
(* made is one.                                                              *)
LEMMA LeavesKeepsOneWriter ==
  ASSUME OneWriter, NEW e \in Commands, run'[e].step \notin InPhase, kept' = kept,
         \A f \in Commands : f # e => run'[f] = run[f]
  PROVE  OneWriter'
<1>1. SUFFICES ASSUME NEW m \in MadeOnce
               PROVE  HasOneWriter(m)'
  BY DEF OneWriter
<1>2. HasOneWriter(m)
  BY DEF OneWriter
<1>3. \A f \in Commands : run'[f].step \in Phases[m] => run'[f] = run[f]
  BY DEF InPhase
<1> QED
  BY <1>2, <1>3 DEF HasOneWriter

(* A step that only reads, to a step outside the phases or onward in one. *)
LEMMA LearnsKeepsOneWriter ==
  ASSUME CampaignBounds, TypeOK, OneWriter, NEW e \in Commands, NEW knows \in Executions,
         NEW condition \in BOOLEAN, NEW next \in Steps, Learns(e, knows, condition, next),
         run[e].step \notin MadeOnce,
         \/ next \notin InPhase
         \/ \E m \in MadeOnce : /\ run[e].step \in Phases[m] /\ next \in Phases[m]
                                /\ Due[next] \subseteq Due[run[e].step]
  PROVE  OneWriter'
<1>1. PICK to : to = IF condition THEN next ELSE "ended"
  OBVIOUS
<1>2. to \in Steps /\ Goto(e, to, knows)
  BY <1>1 DEF Steps, Learns
<1>3. run'[e].step = to /\ \A f \in Commands : f # e => run'[f] = run[f]
  BY <1>2, Goes
<1>4. kept' = kept
  BY DEF Learns, directory
<1>5. "ended" \notin InPhase
  BY PhaseFacts DEF WrittenOnce
<1>6. PICK s, t : s = run[e].step /\ t = run'[e].step
  OBVIOUS
<1>7. \/ t \notin InPhase
      \/ \E m \in MadeOnce : s \in Phases[m] /\ t \in Phases[m] /\ Due[t] \subseteq Due[s] \ {}
  BY <1>1, <1>3, <1>5, <1>6
<1>8. kept' = kept \cup {} /\ {} \in {{}, {s}} /\ s \notin MadeOnce
  BY <1>4, <1>6
<1> QED
  BY <1>3, <1>6, <1>7, <1>8, OnwardKeepsOneWriter

LEMMA MakesKeepsOneWriter ==
  ASSUME CampaignBounds, TypeOK, OneWriter, NEW e \in Commands, NEW name \in MadeOnce,
         NEW possible \in BOOLEAN, Makes(e, name, possible, Entered[name])
  PROVE  OneWriter'
<1>1. Entered[name] \in Steps
  BY DEF Entered, MadeOnce, Steps, Files, WrittenOnce
<1>2. run[e].step = name
  BY DEF Makes, At
<1>3. CASE possible /\ name \notin kept
  <2>1. kept' = kept \cup {name} /\ Goto(e, Entered[name], run[e])
    BY <1>3 DEF Makes
  <2>2. run'[e].step = Entered[name] /\ \A f \in Commands : f # e => run'[f] = run[f]
    BY <1>1, <2>1, Goes, Known
  <2> QED
    BY <1>2, <1>3, <2>1, <2>2, EnteredKeepsOneWriter
<1>4. CASE ~(possible /\ name \notin kept)
  <2>1. kept' = kept /\ Goto(e, "ended", run[e])
    BY <1>4 DEF Makes
  <2>2. run'[e].step = "ended" /\ \A f \in Commands : f # e => run'[f] = run[f]
    BY <2>1, Goes, Known DEF Steps
  <2>3. "ended" \notin InPhase
    BY PhaseFacts DEF WrittenOnce
  <2> QED
    BY <2>1, <2>2, <2>3, LeavesKeepsOneWriter
<1> QED
  BY <1>3, <1>4

(* A step that writes the file it is named for. *)
LEMMA WritesKeepsOneWriter ==
  ASSUME CampaignBounds, TypeOK, OneWriter, NEW e \in Commands,
         NEW name \in WrittenOnce \cup Targets, NEW next \in Steps, Writes(e, name, next),
         \/ next \notin InPhase
         \/ \E m \in MadeOnce : /\ name \in Phases[m] /\ next \in Phases[m]
                                /\ Due[next] \subseteq Due[name] \ {name}
  PROVE  OneWriter'
<1>1. /\ run[e].step = name /\ kept' = kept \cup {name} /\ Goto(e, next, run[e])
      /\ name \notin MadeOnce
  BY DEF Writes, At, WrittenOnce, Targets, MadeOnce
<1>2. run'[e].step = next /\ \A f \in Commands : f # e => run'[f] = run[f]
  BY <1>1, Goes, Known
<1>3. PICK s, t : s = run[e].step /\ t = run'[e].step
  OBVIOUS
<1>4. \/ t \notin InPhase
      \/ \E m \in MadeOnce : s \in Phases[m] /\ t \in Phases[m] /\ Due[t] \subseteq Due[s] \ {s}
  BY <1>1, <1>2, <1>3
<1>5. kept' = kept \cup {s} /\ {s} \in {{}, {s}} /\ s \notin MadeOnce
  BY <1>1, <1>3
<1> QED
  BY <1>2, <1>3, <1>4, <1>5, OnwardKeepsOneWriter

LEMMA OneWriterStep ==
  ASSUME CampaignBounds, TypeOK, OneWriter, [Next]_vars
  PROVE  OneWriter'
<1>1. SUFFICES ASSUME NEW e \in Commands, Command(e) \/ Fails(e)
               PROVE  OneWriter'
  <2>1. CASE ChangeTree \/ SwapModel \/ DamageCaptures \/ UNCHANGED vars
    <3>1. run' = run /\ kept' = kept
      BY <2>1 DEF ChangeTree, SwapModel, DamageCaptures, vars, directory
    <3> QED
      BY <3>1 DEF OneWriter, HasOneWriter
  <2> QED
    BY <1>1, <2>1 DEF Next
<1> DEFINE E == run[e]
<1>2. E \in Executions
  BY Known
<1>3. \A s \in Steps \ (WrittenOnce \cup {"verify", "reproduce"}) : s \notin InPhase
  BY PhaseFacts
<1>4. CASE Start(e)
  <2>1. PICK command \in Duties :
          Goto(e, IF command \in {"prepare", "score"} THEN "preflight" ELSE "bind",
               [E EXCEPT !.duty = command])
    BY <1>4 DEF Start
  <2>2. [E EXCEPT !.duty = command] \in Executions
    BY <1>2 DEF Executions
  <2>3. /\ run'[e].step \in {"preflight", "bind"}
        /\ \A f \in Commands : f # e => run'[f] = run[f]
    BY <2>1, <2>2, Goes DEF Steps
  <2>4. run'[e].step \notin InPhase /\ kept' = kept /\ run[e].step \notin MadeOnce
    BY <1>4, <2>3, PhaseFacts DEF Start, directory, WrittenOnce, At, MadeOnce
  <2> QED
    BY <2>3, <2>4, LeavesKeepsOneWriter
<1>5. CASE Preflight(e)
  <2>1. PICK next \in {"absent", "contract"} : Learns(e, E, tree = head /\ weights = "frozen", next)
    BY <1>5 DEF Preflight, Checks
  <2>2. next \in Steps /\ next \notin InPhase /\ E.step \notin MadeOnce
    BY <1>5, PhaseFacts DEF Preflight, At, MadeOnce, Steps, WrittenOnce
  <2> QED
    BY <1>2, <2>1, <2>2, LearnsKeepsOneWriter
<1>6. CASE ReadContract(e)
  <2>1. [E EXCEPT !.contract = Contract(tree)] \in Executions
    BY <1>2 DEF Executions, Contract, Contracts
  <2>2. Learns(e, [E EXCEPT !.contract = Contract(tree)], At(e, "absent") => kept = {}, "bind")
    BY <1>6 DEF ReadContract
  <2>3. "bind" \in Steps /\ "bind" \notin InPhase /\ E.step \notin MadeOnce
    BY <1>6, PhaseFacts DEF ReadContract, At, MadeOnce, Steps, WrittenOnce
  <2> QED
    BY <2>1, <2>2, <2>3, LearnsKeepsOneWriter
<1>7. CASE Bind(e)
  <2>1. [E EXCEPT !.commit = head] \in Executions
    BY <1>2 DEF Executions, TypeOK
  <2>2. Learns(e, [E EXCEPT !.commit = head],
               E.duty = "prepare" \/ (Whole({"protocol"}) /\ protocol.commit = head), "clean")
    BY <1>7 DEF Bind
  <2>3. "clean" \in Steps /\ "clean" \notin InPhase /\ E.step \notin MadeOnce
    BY <1>7, PhaseFacts DEF Bind, At, MadeOnce, Steps, WrittenOnce
  <2> QED
    BY <2>1, <2>2, <2>3, LearnsKeepsOneWriter
<1>8. CASE Clean(e)
  <2>1. PICK next : next = AfterClean[E.duty]
    OBVIOUS
  <2>2. next \in {"inputs", "cases", "targets", "load"}
    BY <1>2, <2>1 DEF Executions, Duties, AfterClean
  <2>3. Learns(e, E, tree = head /\ (E.duty = "score" => E.contract = protocol.contract), next)
    BY <1>8, <2>1 DEF Clean, Checks
  <2>4. next \in Steps /\ next \notin InPhase /\ E.step \notin MadeOnce
    BY <1>8, <2>2, PhaseFacts DEF Clean, At, MadeOnce, Steps, WrittenOnce, Files
  <2> QED
    BY <1>2, <2>3, <2>4, LearnsKeepsOneWriter
<1>9. CASE MakeInputs(e)
  BY <1>9, MakesKeepsOneWriter DEF MakeInputs, MadeOnce, Entered
<1>10. CASE WriteProtocol(e)
  <2>1. Writes(e, "protocol", "plan") /\ "plan" \in Steps /\ "protocol" \in WrittenOnce
    BY <1>10 DEF WriteProtocol, Steps, Files, WrittenOnce
  <2>2. /\ "inputs" \in MadeOnce /\ "protocol" \in Phases["inputs"] /\ "plan" \in Phases["inputs"]
        /\ Due["plan"] \subseteq Due["protocol"] \ {"protocol"}
    BY DEF MadeOnce, Phases, Due
  <2> QED
    BY <2>1, <2>2, WritesKeepsOneWriter
<1>11. CASE MakeCases(e)
  BY <1>11, MakesKeepsOneWriter DEF MakeCases, MadeOnce, Entered
<1>12. CASE \E name \in DOMAIN AfterWrite : WriteFile(e, name)
  <2>1. PICK name \in DOMAIN AfterWrite : WriteFile(e, name)
    BY <1>12
  <2>2. PICK next : next = AfterWrite[name]
    OBVIOUS
  <2>3. Writes(e, name, next) /\ next \in Steps /\ name \in WrittenOnce \cup Targets
    BY <2>1, <2>2 DEF WriteFile, AfterWrite, WrittenOnce, Targets, Steps, Files
  <2>4. CASE name \in {"plan", "schema"}
    <3>1. "inputs" \in MadeOnce /\ name \in Phases["inputs"] /\ next \in Phases["inputs"]
      BY <2>2, <2>4 DEF MadeOnce, Phases, AfterWrite
    <3>2. Due[next] \subseteq Due[name] \ {name}
      BY <2>2, <2>4 DEF AfterWrite, Due
    <3> QED
      BY <2>3, <3>1, <3>2, WritesKeepsOneWriter
  <2>5. CASE name \notin {"plan", "schema"}
    <3>1. next \in {"ended", "manifest"}
      BY <2>2, <2>5 DEF AfterWrite
    <3>2. next \notin InPhase
      BY <3>1, PhaseFacts DEF WrittenOnce
    <3> QED
      BY <2>3, <3>2, WritesKeepsOneWriter
  <2> QED
    BY <2>4, <2>5
<1>13. CASE CheckTargets(e)
  <2>1. Learns(e, E, kept \cap Targets = {}, "assess")
    BY <1>13 DEF CheckTargets, Checks
  <2>2. "assess" \in Steps /\ "assess" \notin InPhase /\ E.step \notin MadeOnce
    BY <1>13, PhaseFacts DEF CheckTargets, At, MadeOnce, Steps, WrittenOnce
  <2> QED
    BY <1>2, <2>1, <2>2, LearnsKeepsOneWriter
<1>14. CASE Assess(e)
  <2>1. [E EXCEPT !.evidence = evidence] \in Executions
    BY <1>2 DEF Executions, TypeOK
  <2>2. Learns(e, [E EXCEPT !.evidence = evidence], Whole({"plan", "attestation"}), "quality")
    BY <1>14 DEF Assess
  <2>3. "quality" \in Steps /\ "quality" \notin InPhase /\ E.step \notin MadeOnce
    BY <1>14, PhaseFacts DEF Assess, At, MadeOnce, Steps, WrittenOnce, Files, Targets
  <2>4. Whole({"plan", "attestation"}) \in BOOLEAN
    BY DEF Whole
  <2> QED
    BY <2>1, <2>2, <2>3, <2>4, LearnsKeepsOneWriter
<1>15. CASE WriteQuality(e)
  <2>1. Writes(e, "quality", "report") /\ "report" \in Steps /\ "quality" \in Targets
    BY <1>15 DEF WriteQuality, Steps, Files, Targets
  <2>2. "report" \notin InPhase
    BY PhaseFacts DEF WrittenOnce
  <2> QED
    BY <2>1, <2>2, WritesKeepsOneWriter
<1>16. CASE WriteManifest(e)
  <2>1. Writes(e, "manifest", "ended") /\ "ended" \in Steps /\ "manifest" \in Targets
    BY <1>16 DEF WriteManifest, Steps, Targets
  <2>2. "ended" \notin InPhase
    BY PhaseFacts DEF WrittenOnce
  <2> QED
    BY <2>1, <2>2, WritesKeepsOneWriter
<1>17. CASE Load(e)
  <2>1. [E EXCEPT !.evidence = evidence] \in Executions
    BY <1>2 DEF Executions, TypeOK
  <2>2. Learns(e, [E EXCEPT !.evidence = evidence],
               Loadable /\ kept = recorded.files \cup {"manifest"}, "rollout")
    BY <1>17 DEF Load
  <2>3. "rollout" \in Steps /\ "rollout" \notin InPhase /\ E.step \notin MadeOnce
    BY <1>17, PhaseFacts DEF Load, At, MadeOnce, Steps, WrittenOnce
  <2> QED
    BY <2>1, <2>2, <2>3, LearnsKeepsOneWriter
<1>18. CASE Rollout(e)
  <2>1. [E EXCEPT !.model = weights] \in Executions
    BY <1>2 DEF Executions, TypeOK
  <2>2. Learns(e, [E EXCEPT !.model = weights], TRUE, "predictions")
    BY <1>18 DEF Rollout
  <2>3. "predictions" \in Steps /\ "predictions" \notin InPhase /\ E.step \notin MadeOnce
    BY <1>18, PhaseFacts DEF Rollout, At, MadeOnce, Steps, WrittenOnce, Files
  <2> QED
    BY <2>1, <2>2, <2>3, LearnsKeepsOneWriter
<1>19. CASE MakePredictions(e)
  BY <1>19, MakesKeepsOneWriter DEF MakePredictions, MadeOnce, Entered
<1>20. CASE WriteArrays(e)
  <2>1. Writes(e, "arrays", "identities") /\ "identities" \in Steps /\ "arrays" \in WrittenOnce
    BY <1>20 DEF WriteArrays, Steps, Files, WrittenOnce
  <2>2. /\ "predictions" \in MadeOnce /\ "arrays" \in Phases["predictions"]
        /\ "identities" \in Phases["predictions"]
        /\ Due["identities"] \subseteq Due["arrays"] \ {"arrays"}
    BY DEF MadeOnce, Phases, Due
  <2> QED
    BY <2>1, <2>2, WritesKeepsOneWriter
<1>21. CASE WriteIdentities(e)
  <2>1. Writes(e, "identities", "verify") /\ "verify" \in Steps /\ "identities" \in WrittenOnce
    BY <1>21 DEF WriteIdentities, Steps, WrittenOnce
  <2>2. /\ "predictions" \in MadeOnce /\ "identities" \in Phases["predictions"]
        /\ "verify" \in Phases["predictions"]
        /\ Due["verify"] \subseteq Due["identities"] \ {"identities"}
    BY DEF MadeOnce, Phases, Due
  <2> QED
    BY <2>1, <2>2, WritesKeepsOneWriter
<1>22. CASE Verify(e)
  <2>1. [E EXCEPT !.contract = Contract(tree)] \in Executions
    BY <1>2 DEF Executions, Contract, Contracts
  <2>2. Learns(e, [E EXCEPT !.contract = Contract(tree)], Identified(Contract(tree)),
               "reproduce")
    BY <1>22 DEF Verify
  <2>3. Identified(Contract(tree)) \in BOOLEAN
    BY DEF Identified
  <2>4. /\ E.step = "verify" /\ "reproduce" \in Steps
        /\ "predictions" \in MadeOnce /\ "verify" \in Phases["predictions"]
        /\ "reproduce" \in Phases["predictions"] /\ Due["reproduce"] \subseteq Due["verify"]
        /\ "verify" \notin MadeOnce
    BY <1>22 DEF Verify, At, Steps, MadeOnce, Phases, Due
  <2> QED
    BY <2>1, <2>2, <2>3, <2>4, LearnsKeepsOneWriter
<1>23. CASE Reproduce(e)
  <2>1. Learns(e, E, Loadable /\ predictions = [model |-> weights, evidence |-> evidence],
               "assessment")
    BY <1>23 DEF Reproduce, Checks
  <2>2. /\ E.step = "reproduce" /\ "assessment" \in Steps
        /\ "predictions" \in MadeOnce /\ "reproduce" \in Phases["predictions"]
        /\ "assessment" \in Phases["predictions"]
        /\ Due["assessment"] \subseteq Due["reproduce"] /\ "reproduce" \notin MadeOnce
    BY <1>23 DEF Reproduce, At, Steps, Files, WrittenOnce, MadeOnce, Phases, Due
  <2> QED
    BY <1>2, <2>1, <2>2, LearnsKeepsOneWriter
<1>24. CASE WriteAssessment(e)
  <2>1. Writes(e, "assessment", "retained") /\ "retained" \in Steps /\ "assessment" \in WrittenOnce
    BY <1>24 DEF WriteAssessment, Steps, Files, WrittenOnce
  <2>2. /\ "predictions" \in MadeOnce /\ "assessment" \in Phases["predictions"]
        /\ "retained" \in Phases["predictions"]
        /\ Due["retained"] \subseteq Due["assessment"] \ {"assessment"}
    BY DEF MadeOnce, Phases, Due
  <2> QED
    BY <2>1, <2>2, WritesKeepsOneWriter
<1>25. CASE Fails(e)
  <2>1. run'[e].step = "ended" /\ \A f \in Commands : f # e => run'[f] = run[f]
    BY <1>25, Goes, Known DEF Fails, Steps
  <2>2. "ended" \notin InPhase
    BY PhaseFacts DEF WrittenOnce
  <2>3. CASE kept' = kept
    BY <2>1, <2>2, <2>3, LeavesKeepsOneWriter
  <2>4. CASE kept' # kept
    <3>1. run[e].step \in WrittenOnce \cup Targets /\ kept' = kept \cup {run[e].step}
      BY <1>25, <2>4 DEF Fails, directory
    <3>2. run[e].step \notin MadeOnce
      BY <3>1 DEF WrittenOnce, Targets, MadeOnce
    <3> QED
      BY <2>1, <2>2, <3>1, <3>2, OnwardKeepsOneWriter
  <2> QED
    BY <2>3, <2>4
<1> QED
  BY <1>1, <1>4, <1>5, <1>6, <1>7, <1>8, <1>9, <1>10, <1>11, <1>12, <1>13, <1>14,
     <1>15, <1>16, <1>17, <1>18, <1>19, <1>20, <1>21, <1>22, <1>23, <1>24, <1>25 DEF Command

(* Types of a sealed confirmation, under any commands and changes. *)
THEOREM CampaignTypeCorrect ==
  ASSUME CampaignBounds
  PROVE  Spec => []TypeOK
<1>1. Init => TypeOK
  BY InitTyped
<1>2. TypeOK /\ [Next]_vars => TypeOK'
  BY StepTyped
<1> QED
  BY <1>1, <1>2, PTL DEF Spec

LEMMA OneWriterWritesOnce ==
  ASSUME OneWriter
  PROVE  NothingIsWrittenTwice
<1>1. SUFFICES ASSUME NEW e \in Commands, run[e].step \in WrittenOnce
               PROVE  /\ run[e].step \notin kept
                      /\ \A d \in Commands \ {e} : run[d].step # run[e].step
  BY DEF NothingIsWrittenTwice
<1>2. PICK m \in MadeOnce : run[e].step \in Phases[m]
  BY <1>1, PhaseFacts DEF InPhase
<1> QED
  BY <1>1, <1>2, PhaseFacts DEF OneWriter, HasOneWriter

(* Nothing of a confirmation is written twice, whatever commands overlap, fail *)
(* or are killed (prepare_confirmation, collect_confirmation,                 *)
(* score_confirmation): the mkdir that begins a phase fails for the second.   *)
THEOREM ConfirmationIsWrittenOnce ==
  ASSUME CampaignBounds
  PROVE  Spec => []NothingIsWrittenTwice
<1>1. Init => TypeOK /\ OneWriter
  BY InitTyped, InitOneWriter
<1>2. TypeOK /\ OneWriter /\ [Next]_vars => TypeOK' /\ OneWriter'
  BY StepTyped, OneWriterStep
<1>3. OneWriter => NothingIsWrittenTwice
  BY OneWriterWritesOnce
<1> QED
  BY <1>1, <1>2, <1>3, PTL DEF Spec

-----------------------------------------------------------------------------
(* Sealed confirmations: the result *)

(* What score has written and verified by each of its steps. *)
ScoreFits(e) ==
  LET E == run[e] IN
  /\ E.step \in {"identities", "verify", "reproduce", "assessment"} => Whole({"arrays"})
  /\ E.step \in {"verify", "reproduce", "assessment"} => Whole({"identities"})
  /\ E.step \in {"reproduce", "assessment"} =>
       Whole({"protocol"}) /\ E.contract = protocol.contract
  /\ E.step = "assessment" =>
       Whole({"plan", "schema", "attestation"}) /\ grade[predictions.evidence]

ResultFits ==
  "assessment" \in kept \ torn =>
    /\ result = protocol.contract /\ grade[predictions.evidence]
    /\ Whole({"protocol", "plan", "schema", "attestation", "arrays", "identities"})

(* The model that was read has been replaced before and, if the frozen one is  *)
(* in its place again, after.                                                  *)
Taken(model) == model = "other" => swaps >= 1 /\ (weights = "frozen" => swaps >= 2)

(* The assessor has found the frozen model since, and then the other again. *)
ModelFits(e) ==
  LET E == run[e] IN
  /\ E.step \in {"predictions", "arrays"} => Taken(E.model)
  /\ E.step = "reproduce" /\ predictions.model = "other" =>
       swaps >= 2 /\ (weights = "other" => swaps >= 3)
  /\ E.step = "assessment" /\ predictions.model = "other" => swaps >= 3

ModelsFit ==
  /\ Taken(weights) /\ Taken(predictions.model)
  /\ "assessment" \in kept \ torn /\ predictions.model = "other" => swaps >= 3

ResultInv ==
  /\ \A e \in Commands : ScoreFits(e) /\ ModelFits(e)
  /\ ResultFits /\ ModelsFit

(* A step is one of an execution, or leaves all executions where they are. *)
LEMMA OneActs ==
  ASSUME [Next]_vars
  PROVE  \/ \E e \in Commands : Command(e) \/ Fails(e)
         \/ (ChangeTree \/ SwapModel \/ DamageCaptures \/ UNCHANGED vars) /\ run' = run
BY DEF Next, ChangeTree, SwapModel, DamageCaptures, vars

(* Where the steps of an execution lead. *)
LEMMA Leads ==
  ASSUME CampaignBounds, TypeOK, NEW e \in Commands, Command(e) \/ Fails(e)
  PROVE  /\ \A f \in Commands : f # e => run'[f] = run[f]
         /\ run'[e].step = "bind" => Start(e) \/ ReadContract(e)
         /\ run'[e].step = "clean" => Bind(e)
         /\ run'[e].step \in {"inputs", "load"} => Clean(e)
         /\ run'[e].step = "protocol" => MakeInputs(e)
         /\ run'[e].step = "rollout" => Load(e)
         /\ run'[e].step = "predictions" => Rollout(e)
         /\ run'[e].step = "arrays" => MakePredictions(e)
         /\ run'[e].step = "identities" => WriteArrays(e)
         /\ run'[e].step = "verify" => WriteIdentities(e)
         /\ run'[e].step = "reproduce" => Verify(e)
         /\ run'[e].step = "assessment" => Reproduce(e)
<1>0. run \in [Commands -> Executions] /\ run[e].duty \in Duties
  BY DEF TypeOK, Executions
<1> DEFINE To(steps) == /\ run'[e].step \in steps \cup {"ended"}
                        /\ \A f \in Commands : f # e => run'[f] = run[f]
<1> USE <1>0 DEF To, Goto, Learns, Checks, Rests, Makes, Writes
<1>1. CASE Start(e)
  <2>1. To({"preflight", "bind"})
    BY <1>1 DEF Start, Executions
  <2> QED
    BY <1>1, <2>1
<1>2. CASE Preflight(e)
  <2>1. To({"absent", "contract"})
    BY <1>2 DEF Preflight, Executions
  <2> QED
    BY <2>1
<1>3. CASE ReadContract(e)
  <2>1. To({"bind"})
    BY <1>3 DEF ReadContract, Executions
  <2> QED
    BY <1>3, <2>1
<1>4. CASE Bind(e)
  <2>1. To({"clean"})
    BY <1>4 DEF Bind, Executions
  <2> QED
    BY <1>4, <2>1
<1>5. CASE Clean(e)
  <2>1. PICK next : next = AfterClean[run[e].duty]
    OBVIOUS
  <2>2. next \in {"inputs", "cases", "targets", "load"}
    BY <2>1 DEF AfterClean, Duties
  <2>3. To({"inputs", "cases", "targets", "load"})
    BY <1>5, <2>1, <2>2 DEF Clean, Executions
  <2> QED
    BY <1>5, <2>3
<1>6. CASE MakeInputs(e)
  <2>1. To({"protocol"})
    BY <1>6 DEF MakeInputs, Executions
  <2> QED
    BY <1>6, <2>1
<1>7. CASE WriteProtocol(e)
  <2>1. To({"plan"})
    BY <1>7 DEF WriteProtocol, Executions
  <2> QED
    BY <2>1
<1>8. CASE MakeCases(e)
  <2>1. To({"attestation"})
    BY <1>8 DEF MakeCases, Executions
  <2> QED
    BY <2>1
<1>9. CASE \E name \in DOMAIN AfterWrite : WriteFile(e, name)
  <2>1. PICK name \in DOMAIN AfterWrite : WriteFile(e, name)
    BY <1>9
  <2>2. PICK next : next = AfterWrite[name]
    OBVIOUS
  <2>3. next \in {"schema", "prepared", "ended", "manifest"}
    BY <2>2 DEF AfterWrite
  <2>4. To({"schema", "prepared", "manifest"})
    BY <2>1, <2>2, <2>3 DEF WriteFile, Executions
  <2> QED
    BY <2>4
<1>10. CASE CheckTargets(e)
  <2>1. To({"assess"})
    BY <1>10 DEF CheckTargets, Executions
  <2> QED
    BY <2>1
<1>11. CASE Assess(e)
  <2>1. To({"quality"})
    BY <1>11 DEF Assess, Executions
  <2> QED
    BY <2>1
<1>12. CASE WriteQuality(e)
  <2>1. To({"report"})
    BY <1>12 DEF WriteQuality, Executions
  <2> QED
    BY <2>1
<1>13. CASE WriteManifest(e)
  <2>1. To({"ended"})
    BY <1>13 DEF WriteManifest, Executions
  <2> QED
    BY <2>1
<1>14. CASE Load(e)
  <2>1. To({"rollout"})
    BY <1>14 DEF Load, Executions
  <2> QED
    BY <1>14, <2>1
<1>15. CASE Rollout(e)
  <2>1. To({"predictions"})
    BY <1>15 DEF Rollout, Executions
  <2> QED
    BY <1>15, <2>1
<1>16. CASE MakePredictions(e)
  <2>1. To({"arrays"})
    BY <1>16 DEF MakePredictions, Executions
  <2> QED
    BY <1>16, <2>1
<1>17. CASE WriteArrays(e)
  <2>1. To({"identities"})
    BY <1>17 DEF WriteArrays, Executions
  <2> QED
    BY <1>17, <2>1
<1>18. CASE WriteIdentities(e)
  <2>1. To({"verify"})
    BY <1>18 DEF WriteIdentities, Executions
  <2> QED
    BY <1>18, <2>1
<1>19. CASE Verify(e)
  <2>1. To({"reproduce"})
    BY <1>19 DEF Verify, Executions
  <2> QED
    BY <1>19, <2>1
<1>20. CASE Reproduce(e)
  <2>1. To({"assessment"})
    BY <1>20 DEF Reproduce, Executions
  <2> QED
    BY <1>20, <2>1
<1>21. CASE WriteAssessment(e)
  <2>1. To({"retained"})
    BY <1>21 DEF WriteAssessment, Executions
  <2> QED
    BY <2>1
<1>22. CASE Fails(e)
  <2>1. To({"ended"})
    BY <1>22 DEF Fails, Executions
  <2> QED
    BY <2>1
<1> QED
  BY <1>1, <1>2, <1>3, <1>4, <1>5, <1>6, <1>7, <1>8, <1>9, <1>10, <1>11, <1>12, <1>13,
     <1>14, <1>15, <1>16, <1>17, <1>18, <1>19, <1>20, <1>21, <1>22 DEF Command

(* What was written completely stays so, and so does what it says. *)
LEMMA WrittenStays ==
  ASSUME CampaignBounds, TypeOK, OneWriter, [Next]_vars
  PROVE  /\ \A x \in WrittenOnce : x \in kept \ torn => x \in kept' \ torn'
         /\ "protocol" \in kept => protocol' = protocol
         /\ "arrays" \in kept => predictions' = predictions
         /\ "assessment" \in kept => result' = result
         /\ grade' = grade
<1> DEFINE Stays == /\ \A x \in WrittenOnce : x \in kept \ torn => x \in kept' \ torn'
                    /\ "protocol" \in kept => protocol' = protocol
                    /\ "arrays" \in kept => predictions' = predictions
                    /\ "assessment" \in kept => result' = result
                    /\ grade' = grade
<1>1. SUFFICES ASSUME NEW e \in Commands, Command(e) \/ Fails(e)
               PROVE  Stays
  <2>1. CASE ChangeTree \/ SwapModel \/ DamageCaptures \/ UNCHANGED vars
    BY <2>1 DEF ChangeTree, SwapModel, DamageCaptures, vars, directory, scoring, captured
  <2> QED
    BY <1>1, <2>1, OneActs
<1>2. NothingIsWrittenTwice
  BY OneWriterWritesOnce
<1>3. ASSUME NEW knows, NEW condition, NEW next, Learns(e, knows, condition, next)
      PROVE  Stays
  BY <1>3 DEF Learns, directory, scoring, captured
<1>4. ASSUME NEW name, NEW possible, NEW next, Makes(e, name, possible, next)
      PROVE  Stays
  BY <1>4 DEF Makes, scoring, captured
<1>5. ASSUME NEW name, NEW next, Writes(e, name, next)
      PROVE  /\ \A x \in WrittenOnce : x \in kept \ torn => x \in kept' \ torn'
             /\ grade' = grade /\ run[e].step = name
  <2>1. run[e].step = name /\ kept' = kept \cup {name} /\ torn' = torn \ {name} /\ grade' = grade
    BY <1>5 DEF Writes, At, captured
  <2> QED
    BY <2>1
<1>6. CASE Start(e)
  BY <1>6 DEF Start, directory, scoring, captured
<1>7. CASE Preflight(e) \/ ReadContract(e) \/ Bind(e) \/ Clean(e) \/ CheckTargets(e) \/ Assess(e)
           \/ Load(e) \/ Rollout(e) \/ Verify(e) \/ Reproduce(e)
  BY <1>3, <1>7 DEF Preflight, ReadContract, Bind, Clean, CheckTargets, Assess, Load, Rollout,
                    Verify, Reproduce, Checks
<1>8. CASE MakeInputs(e) \/ MakeCases(e) \/ MakePredictions(e)
  BY <1>4, <1>8 DEF MakeInputs, MakeCases, MakePredictions
<1>9. CASE WriteProtocol(e)
  <2>1. "protocol" \notin kept
    BY <1>2, <1>9 DEF WriteProtocol, Writes, At, NothingIsWrittenTwice, WrittenOnce
  <2> QED
    BY <1>5, <1>9, <2>1 DEF WriteProtocol, scoring
<1>10. CASE \E name \in DOMAIN AfterWrite : WriteFile(e, name)
  BY <1>5, <1>10 DEF WriteFile, scoring
<1>11. CASE WriteQuality(e)
  BY <1>5, <1>11 DEF WriteQuality, scoring
<1>12. CASE WriteManifest(e)
  BY <1>5, <1>12 DEF WriteManifest, scoring
<1>13. CASE WriteArrays(e)
  <2>1. "arrays" \notin kept
    BY <1>2, <1>13 DEF WriteArrays, Writes, At, NothingIsWrittenTwice, WrittenOnce
  <2> QED
    BY <1>5, <1>13, <2>1 DEF WriteArrays
<1>14. CASE WriteIdentities(e)
  BY <1>5, <1>14 DEF WriteIdentities
<1>15. CASE WriteAssessment(e)
  <2>1. "assessment" \notin kept
    BY <1>2, <1>15 DEF WriteAssessment, Writes, At, NothingIsWrittenTwice, WrittenOnce
  <2> QED
    BY <1>5, <1>15, <2>1 DEF WriteAssessment
<1>16. CASE Fails(e)
  <2>1. UNCHANGED <<protocol, predictions, result, grade>>
    BY <1>16 DEF Fails, scoring, captured
  <2>2. ASSUME NEW x \in WrittenOnce, x \in kept \ torn
        PROVE  x \in kept' \ torn'
    <3>1. run[e].step # x
      BY <1>2, <2>2 DEF NothingIsWrittenTwice
    <3>2. \/ kept' = kept /\ torn' = torn
          \/ kept' = kept \cup {run[e].step} /\ torn' = torn \cup {run[e].step}
      BY <1>16 DEF Fails, directory
    <3> QED
      BY <2>2, <3>1, <3>2
  <2> QED
    BY <2>1, <2>2
<1> QED
  BY <1>1, <1>6, <1>7, <1>8, <1>9, <1>10, <1>11, <1>12, <1>13, <1>14, <1>15, <1>16
     DEF Command

LEMMA WholeStays ==
  ASSUME CampaignBounds, TypeOK, OneWriter, [Next]_vars,
         NEW files \in SUBSET WrittenOnce, Whole(files)
  PROVE  Whole(files)'
BY WrittenStays DEF Whole

LEMMA OnlyScorePredicts ==
  ASSUME [Next]_vars, predictions' # predictions
  PROVE  \E e \in Commands : WriteArrays(e)
<1>1. PICK e \in Commands : Command(e) \/ Fails(e)
  <2>1. ASSUME ChangeTree \/ SwapModel \/ DamageCaptures \/ UNCHANGED vars
        PROVE  FALSE
    BY <2>1 DEF ChangeTree, SwapModel, DamageCaptures, vars, scoring
  <2> QED
    BY <2>1, OneActs
<1> QED
  BY <1>1 DEF Command, Fails, Start, Preflight, ReadContract, Bind, Clean, MakeInputs,
              WriteProtocol, MakeCases, WriteFile, CheckTargets, Assess, WriteQuality,
              WriteManifest, Load, Rollout, MakePredictions, WriteIdentities,
              Verify, Reproduce, WriteAssessment, Checks, Learns, Makes, scoring

LEMMA SwapsFollow ==
  ASSUME CampaignBounds, TypeOK, ModelsFit, [Next]_vars
  PROVE  /\ Taken(weights)'
         /\ \A m \in Models : Taken(m) => Taken(m)'
         /\ swaps' >= swaps /\ (weights' # weights => swaps' = swaps + 1)
<1>1. \/ UNCHANGED <<weights, swaps>>
      \/ weights' \in Models \ {weights} /\ swaps' = swaps + 1
  <2>1. CASE \E e \in Commands : Command(e) \/ Fails(e)
    BY <2>1 DEF Command, Fails, Start, Preflight, ReadContract, Bind, Clean, MakeInputs,
                WriteProtocol, MakeCases, WriteFile, CheckTargets, Assess, WriteQuality,
                WriteManifest, Load, Rollout, MakePredictions, WriteArrays, WriteIdentities,
                Verify, Reproduce, WriteAssessment, Checks, Learns, Makes, Writes, repository
  <2>2. CASE ChangeTree \/ SwapModel \/ DamageCaptures \/ UNCHANGED vars
    BY <2>2 DEF ChangeTree, SwapModel, DamageCaptures, vars, repository
  <2> QED
    BY <2>1, <2>2, OneActs
<1>2. swaps \in Nat /\ weights \in {"frozen", "other"}
  BY DEF TypeOK, Models, CampaignBounds
<1> QED
  BY <1>1, <1>2 DEF ModelsFit, Taken, Models

LEMMA ScoreFitsStep ==
  ASSUME CampaignBounds, TypeOK, OneWriter, ResultInv, [Next]_vars, NEW f \in Commands
  PROVE  ScoreFits(f)'
<1>0. ScoreFits(f)
  BY DEF ResultInv
<1>1. \A x \in WrittenOnce : Whole({x}) => Whole({x})'
  BY WrittenStays DEF Whole
<1>2. Whole({"plan", "schema", "attestation"}) => Whole({"plan", "schema", "attestation"})'
  BY WholeStays DEF WrittenOnce
<1>3. /\ Whole({"protocol"}) => protocol' = protocol
      /\ Whole({"arrays"}) => predictions' = predictions
      /\ grade' = grade
  BY WrittenStays DEF Whole
<1>4. CASE run'[f] = run[f]
  BY <1>0, <1>1, <1>2, <1>3, <1>4 DEF ScoreFits, WrittenOnce
<1>5. CASE run'[f] # run[f]
  <2>1. Command(f) \/ Fails(f)
    BY <1>5, OneActs, Leads
  <2> DEFINE S == run'[f].step
  <2>2. CASE S = "identities"
    <3>1. WriteArrays(f)
      BY <2>1, <2>2, Leads
    <3>2. Whole({"arrays"})'
      BY <3>1 DEF WriteArrays, Writes, Whole
    <3> QED
      BY <2>2, <3>2 DEF ScoreFits
  <2>3. CASE S = "verify"
    <3>1. WriteIdentities(f)
      BY <2>1, <2>3, Leads
    <3>2. Whole({"identities"})' /\ Whole({"arrays"})
      BY <1>0, <3>1 DEF WriteIdentities, Writes, Whole, At, ScoreFits
    <3> QED
      BY <1>1, <2>3, <3>2 DEF ScoreFits, WrittenOnce
  <2>4. CASE S = "reproduce"
    <3>1. Verify(f)
      BY <2>1, <2>4, Leads
    <3>2. PICK knows : knows = [run[f] EXCEPT !.contract = Contract(tree)]
      OBVIOUS
    <3>3. /\ run' = [run EXCEPT ![f] = IF Identified(Contract(tree))
                                       THEN [knows EXCEPT !.step = "reproduce"]
                                       ELSE Rests("ended")]
      BY <3>1, <3>2 DEF Verify, Learns, Goto
    <3>4. Identified(Contract(tree)) /\ run'[f] = [knows EXCEPT !.step = "reproduce"]
      BY <2>4, <3>3 DEF TypeOK, Rests
    <3>5. run'[f].contract = Contract(tree)
      BY <3>2, <3>4, Known DEF Executions
    <3>6. Whole({"protocol"}) /\ protocol.contract = Contract(tree)
      BY <3>4 DEF Identified, Whole
    <3>7. Whole({"arrays"}) /\ Whole({"identities"})
      BY <1>0, <3>1 DEF Verify, At, ScoreFits
    <3> QED
      BY <1>1, <1>3, <2>4, <3>5, <3>6, <3>7 DEF ScoreFits, WrittenOnce
  <2>5. CASE S = "assessment"
    <3>1. Reproduce(f)
      BY <2>1, <2>5, Leads
    <3>2. PICK holds \in BOOLEAN :
            holds = (Loadable /\ predictions = [model |-> weights, evidence |-> evidence])
      OBVIOUS
    <3>3. run' = [run EXCEPT ![f] = IF holds THEN [run[f] EXCEPT !.step = "assessment"]
                                             ELSE Rests("ended")]
      BY <3>1, <3>2 DEF Reproduce, Checks, Learns, Goto
    <3>4. holds /\ run'[f] = [run[f] EXCEPT !.step = "assessment"]
      BY <2>5, <3>3 DEF TypeOK, Rests
    <3>5. run'[f].contract = run[f].contract
      BY <3>4, Known DEF Executions
    <3>6. Whole({"plan", "schema", "attestation"}) /\ grade[predictions.evidence]
      <4>1. Loadable /\ predictions = [model |-> weights, evidence |-> evidence]
        BY <3>2, <3>4
      <4>2. predictions.evidence = evidence
        BY <4>1
      <4> QED
        BY <4>1, <4>2 DEF Loadable, Whole
    <3>7. /\ Whole({"arrays"}) /\ Whole({"identities"}) /\ Whole({"protocol"})
          /\ run[f].contract = protocol.contract
      BY <1>0, <3>1 DEF Reproduce, At, ScoreFits
    <3> QED
      BY <1>1, <1>2, <1>3, <2>5, <3>5, <3>6, <3>7 DEF ScoreFits, WrittenOnce
  <2>6. CASE S \notin {"identities", "verify", "reproduce", "assessment"}
    BY <2>6 DEF ScoreFits
  <2> QED
    BY <2>2, <2>3, <2>4, <2>5, <2>6
<1> QED
  BY <1>4, <1>5

LEMMA ModelFitsStep ==
  ASSUME CampaignBounds, TypeOK, OneWriter, ResultInv, [Next]_vars, NEW f \in Commands
  PROVE  ModelFits(f)'
<1>0. ModelFits(f) /\ ScoreFits(f) /\ Taken(weights) /\ Taken(predictions.model)
  BY DEF ResultInv, ModelsFit
<1>1. /\ \A m \in Models : Taken(m) => Taken(m)'
      /\ swaps' >= swaps /\ (weights' # weights => swaps' = swaps + 1)
  BY SwapsFollow DEF ResultInv
<1>2. /\ swaps \in Nat /\ swaps' \in Nat /\ weights \in Models /\ weights' \in Models
      /\ predictions.model \in Models /\ run[f] \in Executions
  BY StepTyped, Known DEF TypeOK, CampaignBounds
<1>3. "arrays" \in kept => predictions' = predictions
  BY WrittenStays
<1>4. CASE run'[f] = run[f]
  <2>1. run[f].step \in {"reproduce", "assessment"} => predictions' = predictions
    BY <1>0, <1>3 DEF ScoreFits, Whole
  <2> QED
    BY <1>0, <1>1, <1>2, <1>4, <2>1 DEF ModelFits, Executions, Models
<1>5. CASE run'[f] # run[f]
  <2>1. Command(f) \/ Fails(f)
    BY <1>5, OneActs, Leads
  <2> DEFINE S == run'[f].step
  <2>2. CASE S = "predictions"
    <3>1. Rollout(f)
      BY <2>1, <2>2, Leads
    <3>2. run'[f].model = weights /\ UNCHANGED <<weights, swaps>>
      BY <1>2, <3>1 DEF Rollout, Learns, Goto, TypeOK, Executions, repository
    <3> QED
      BY <1>0, <2>2, <3>2 DEF ModelFits, Taken
  <2>3. CASE S = "arrays"
    <3>1. MakePredictions(f)
      BY <2>1, <2>3, Leads
    <3>2. PICK to : to = IF TRUE /\ "predictions" \notin kept THEN "arrays" ELSE "ended"
      OBVIOUS
    <3>3. run' = [run EXCEPT ![f] = IF to = "ended" THEN Rests("ended")
                                                    ELSE [run[f] EXCEPT !.step = to]]
      BY <3>1, <3>2 DEF MakePredictions, Makes, Goto
    <3>4. run'[f].model = run[f].model /\ UNCHANGED <<weights, swaps>>
      BY <1>2, <2>3, <3>1, <3>3 DEF MakePredictions, Makes, TypeOK, Executions, Rests,
         repository
    <3>5. run[f].step = "predictions"
      BY <3>1 DEF MakePredictions, Makes, At
    <3> QED
      BY <1>0, <2>3, <3>4, <3>5 DEF ModelFits, Taken
  <2>4. CASE S = "reproduce"
    <3>1. Verify(f)
      BY <2>1, <2>4, Leads
    <3>2. UNCHANGED <<weights, swaps, predictions>>
      BY <3>1 DEF Verify, Learns, repository, scoring
    <3>3. weights = "frozen"
      <4>1. PICK knows : knows = [run[f] EXCEPT !.contract = Contract(tree)]
        OBVIOUS
      <4>2. run' = [run EXCEPT ![f] = IF Identified(Contract(tree))
                                      THEN [knows EXCEPT !.step = "reproduce"]
                                      ELSE Rests("ended")]
        BY <3>1, <4>1 DEF Verify, Learns, Goto
      <4>3. Identified(Contract(tree))
        BY <2>4, <4>2 DEF TypeOK, Rests
      <4> QED
        BY <4>3 DEF Identified
    <3> QED
      BY <1>0, <2>4, <3>2, <3>3 DEF ModelFits, Taken
  <2>5. CASE S = "assessment"
    <3>1. Reproduce(f)
      BY <2>1, <2>5, Leads
    <3>2. UNCHANGED <<weights, swaps, predictions>> /\ run[f].step = "reproduce"
      BY <3>1 DEF Reproduce, Checks, Learns, repository, scoring, At
    <3>3. predictions.model = weights
      <4>1. PICK holds \in BOOLEAN :
              holds = (Loadable /\ predictions = [model |-> weights, evidence |-> evidence])
        OBVIOUS
      <4>2. run' = [run EXCEPT ![f] = IF holds THEN [run[f] EXCEPT !.step = "assessment"]
                                               ELSE Rests("ended")]
        BY <3>1, <4>1 DEF Reproduce, Checks, Learns, Goto
      <4>3. holds
        BY <2>5, <4>2 DEF TypeOK, Rests
      <4>4. predictions = [model |-> weights, evidence |-> evidence]
        BY <4>1, <4>3
      <4> QED
        BY <4>4
    <3> QED
      BY <1>0, <2>5, <3>2, <3>3 DEF ModelFits
  <2>6. CASE S \notin {"predictions", "arrays", "reproduce", "assessment"}
    BY <2>6 DEF ModelFits
  <2> QED
    BY <2>2, <2>3, <2>4, <2>5, <2>6
<1> QED
  BY <1>4, <1>5

(* What is complete now and was not before has been written by this step. *)
LEMMA AssessmentAppears ==
  ASSUME CampaignBounds, TypeOK, OneWriter, [Next]_vars,
         "assessment" \notin kept \ torn, "assessment" \in kept' \ torn'
  PROVE  \E e \in Commands : WriteAssessment(e)
<1>1. PICK e \in Commands : Command(e) \/ Fails(e)
  <2>1. ASSUME ChangeTree \/ SwapModel \/ DamageCaptures \/ UNCHANGED vars
        PROVE  UNCHANGED <<kept, torn>>
    BY <2>1 DEF ChangeTree, SwapModel, DamageCaptures, vars, directory
  <2> QED
    BY <2>1, OneActs
<1>2. ASSUME NEW knows, NEW condition, NEW next, Learns(e, knows, condition, next)
      PROVE  FALSE
  BY <1>2 DEF Learns, directory
<1>3. ASSUME NEW name \in MadeOnce, NEW possible, NEW next, Makes(e, name, possible, next)
      PROVE  FALSE
  BY <1>3 DEF Makes, MadeOnce
<1>4. ASSUME NEW name, NEW next, Writes(e, name, next), name # "assessment"
      PROVE  FALSE
  BY <1>4 DEF Writes
<1>5. CASE Start(e)
  BY <1>5 DEF Start, directory
<1>6. CASE Preflight(e) \/ ReadContract(e) \/ Bind(e) \/ Clean(e) \/ CheckTargets(e) \/ Assess(e)
           \/ Load(e) \/ Rollout(e) \/ Verify(e) \/ Reproduce(e)
  BY <1>2, <1>6 DEF Preflight, ReadContract, Bind, Clean, CheckTargets, Assess, Load, Rollout,
                    Verify, Reproduce, Checks
<1>7. CASE MakeInputs(e) \/ MakeCases(e) \/ MakePredictions(e)
  BY <1>3, <1>7 DEF MakeInputs, MakeCases, MakePredictions, MadeOnce
<1>8. CASE WriteProtocol(e) \/ WriteQuality(e) \/ WriteManifest(e) \/ WriteArrays(e)
           \/ WriteIdentities(e) \/ \E name \in DOMAIN AfterWrite : WriteFile(e, name)
  BY <1>4, <1>8 DEF WriteProtocol, WriteQuality, WriteManifest, WriteArrays, WriteIdentities,
                    WriteFile, AfterWrite
<1>9. CASE Fails(e)
  BY <1>9 DEF Fails, directory
<1> QED
  BY <1>1, <1>5, <1>6, <1>7, <1>8, <1>9 DEF Command

LEMMA ResultStep ==
  ASSUME CampaignBounds, TypeOK, OneWriter, ResultInv, [Next]_vars
  PROVE  ResultInv'
<1> DEFINE Rest == {"protocol", "plan", "schema", "attestation", "arrays", "identities"}
<1>1. \A f \in Commands : (ScoreFits(f) /\ ModelFits(f))'
  BY ScoreFitsStep, ModelFitsStep
<1>2. Taken(weights)' /\ swaps' >= swaps /\ \A m \in Models : Taken(m) => Taken(m)'
  BY SwapsFollow DEF ResultInv
<1>3. Taken(predictions.model)'
  <2>1. CASE predictions' = predictions
    BY <1>2, <2>1 DEF ResultInv, ModelsFit, TypeOK, Taken
  <2>2. CASE predictions' # predictions
    <3>1. PICK e \in Commands : WriteArrays(e)
      BY <2>2, OnlyScorePredicts
    <3>2. /\ predictions'.model = run[e].model /\ run[e].step = "arrays"
          /\ UNCHANGED <<weights, swaps>>
      BY <3>1 DEF WriteArrays, Writes, At, repository
    <3> QED
      BY <3>2 DEF ResultInv, ModelFits, Taken
  <2> QED
    BY <2>1, <2>2
<1>4. CASE "assessment" \in kept \ torn
  <2>1. Whole(Rest)' /\ Whole(Rest)
    BY <1>4, WholeStays DEF ResultInv, ResultFits, WrittenOnce
  <2>2. protocol' = protocol /\ predictions' = predictions /\ result' = result /\ grade' = grade
    BY <1>4, <2>1, WrittenStays DEF Whole
  <2>3. "assessment" \in kept' \ torn'
    BY <1>4, WrittenStays DEF WrittenOnce
  <2>4. ResultFits'
    BY <1>4, <2>1, <2>2 DEF ResultInv, ResultFits
  <2>5. predictions'.model = "other" => swaps' >= 3
    BY <1>2, <1>4, <2>2, StepTyped DEF ResultInv, ModelsFit, TypeOK, CampaignBounds
  <2> QED
    BY <1>1, <1>2, <1>3, <2>4, <2>5 DEF ResultInv, ModelsFit
<1>5. CASE "assessment" \notin kept \ torn /\ "assessment" \in kept' \ torn'
  <2>1. PICK e \in Commands : WriteAssessment(e)
    BY <1>5, AssessmentAppears
  <2>2. /\ result' = run[e].contract /\ run[e].step = "assessment"
        /\ UNCHANGED <<protocol, predictions, grade, swaps>>
    BY <2>1 DEF WriteAssessment, Writes, At, captured, repository
  <2>3. ScoreFits(e) /\ ModelFits(e)
    BY DEF ResultInv
  <2>4. Whole(Rest)
    BY <2>2, <2>3 DEF ScoreFits, Whole
  <2>5. Whole(Rest)'
    BY <2>4, WholeStays DEF WrittenOnce
  <2>6. result' = protocol'.contract /\ grade'[predictions'.evidence]
    BY <2>2, <2>3 DEF ScoreFits
  <2>7. predictions'.model = "other" => swaps' >= 3
    BY <2>2, <2>3 DEF ModelFits
  <2> QED
    BY <1>1, <1>2, <1>3, <2>5, <2>6, <2>7 DEF ResultInv, ResultFits, ModelsFit
<1>6. CASE "assessment" \notin kept' \ torn'
  BY <1>1, <1>2, <1>3, <1>6 DEF ResultInv, ResultFits, ModelsFit
<1> QED
  BY <1>4, <1>5, <1>6

LEMMA InitResult ==
  ASSUME Init
  PROVE  ResultInv
<1>1. /\ kept = {} /\ weights = "frozen" /\ predictions.model = "frozen"
      /\ \A e \in Commands : run[e].step = "idle"
  BY DEF Init, Rests
<1> QED
  BY <1>1 DEF ResultInv, ScoreFits, ModelFits, ResultFits, ModelsFit, Taken

-----------------------------------------------------------------------------
(* Sealed confirmations: the commit of the protocol *)

(* HEAD and the tracked files are at one of four places in a row: the first   *)
(* commit edited, the first, the second, the second edited.  A change goes    *)
(* from one to the next or back, and it begins at the first commit.           *)
TreeFits == tree \in {head, 3}
Place == IF tree = head THEN head ELSE IF head = 1 THEN 0 ELSE 3
Away(place) == IF Place >= place THEN Place - place ELSE place - Place

Mixed(contract, commit) == contract # Contract(commit)

(* The contract was read at another place than the commit, and the tree found *)
(* clean after both.                                                          *)
MixedCosts(contract, commit) ==
  Mixed(contract, commit) =>
    IF contract = "first" THEN edits >= 1 + Away(2) ELSE edits >= 2 + Away(1)

(* What prepare has read on the way there. *)
PrepareCosts(e) ==
  LET E == run[e] IN
  /\ E.step = "bind" /\ E.duty = "prepare" /\ E.contract = "second" => (Place = 1 => edits >= 2)
  /\ E.step = "clean" /\ E.duty = "prepare" /\ Mixed(E.contract, E.commit) =>
       IF E.contract = "first" THEN edits >= 1 + Away(2)
       ELSE edits >= 1 /\ (Place # 0 => edits >= 2 + Away(1))
  /\ E.step \in {"inputs", "protocol"} => MixedCosts(E.contract, E.commit)

(* The assessor has found the contract of such a protocol in the repository. *)
BrokenCosts(least) == Mixed(protocol.contract, protocol.commit) => edits >= least

VerifiedCosts(least) ==
  /\ \A e \in Commands : run[e].step \in {"reproduce", "assessment"} => BrokenCosts(least)
  /\ "assessment" \in kept \ torn => BrokenCosts(least)

EditsFit ==
  /\ TreeFits /\ edits >= Away(1)
  /\ \A e \in Commands : PrepareCosts(e)
  /\ MixedCosts(protocol.contract, protocol.commit)

(* One command at a time: score itself has read the contract and HEAD, before. *)
OneAlive == \A e, d \in Commands : Alive(e) /\ Alive(d) => e = d

ScoreCosts(e) ==
  LET E == run[e]
      First == protocol.contract = "first" IN
  Mixed(protocol.contract, protocol.commit) =>
    /\ E.step = "bind" /\ E.duty = "score" /\ E.contract = protocol.contract =>
         IF First THEN edits >= 2 + Away(1) ELSE edits >= 3 /\ (Place = 1 => edits >= 4)
    /\ E.step = "clean" /\ E.duty = "score" /\ E.contract = protocol.contract =>
         IF First THEN edits >= 3 + Away(2) ELSE edits >= 3 /\ (Place # 0 => edits >= 4)
    /\ E.step \in {"load", "rollout", "predictions", "arrays", "identities", "verify"} =>
         IF First THEN edits >= 3 + Away(2) ELSE edits >= 4

AloneInv == OneAlive /\ \A e \in Commands : ScoreCosts(e)

LEMMA Places ==
  ASSUME TypeOK, TreeFits
  PROVE  /\ Place \in 0 .. 3 /\ (tree = head <=> Place \in {1, 2})
         /\ (head = 1 <=> Place \in {0, 1}) /\ (Contract(tree) = "first" <=> Place = 1)
         /\ (Contract(head) = "first" <=> Place \in {0, 1})
BY DEF TypeOK, TreeFits, Place, Contract, Commits, Trees

(* A change of the tree is a change of the place by one, and of nothing else. *)
LEMMA PlaceMoves ==
  ASSUME CampaignBounds, TypeOK, TreeFits, [Next]_vars
  PROVE  /\ TreeFits' /\ Place' \in 0 .. 3
         /\ ~ChangeTree => Place' = Place /\ edits' = edits
         /\ ChangeTree => /\ Place' \in {Place - 1, Place + 1} /\ edits' = edits + 1
                          /\ UNCHANGED <<run, protocol, kept, torn>>
<1>0. TypeOK' /\ TreeFits' => Place' \in 0 .. 3
  BY DEF TypeOK, TreeFits, Place, Commits, Trees
<1>1. CASE ChangeTree
  <2>1. TreeFits' /\ Place' \in {Place - 1, Place + 1}
    BY <1>1 DEF ChangeTree, TypeOK, TreeFits, Place, Commits, Trees
  <2> QED
    BY <1>0, <1>1, <2>1, StepTyped DEF ChangeTree, directory
<1>2. CASE ~ChangeTree
  <2>1. UNCHANGED <<head, tree, edits>>
    <3>1. CASE \E e \in Commands : Command(e) \/ Fails(e)
      BY <3>1 DEF Command, Fails, Start, Preflight, ReadContract, Bind, Clean, MakeInputs,
                  WriteProtocol, MakeCases, WriteFile, CheckTargets, Assess, WriteQuality,
                  WriteManifest, Load, Rollout, MakePredictions, WriteArrays, WriteIdentities,
                  Verify, Reproduce, WriteAssessment, Checks, Learns, Makes, Writes, repository
    <3>2. CASE SwapModel \/ DamageCaptures \/ UNCHANGED vars
      BY <3>2 DEF SwapModel, DamageCaptures, vars, repository
    <3> QED
      BY <1>2, <3>1, <3>2, OneActs
  <2>2. TreeFits' /\ Place' = Place
    BY <2>1 DEF TreeFits, Place
  <2> QED
    BY <1>0, <1>2, <2>1, <2>2, StepTyped
<1> QED
  BY <1>1, <1>2

LEMMA OnlyPrepareBinds ==
  ASSUME [Next]_vars, protocol' # protocol
  PROVE  \E e \in Commands : WriteProtocol(e)
<1>1. PICK e \in Commands : Command(e) \/ Fails(e)
  <2>1. ASSUME ChangeTree \/ SwapModel \/ DamageCaptures \/ UNCHANGED vars
        PROVE  FALSE
    BY <2>1 DEF ChangeTree, SwapModel, DamageCaptures, vars
  <2> QED
    BY <2>1, OneActs
<1> QED
  BY <1>1 DEF Command, Fails, Start, Preflight, ReadContract, Bind, Clean, MakeInputs,
              WriteArrays, MakeCases, WriteFile, CheckTargets, Assess, WriteQuality,
              WriteManifest, Load, Rollout, MakePredictions, WriteIdentities,
              Verify, Reproduce, WriteAssessment, Checks, Learns, Makes

(* What an execution knows when a check has passed. *)
LEMMA Learned ==
  ASSUME TypeOK, NEW e \in Commands, NEW knows \in Executions, NEW condition \in BOOLEAN,
         NEW next, next # "ended", Learns(e, knows, condition, next), run'[e].step = next
  PROVE  /\ condition
         /\ run'[e].duty = knows.duty /\ run'[e].contract = knows.contract
         /\ run'[e].commit = knows.commit
<1>1. run \in [Commands -> Executions] /\ Rests("ended").step = "ended"
  BY DEF TypeOK, Executions, Rests
<1>2. condition
  BY <1>1 DEF Learns, Goto
<1>3. run'[e] = [knows EXCEPT !.step = next]
  BY <1>1, <1>2 DEF Learns, Goto
<1> QED
  BY <1>2, <1>3 DEF Executions

(* The contract is read, HEAD is, and the tree is found clean. *)
LEMMA ArrivesAtBind ==
  ASSUME TypeOK, NEW e \in Commands, ReadContract(e), run'[e].step = "bind"
  PROVE  run'[e].contract = Contract(tree)
<1>1. PICK knows : knows = [run[e] EXCEPT !.contract = Contract(tree)]
  OBVIOUS
<1>2. knows \in Executions /\ knows.contract = Contract(tree)
  BY <1>1, Known DEF Executions, Contract, Contracts
<1>3. Learns(e, knows, At(e, "absent") => kept = {}, "bind")
  BY <1>1 DEF ReadContract
<1> QED
  BY <1>2, <1>3, Learned

LEMMA ArrivesAtClean ==
  ASSUME TypeOK, NEW e \in Commands, Bind(e), run'[e].step = "clean"
  PROVE  /\ run[e].step = "bind"
         /\ run'[e].duty = run[e].duty /\ run'[e].contract = run[e].contract
         /\ run'[e].commit = head
         /\ run[e].duty = "prepare" \/ protocol.commit = head
<1>1. PICK knows : knows = [run[e] EXCEPT !.commit = head]
  OBVIOUS
<1>2. /\ knows \in Executions /\ knows.duty = run[e].duty /\ knows.contract = run[e].contract
      /\ knows.commit = head
  BY <1>1, Known DEF Executions, TypeOK
<1>3. PICK holds \in BOOLEAN :
        holds = (run[e].duty = "prepare" \/ (Whole({"protocol"}) /\ protocol.commit = head))
  OBVIOUS
<1>4. Learns(e, knows, holds, "clean") /\ run[e].step = "bind"
  BY <1>1, <1>3 DEF Bind, At
<1> QED
  BY <1>2, <1>3, <1>4, Learned

LEMMA PassesClean ==
  ASSUME TypeOK, NEW e \in Commands, Clean(e), run'[e].step \in {"inputs", "load"}
  PROVE  /\ run[e].step = "clean" /\ tree = head
         /\ run'[e].contract = run[e].contract /\ run'[e].commit = run[e].commit
         /\ run'[e].step = "inputs" => run[e].duty = "prepare"
         /\ run'[e].step = "load" => /\ run[e].duty = "score"
                                     /\ run[e].contract = protocol.contract
<1>1. PICK next, holds : /\ next = AfterClean[run[e].duty]
                         /\ holds = (tree = head /\ (run[e].duty = "score" =>
                                                       run[e].contract = protocol.contract))
  OBVIOUS
<1>2. Learns(e, run[e], holds, next) /\ run[e].step = "clean" /\ holds \in BOOLEAN
  BY <1>1 DEF Clean, Checks, At
<1>3. run[e] \in Executions
  BY Known
<1>4. /\ next = "inputs" => run[e].duty = "prepare"
      /\ next = "load" => run[e].duty = "score"
      /\ next # "ended"
  BY <1>1, <1>3 DEF AfterClean, Executions, Duties
<1>5. run'[e].step = next
  BY <1>2, <1>3 DEF Learns, Goto, Rests, TypeOK, Executions
<1> QED
  BY <1>1, <1>2, <1>3, <1>4, <1>5, Learned

LEMMA PrepareCostsStep ==
  ASSUME CampaignBounds, TypeOK, EditsFit, [Next]_vars, NEW f \in Commands
  PROVE  PrepareCosts(f)'
<1>0. PrepareCosts(f) /\ TreeFits /\ edits >= Away(1) /\ edits \in Nat
  BY DEF EditsFit, TypeOK, CampaignBounds
<1>1. /\ Place \in 0 .. 3 /\ (tree = head <=> Place \in {1, 2})
      /\ (head = 1 <=> Place \in {0, 1}) /\ (Contract(tree) = "first" <=> Place = 1)
  BY <1>0, Places
<1>2. /\ Contract(tree) \in {"first", "second"}
      /\ Contract(head) = IF head = 1 THEN "first" ELSE "second"
  BY DEF Contract
<1>3. PICK p : p = Place
  OBVIOUS
<1>4. CASE ChangeTree
  <2>1. /\ Place' \in {p - 1, p + 1} /\ edits' = edits + 1 /\ run' = run
        /\ Place' \in 0 .. 3
    BY <1>0, <1>3, <1>4, PlaceMoves
  <2>2. PICK q : q = Place'
    OBVIOUS
  <2>3. p \in 0 .. 3 /\ q \in 0 .. 3 /\ q \in {p - 1, p + 1}
    BY <1>1, <1>3, <2>1, <2>2
  <2>4. /\ Away(1) \in Nat /\ Away(2) \in Nat /\ Away(1)' \in Nat /\ Away(2)' \in Nat
        /\ Away(1)' <= Away(1) + 1 /\ Away(2)' <= Away(2) + 1
        /\ q # 1 => Away(1)' >= 1
        /\ q = 1 => Away(1) = 1 /\ Away(1)' = 0
    <3>1. /\ Away(1) = (IF p >= 1 THEN p - 1 ELSE 1 - p)
          /\ Away(2) = (IF p >= 2 THEN p - 2 ELSE 2 - p)
      BY <1>3 DEF Away
    <3>2. /\ Away(1)' = (IF q >= 1 THEN q - 1 ELSE 1 - q)
          /\ Away(2)' = (IF q >= 2 THEN q - 2 ELSE 2 - q)
      BY <2>2 DEF Away
    <3> QED
      BY <2>3, <3>1, <3>2
  <2>5. PICK step, duty, contract, commit :
          step = run[f].step /\ duty = run[f].duty /\ contract = run[f].contract
            /\ commit = run[f].commit
    OBVIOUS
  <2>6. ASSUME step = "bind", duty = "prepare", contract = "second", q = 1
        PROVE  edits' >= 2
    BY <1>0, <2>1, <2>4, <2>6
  <2>7. ASSUME MixedCosts(contract, commit)
        PROVE  MixedCosts(contract, commit)'
    BY <1>0, <2>1, <2>4, <2>7 DEF MixedCosts, Mixed
  <2>8. ASSUME step = "clean", duty = "prepare", Mixed(contract, commit)
        PROVE  IF contract = "first" THEN edits' >= 1 + Away(2)'
               ELSE edits' >= 1 /\ (q # 0 => edits' >= 2 + Away(1)')
    <3>1. IF contract = "first" THEN edits >= 1 + Away(2)
          ELSE edits >= 1 /\ (p # 0 => edits >= 2 + Away(1))
      BY <1>0, <1>3, <2>5, <2>8 DEF PrepareCosts
    <3>2. p = 0 /\ q # 0 => q = 1
      BY <2>3
    <3>3. PICK a, b : a = Away(1) /\ b = Away(2)
      OBVIOUS
    <3>4. PICK c, d : c = Away(1)' /\ d = Away(2)'
      OBVIOUS
    <3>5. /\ a \in Nat /\ b \in Nat /\ c \in Nat /\ d \in Nat /\ c <= a + 1 /\ d <= b + 1
          /\ q = 1 => a = 1 /\ c = 0
      BY <2>4, <3>3, <3>4
    <3>6. IF contract = "first" THEN edits >= 1 + b
          ELSE edits >= 1 /\ (p # 0 => edits >= 2 + a)
      BY <3>1, <3>3
    <3>7. IF contract = "first" THEN edits' >= 1 + d
          ELSE edits' >= 1 /\ (q # 0 => edits' >= 2 + c)
      BY <1>0, <2>1, <2>3, <3>2, <3>5, <3>6
    <3> QED
      BY <3>4, <3>7
  <2>9. step \in {"inputs", "protocol"} => MixedCosts(contract, commit)'
    BY <1>0, <2>5, <2>7 DEF PrepareCosts
  <2>10. Mixed(contract, commit)' <=> Mixed(contract, commit)
    BY DEF Mixed
  <2> QED
    BY <2>1, <2>2, <2>5, <2>6, <2>8, <2>9, <2>10 DEF PrepareCosts
<1>5. CASE ~ChangeTree /\ run'[f] = run[f]
  <2>1. Place' = Place /\ edits' = edits
    BY <1>0, <1>5, PlaceMoves
  <2> QED
    BY <1>0, <1>5, <2>1 DEF PrepareCosts, MixedCosts, Mixed, Away
<1>6. CASE ~ChangeTree /\ run'[f] # run[f]
  <2>1. Place' = Place /\ edits' = edits
    BY <1>0, <1>6, PlaceMoves
  <2>2. Command(f) \/ Fails(f)
    BY <1>6, OneActs, Leads
  <2> DEFINE S == run'[f].step
  <2>3. CASE S = "bind"
    <3>1. CASE Start(f)
      <4>1. run'[f].duty \in {"collect", "qualify"}
        BY <2>3, <3>1, Known DEF Start, Goto, TypeOK, Executions, Duties
      <4> QED
        BY <2>3, <4>1 DEF PrepareCosts
    <3>2. CASE ReadContract(f)
      <4>1. run'[f].contract = Contract(tree)
        BY <2>3, <3>2, ArrivesAtBind
      <4> QED
        BY <1>1, <1>2, <2>1, <2>3, <4>1 DEF PrepareCosts
    <3> QED
      BY <2>2, <2>3, <3>1, <3>2, Leads
  <2>4. CASE S = "clean"
    <3>1. /\ run[f].step = "bind" /\ run'[f].duty = run[f].duty
          /\ run'[f].contract = run[f].contract /\ run'[f].commit = head
      BY <2>2, <2>4, Leads, ArrivesAtClean
    <3>2. PICK duty, contract : duty = run[f].duty /\ contract = run[f].contract
      OBVIOUS
    <3>3. contract \in {"first", "second"}
      BY <3>2, Known DEF Executions, Contracts
    <3>4. duty = "prepare" /\ contract = "second" => (p = 1 => edits >= 2)
      BY <1>0, <1>3, <3>1, <3>2 DEF PrepareCosts
    <3>5. edits >= IF p >= 1 THEN p - 1 ELSE 1 - p
      BY <1>0, <1>3 DEF Away
    <3>6. duty = "prepare" /\ contract # Contract(head) =>
            IF contract = "first" THEN edits >= 1 + (IF p >= 2 THEN p - 2 ELSE 2 - p)
            ELSE edits >= 1 /\ (p # 0 => edits >= 2 + (IF p >= 1 THEN p - 1 ELSE 1 - p))
      BY <1>0, <1>1, <1>2, <1>3, <3>3, <3>4, <3>5
    <3> QED
      BY <1>3, <2>1, <2>4, <3>1, <3>2, <3>6 DEF PrepareCosts, Mixed, Away
  <2>5. CASE S = "inputs"
    <3>1. /\ run[f].step = "clean" /\ tree = head /\ run[f].duty = "prepare"
          /\ run'[f].contract = run[f].contract /\ run'[f].commit = run[f].commit
      BY <2>2, <2>5, Leads, PassesClean
    <3>2. MixedCosts(run[f].contract, run[f].commit)
      BY <1>0, <1>1, <3>1 DEF PrepareCosts, MixedCosts
    <3> QED
      BY <2>1, <2>5, <3>1, <3>2 DEF PrepareCosts, MixedCosts, Mixed, Away
  <2>6. CASE S = "protocol"
    <3>1. MakeInputs(f)
      BY <2>2, <2>6, Leads
    <3>2. run[f].step = "inputs" /\ run' = [run EXCEPT ![f] = IF "inputs" \notin kept
                                              THEN [run[f] EXCEPT !.step = "protocol"]
                                              ELSE Rests("ended")]
      BY <3>1 DEF MakeInputs, Makes, At, Goto
    <3>3. run'[f].contract = run[f].contract /\ run'[f].commit = run[f].commit
      BY <2>6, <3>2, Known DEF TypeOK, Executions, Rests
    <3> QED
      BY <1>0, <2>1, <2>6, <3>2, <3>3 DEF PrepareCosts, MixedCosts, Mixed, Away
  <2>7. CASE S \notin {"bind", "clean", "inputs", "protocol"}
    BY <2>7 DEF PrepareCosts
  <2> QED
    BY <2>3, <2>4, <2>5, <2>6, <2>7
<1> QED
  BY <1>4, <1>5, <1>6

LEMMA EditsFitStep ==
  ASSUME CampaignBounds, TypeOK, EditsFit, [Next]_vars
  PROVE  EditsFit'
<1>0. TreeFits /\ edits >= Away(1) /\ edits \in Nat /\ Place \in 0 .. 3
  BY Places DEF EditsFit, TypeOK, CampaignBounds
<1>1. TreeFits'
  BY <1>0, PlaceMoves
<1>2. \A f \in Commands : PrepareCosts(f)'
  BY PrepareCostsStep
<1>3. edits' >= Away(1)'
  BY <1>0, PlaceMoves DEF Away
<1>4. MixedCosts(protocol.contract, protocol.commit)'
  <2>1. MixedCosts(protocol.contract, protocol.commit)
    BY DEF EditsFit
  <2>2. CASE protocol' = protocol
    BY <1>0, <2>1, <2>2, PlaceMoves DEF MixedCosts, Mixed, Away
  <2>3. CASE protocol' # protocol
    <3>1. PICK e \in Commands : WriteProtocol(e)
      BY <2>3, OnlyPrepareBinds
    <3>2. /\ run[e].step = "protocol" /\ UNCHANGED <<head, tree, edits>>
          /\ protocol' = [contract |-> run[e].contract, commit |-> run[e].commit]
      BY <3>1 DEF WriteProtocol, Writes, At, repository
    <3>3. MixedCosts(run[e].contract, run[e].commit)
      BY <3>2 DEF EditsFit, PrepareCosts
    <3>4. Place' = Place
      BY <3>2 DEF Place
    <3> QED
      BY <3>2, <3>3, <3>4 DEF MixedCosts, Mixed, Away
  <2> QED
    BY <2>2, <2>3
<1> QED
  BY <1>1, <1>2, <1>3, <1>4 DEF EditsFit

-----------------------------------------------------------------------------
(* Sealed confirmations: one command at a time *)

LEMMA OnlyAliveActs ==
  ASSUME NEW e \in Commands, Command(e) \/ Fails(e)
  PROVE  Start(e) \/ Alive(e)
BY DEF Command, Fails, Preflight, ReadContract, Bind, Clean, MakeInputs, WriteProtocol,
       MakeCases, WriteFile, CheckTargets, Assess, WriteQuality, WriteManifest, Load, Rollout,
       MakePredictions, WriteArrays, WriteIdentities, Verify, Reproduce, WriteAssessment,
       Makes, Writes, At, Alive, AfterWrite

LEMMA OneAliveStep ==
  ASSUME CampaignBounds, MaxAlive = 1, TypeOK, OneAlive, [Next]_vars
  PROVE  OneAlive'
<1>1. CASE run' = run
  BY <1>1 DEF OneAlive, Alive
<1>2. ASSUME NEW e \in Commands, Command(e) \/ Fails(e)
      PROVE  OneAlive'
  <2>1. \A f \in Commands : f # e => run'[f] = run[f]
    BY <1>2, Leads
  <2>2. CASE Alive(e)
    BY <2>1, <2>2 DEF OneAlive, Alive
  <2>3. CASE Start(e)
    <3> DEFINE Others == {d \in Commands : Alive(d)}
    <3>1. IsFiniteSet(Others) /\ Cardinality(Others) < 1
      BY <2>3, FS_Subset DEF Start, CampaignBounds
    <3>2. Others = {}
      BY <3>1, FS_CardinalityType, FS_EmptySet
    <3> QED
      BY <2>1, <3>2 DEF OneAlive, Alive
  <2> QED
    BY <1>2, <2>2, <2>3, OnlyAliveActs
<1> QED
  BY <1>1, <1>2, OneActs

LEMMA ScoreCostsStep ==
  ASSUME CampaignBounds, TypeOK, EditsFit, AloneInv, [Next]_vars, NEW f \in Commands
  PROVE  ScoreCosts(f)'
<1> DEFINE S == run'[f].step
           Counted == {"bind", "clean", "load", "rollout", "predictions", "arrays",
                       "identities", "verify"}
<1>0. /\ ScoreCosts(f) /\ TreeFits /\ edits >= Away(1) /\ edits \in Nat
      /\ MixedCosts(protocol.contract, protocol.commit)
  BY DEF AloneInv, EditsFit, TypeOK, CampaignBounds
<1>1. /\ Place \in 0 .. 3 /\ (tree = head <=> Place \in {1, 2})
      /\ (head = 1 <=> Place \in {0, 1}) /\ (Contract(tree) = "first" <=> Place = 1)
  BY <1>0, Places
<1>2. /\ Contract(tree) \in {"first", "second"}
      /\ Contract(head) = IF head = 1 THEN "first" ELSE "second"
      /\ protocol.contract \in {"first", "second"} /\ protocol.commit \in {1, 2}
      /\ Contract(protocol.commit) = IF protocol.commit = 1 THEN "first" ELSE "second"
  BY DEF Contract, TypeOK, Contracts, Commits
<1>3. PICK p, q : p = Place /\ q = Place'
  OBVIOUS
<1>4. PICK a, b, c, d : a = Away(1) /\ b = Away(2) /\ c = Away(1)' /\ d = Away(2)'
  OBVIOUS
<1>5. /\ a = (IF p >= 1 THEN p - 1 ELSE 1 - p) /\ b = (IF p >= 2 THEN p - 2 ELSE 2 - p)
      /\ p \in 0 .. 3
  BY <1>1, <1>3, <1>4 DEF Away
<1>6. /\ c = (IF q >= 1 THEN q - 1 ELSE 1 - q) /\ d = (IF q >= 2 THEN q - 2 ELSE 2 - q)
  BY <1>3, <1>4 DEF Away
<1>7. CASE S \notin Counted
  BY <1>7 DEF ScoreCosts
<1>8. CASE ChangeTree
  <2>1. /\ q \in {p - 1, p + 1} /\ q \in 0 .. 3 /\ edits' = edits + 1
        /\ run' = run /\ protocol' = protocol
    BY <1>0, <1>3, <1>8, PlaceMoves
  <2>2. /\ a \in Nat /\ b \in Nat /\ c \in Nat /\ d \in Nat /\ c <= a + 1 /\ d <= b + 1
        /\ q = 1 => a = 1 /\ c = 0
    BY <1>5, <1>6, <2>1
  <2>3. PICK step, duty, contract, first :
          /\ step = run[f].step /\ duty = run[f].duty /\ contract = run[f].contract
          /\ first = protocol.contract
    OBVIOUS
  <2>4. CASE ~Mixed(protocol.contract, protocol.commit)
    BY <2>1, <2>4 DEF ScoreCosts, Mixed
  <2>5. CASE Mixed(protocol.contract, protocol.commit)
    <3>1. /\ step = "bind" /\ duty = "score" /\ contract = first =>
               IF first = "first" THEN edits >= 2 + a ELSE edits >= 3 /\ (p = 1 => edits >= 4)
          /\ step = "clean" /\ duty = "score" /\ contract = first =>
               IF first = "first" THEN edits >= 3 + b ELSE edits >= 3 /\ (p # 0 => edits >= 4)
          /\ step \in {"load", "rollout", "predictions", "arrays", "identities", "verify"} =>
               IF first = "first" THEN edits >= 3 + b ELSE edits >= 4
      BY <1>0, <1>3, <1>4, <2>3, <2>5 DEF ScoreCosts
    <3>2. /\ step = "bind" /\ duty = "score" /\ contract = first =>
               IF first = "first" THEN edits' >= 2 + c ELSE edits' >= 3 /\ (q = 1 => edits' >= 4)
          /\ step = "clean" /\ duty = "score" /\ contract = first =>
               IF first = "first" THEN edits' >= 3 + d ELSE edits' >= 3 /\ (q # 0 => edits' >= 4)
          /\ step \in {"load", "rollout", "predictions", "arrays", "identities", "verify"} =>
               IF first = "first" THEN edits' >= 3 + d ELSE edits' >= 4
      BY <1>0, <2>1, <2>2, <3>1
    <3> QED
      BY <1>3, <1>4, <2>1, <2>3, <3>2 DEF ScoreCosts
  <2> QED
    BY <2>4, <2>5
<1>9. CASE ~ChangeTree /\ S \in Counted
  <2>1. Place' = Place /\ edits' = edits
    BY <1>0, <1>9, PlaceMoves
  <2>2. protocol' = protocol
    <3>1. SUFFICES ASSUME protocol' # protocol
                   PROVE  FALSE
      OBVIOUS
    <3>2. PICK e \in Commands : WriteProtocol(e)
      BY <3>1, OnlyPrepareBinds
    <3>3. run[e].step = "protocol" /\ Goto(e, "plan", run[e])
      BY <3>2 DEF WriteProtocol, Writes, At
    <3>4. run'[e].step = "plan" /\ \A g \in Commands : g # e => run'[g] = run[g]
      BY <3>3, Goes, Known DEF Steps, Files, WrittenOnce
    <3>5. f # e /\ run[f].step \in Counted
      BY <1>9, <3>4
    <3> QED
      BY <3>3, <3>5 DEF AloneInv, OneAlive, Alive
  <2>3. CASE run'[f] = run[f]
    BY <1>0, <2>1, <2>2, <2>3 DEF ScoreCosts, Mixed, Away
  <2>4. CASE run'[f] # run[f]
    <3>1. Command(f) \/ Fails(f)
      BY <2>4, OneActs, Leads
    <3>2. SUFFICES ASSUME Mixed(protocol.contract, protocol.commit)
                   PROVE  ScoreCosts(f)'
      BY <2>2 DEF ScoreCosts, Mixed
    <3>3. /\ protocol.contract = "first" => protocol.commit = 2 /\ edits >= 1 + b
          /\ protocol.contract = "second" => protocol.commit = 1 /\ edits >= 2 + a
      BY <1>0, <1>2, <1>4, <3>2 DEF Mixed, MixedCosts
    <3>4. CASE S = "bind"
      <4>1. CASE Start(f)
        <5>1. run'[f].duty \in {"collect", "qualify"}
          BY <3>4, <4>1, Known DEF Start, Goto, TypeOK, Executions, Duties
        <5> QED
          BY <3>4, <5>1 DEF ScoreCosts
      <4>2. CASE ReadContract(f)
        <5>1. run'[f].contract = Contract(tree)
          BY <3>4, <4>2, ArrivesAtBind
        <5>2. run'[f].contract = protocol.contract =>
                IF protocol.contract = "first" THEN edits >= 2 + a
                ELSE edits >= 3 /\ (p = 1 => edits >= 4)
          BY <1>0, <1>1, <1>2, <1>3, <1>5, <3>3, <5>1
        <5> QED
          BY <1>3, <1>4, <2>1, <2>2, <3>4, <5>2 DEF ScoreCosts, Away
      <4> QED
        BY <3>1, <3>4, <4>1, <4>2, Leads
    <3>5. CASE S = "clean"
      <4>1. /\ run[f].step = "bind" /\ run'[f].duty = run[f].duty
            /\ run'[f].contract = run[f].contract
            /\ run[f].duty = "prepare" \/ protocol.commit = head
        BY <3>1, <3>5, Leads, ArrivesAtClean
      <4>2. run[f].duty = "score" /\ run[f].contract = protocol.contract =>
              IF protocol.contract = "first" THEN edits >= 2 + a
              ELSE edits >= 3 /\ (p = 1 => edits >= 4)
        BY <1>0, <1>3, <1>4, <3>2, <4>1 DEF ScoreCosts
      <4>3. run[f].duty = "score" /\ run[f].contract = protocol.contract =>
              IF protocol.contract = "first" THEN edits >= 3 + b
              ELSE edits >= 3 /\ (p # 0 => edits >= 4)
        BY <1>0, <1>1, <1>2, <1>3, <1>5, <3>3, <4>1, <4>2
      <4> QED
        BY <1>3, <1>4, <2>1, <2>2, <3>5, <4>1, <4>3 DEF ScoreCosts, Away
    <3>6. CASE S = "load"
      <4>1. /\ run[f].step = "clean" /\ tree = head
            /\ run[f].duty = "score" /\ run[f].contract = protocol.contract
        BY <3>1, <3>6, Leads, PassesClean
      <4>2. IF protocol.contract = "first" THEN edits >= 3 + b ELSE edits >= 4
        BY <1>0, <1>1, <1>3, <1>4, <3>2, <4>1 DEF ScoreCosts
      <4> QED
        BY <1>4, <2>1, <2>2, <3>6, <4>2 DEF ScoreCosts, Away
    <3>7. CASE S \in {"rollout", "predictions", "arrays", "identities", "verify"}
      <4>1. run[f].step \in {"load", "rollout", "predictions", "arrays", "identities"}
        BY <3>1, <3>7, Leads DEF Load, Rollout, MakePredictions, Makes, WriteArrays,
                                 WriteIdentities, Writes, At
      <4>2. IF protocol.contract = "first" THEN edits >= 3 + b ELSE edits >= 4
        BY <1>0, <1>4, <3>2, <4>1 DEF ScoreCosts
      <4> QED
        BY <1>4, <2>1, <2>2, <3>7, <4>2 DEF ScoreCosts, Away
    <3> QED
      BY <1>9, <3>4, <3>5, <3>6, <3>7
  <2> QED
    BY <2>3, <2>4
<1> QED
  BY <1>7, <1>8, <1>9

(* What the assessor finds out about the protocol holds to the end. *)
LEMMA VerifiedStep ==
  ASSUME CampaignBounds, TypeOK, OneWriter, ResultInv, EditsFit, NEW least \in Nat,
         VerifiedCosts(least), [Next]_vars,
         \A e \in Commands : run[e].step = "verify" /\ Contract(tree) = protocol.contract
                               => BrokenCosts(least)
  PROVE  VerifiedCosts(least)'
<1>1. edits \in Nat /\ edits' \in Nat /\ edits' >= edits
  BY StepTyped, PlaceMoves DEF TypeOK, EditsFit, CampaignBounds
<1>2. ASSUME "protocol" \in kept, BrokenCosts(least)
      PROVE  BrokenCosts(least)'
  <2>1. protocol' = protocol
    BY <1>2, WrittenStays
  <2> QED
    BY <1>1, <1>2, <2>1 DEF BrokenCosts, Mixed
<1>3. ASSUME NEW f \in Commands, run'[f].step \in {"reproduce", "assessment"}
      PROVE  BrokenCosts(least)'
  <2>1. CASE run[f].step \in {"reproduce", "assessment"}
    <3>1. "protocol" \in kept /\ BrokenCosts(least)
      BY <2>1 DEF ResultInv, ScoreFits, Whole, VerifiedCosts
    <3> QED
      BY <1>2, <3>1
  <2>2. CASE run[f].step \notin {"reproduce", "assessment"}
    <3>1. run'[f] # run[f]
      BY <1>3, <2>2
    <3>2. Command(f) \/ Fails(f)
      BY <3>1, OneActs, Leads
    <3>3. Verify(f) /\ run'[f].step = "reproduce"
      BY <1>3, <2>2, <3>2, Leads DEF Reproduce, At
    <3>4. PICK knows : knows = [run[f] EXCEPT !.contract = Contract(tree)]
      OBVIOUS
    <3>5. run' = [run EXCEPT ![f] = IF Identified(Contract(tree))
                                    THEN [knows EXCEPT !.step = "reproduce"]
                                    ELSE Rests("ended")]
      BY <3>3, <3>4 DEF Verify, Learns, Goto
    <3>6. Identified(Contract(tree)) /\ run[f].step = "verify"
      BY <3>3, <3>5 DEF TypeOK, Rests, Verify, At
    <3>7. "protocol" \in kept /\ BrokenCosts(least)
      BY <3>6 DEF Identified, Whole
    <3> QED
      BY <1>2, <3>7
  <2> QED
    BY <2>1, <2>2
<1>4. ASSUME "assessment" \in kept' \ torn'
      PROVE  BrokenCosts(least)'
  <2>1. CASE "assessment" \in kept \ torn
    <3>1. "protocol" \in kept /\ BrokenCosts(least)
      BY <2>1 DEF ResultInv, ResultFits, Whole, VerifiedCosts
    <3> QED
      BY <1>2, <3>1
  <2>2. CASE "assessment" \notin kept \ torn
    <3>1. PICK e \in Commands : WriteAssessment(e)
      BY <1>4, <2>2, AssessmentAppears
    <3>2. run[e].step = "assessment"
      BY <3>1 DEF WriteAssessment, Writes, At
    <3>3. "protocol" \in kept /\ BrokenCosts(least)
      BY <3>2 DEF ResultInv, ScoreFits, Whole, VerifiedCosts
    <3> QED
      BY <1>2, <3>3
  <2> QED
    BY <2>1, <2>2
<1> QED
  BY <1>3, <1>4 DEF VerifiedCosts

LEMMA InitEdits ==
  ASSUME CampaignBounds, Init
  PROVE  EditsFit /\ AloneInv /\ VerifiedCosts(2) /\ VerifiedCosts(4)
<1>1. /\ head = 1 /\ tree = 1 /\ edits = 0 /\ kept = {} /\ \A e \in Commands : run[e].step = "idle"
      /\ protocol.contract = "first" /\ protocol.commit = 1
  BY DEF Init, Rests
<1>2. Place = 1 /\ Away(1) = 0 /\ ~Mixed(protocol.contract, protocol.commit)
  BY <1>1 DEF Place, Away, Mixed, Contract
<1> QED
  BY <1>1, <1>2 DEF EditsFit, TreeFits, PrepareCosts, MixedCosts, AloneInv, OneAlive, Alive,
                    ScoreCosts, VerifiedCosts

LEMMA VerifiedTwice ==
  ASSUME CampaignBounds, TypeOK, OneWriter, ResultInv, EditsFit, VerifiedCosts(2), [Next]_vars
  PROVE  VerifiedCosts(2)'
<1>1. Contract(tree) = protocol.contract => BrokenCosts(2)
  <2>1. /\ Place \in 0 .. 3 /\ (Contract(tree) = "first" <=> Place = 1) /\ edits \in Nat
        /\ protocol.contract \in {"first", "second"}
    BY Places DEF EditsFit, TypeOK, CampaignBounds, Contracts
  <2> QED
    BY <2>1 DEF EditsFit, BrokenCosts, MixedCosts, Away
<1> QED
  BY <1>1, VerifiedStep

LEMMA VerifiedFourTimes ==
  ASSUME CampaignBounds, TypeOK, OneWriter, ResultInv, EditsFit, AloneInv, VerifiedCosts(4),
         [Next]_vars
  PROVE  VerifiedCosts(4)'
<1>1. ASSUME NEW e \in Commands, run[e].step = "verify", Contract(tree) = protocol.contract
      PROVE  BrokenCosts(4)
  <2>1. /\ Place \in 0 .. 3 /\ (Contract(tree) = "first" <=> Place = 1) /\ edits \in Nat
    BY Places DEF EditsFit, TypeOK, CampaignBounds
  <2>2. ScoreCosts(e)
    BY DEF AloneInv
  <2> QED
    BY <1>1, <2>1, <2>2 DEF BrokenCosts, ScoreCosts, Away
<1> QED
  BY <1>1, VerifiedStep

LEMMA ResultIsSealedBy ==
  ASSUME ResultInv, \/ VerifiedCosts(4)
                    \/ VerifiedCosts(2) /\ edits < 2, edits \in Nat, swaps \in Nat, TypeOK
  PROVE  ResultIsSealed
<1>1. SUFFICES ASSUME "assessment" \in kept \ torn
               PROVE  /\ result = protocol.contract
                      /\ edits < 4 => protocol.contract = Contract(protocol.commit)
                      /\ swaps < 3 => predictions.model = "frozen"
                      /\ grade[predictions.evidence]
                      /\ Whole({"protocol", "plan", "schema", "attestation", "arrays",
                                "identities"})
  BY DEF ResultIsSealed
<1>2. edits < 4 => protocol.contract = Contract(protocol.commit)
  BY <1>1 DEF VerifiedCosts, BrokenCosts, Mixed
<1>3. swaps < 3 => predictions.model = "frozen"
  BY <1>1 DEF ResultInv, ModelsFit, TypeOK, Models
<1> QED
  BY <1>1, <1>2, <1>3 DEF ResultInv, ResultFits

(* A confirmation result is sealed (score_confirmation and its assessor): it   *)
(* names the contract of the campaign and of its commit, its predictions are  *)
(* of the frozen model and of captures that passed, and what they rest on is  *)
(* complete.  One command at a time, or at most one change of the tracked     *)
(* files: with two changes and two commands at once, score may read the       *)
(* contract before the protocol is written.                                   *)
THEOREM ResultsAreSealed ==
  ASSUME CampaignBounds, MaxAlive = 1 \/ MaxEdits < 2
  PROVE  Spec => []ResultIsSealed
<1> DEFINE Base == TypeOK /\ OneWriter /\ ResultInv /\ EditsFit
<1>1. Init => Base /\ AloneInv /\ VerifiedCosts(2) /\ VerifiedCosts(4)
  BY InitTyped, InitOneWriter, InitResult, InitEdits
<1>2. Base /\ [Next]_vars => Base'
  BY StepTyped, OneWriterStep, ResultStep, EditsFitStep
<1>3. Base => edits \in 0 .. MaxEdits /\ edits \in Nat /\ swaps \in Nat
  BY DEF TypeOK, CampaignBounds
<1>4. CASE MaxAlive = 1
  <2>1. Base /\ AloneInv /\ VerifiedCosts(4) /\ [Next]_vars => AloneInv' /\ VerifiedCosts(4)'
    BY <1>4, OneAliveStep, ScoreCostsStep, VerifiedFourTimes DEF AloneInv
  <2>2. Base /\ VerifiedCosts(4) => ResultIsSealed
    BY <1>3, ResultIsSealedBy
  <2> QED
    BY <1>1, <1>2, <2>1, <2>2, PTL DEF Spec
<1>5. CASE MaxEdits < 2
  <2>1. Base /\ VerifiedCosts(2) /\ [Next]_vars => VerifiedCosts(2)'
    BY VerifiedTwice
  <2>2. Base /\ VerifiedCosts(2) => ResultIsSealed
    <3>1. Base => edits < 2
      BY <1>3, <1>5 DEF CampaignBounds
    <3> QED
      BY <1>3, <3>1, ResultIsSealedBy
  <2> QED
    BY <1>1, <1>2, <2>1, <2>2, PTL DEF Spec
<1> QED
  BY <1>4, <1>5

(* Whatever overlaps and changes, a result names the contract of the campaign, *)
(* and rests on complete evidence that passed and on what score itself wrote.  *)
THEOREM ResultsRestOnTheCampaign ==
  ASSUME CampaignBounds
  PROVE  Spec => []ResultFits
<1>1. Init => TypeOK /\ OneWriter /\ ResultInv
  BY InitTyped, InitOneWriter, InitResult
<1>2. TypeOK /\ OneWriter /\ ResultInv /\ [Next]_vars => TypeOK' /\ OneWriter' /\ ResultInv'
  BY StepTyped, OneWriterStep, ResultStep
<1>3. ResultInv => ResultFits
  BY DEF ResultInv
<1> QED
  BY <1>1, <1>2, <1>3, PTL DEF Spec

-----------------------------------------------------------------------------
(* Selections by frozen models share the repository, the commands and what is  *)
(* kept with the confirmations; these are theirs.                             *)
VARIABLES fitSource, staging, frozen, freeze, bindings, qualified, disturbed

Selection == INSTANCE FrozenSelection

(* Selections: types *)

Selectors == [duty : Selection!Duties, step : Selection!Steps,
              manifest : Selection!Manifests, corpus : Selection!Corpora,
              loaded : Selection!Versions, model : {"frozen", "other"}]

Ended == {e \in Commands : run[e].step = "ended"}

(* A command publishes one freeze at most, and ends with it. *)
SelectionTyped == Selection!TypeOK /\ freeze.id <= Cardinality(Ended)

(* The module is instantiated with all that it extends. *)
LEMMA SameCardinality ==
  ASSUME NEW S
  PROVE  Selection!Cardinality(S) = Cardinality(S)
BY DEF Selection!Cardinality, Cardinality

LEMMA FreezeNumbers ==
  ASSUME CampaignBounds
  PROVE  /\ Cardinality(Commands) \in Nat
         /\ Selection!Freezes = 0 .. Cardinality(Commands) /\ 0 \in Selection!Freezes
<1>1. Cardinality(Commands) \in Nat
  BY FS_CardinalityType DEF CampaignBounds
<1>2. Selection!Freezes = 0 .. Cardinality(Commands)
  BY SameCardinality DEF Selection!Freezes
<1> QED
  BY <1>1, <1>2

LEMMA EndedIsFinite ==
  ASSUME CampaignBounds
  PROVE  IsFiniteSet(Ended) /\ Cardinality(Ended) \in Nat
BY FS_CardinalityType, FS_Subset DEF CampaignBounds, Ended

LEMMA SelectionRests ==
  ASSUME CampaignBounds, NEW where \in Selection!Steps
  PROVE  Selection!Rests(where) \in Selectors /\ Selection!Rests(where).step = where
<1>1. 0 \in Selection!Freezes
  BY FreezeNumbers
<1>2. Selection!NoManifest \in Selection!Manifests
  BY <1>1 DEF Selection!NoManifest, Selection!Manifests, Selection!Protocols,
              Selection!Commits, Selection!Trees
<1>3. Selection!NoCorpus \in Selection!Corpora /\ 0 \in Selection!Versions
  BY DEF CampaignBounds, Selection!NoCorpus, Selection!Corpora, Selection!Versions
<1> QED
  BY <1>2, <1>3 DEF Selection!Rests, Selectors, Selection!Duties

LEMMA InitSelectionTyped ==
  ASSUME CampaignBounds, Selection!Init
  PROVE  SelectionTyped
<1>1. run \in [Commands -> Selectors]
  BY SelectionRests DEF Selection!Init, Selection!Steps
<1>2. 0 \in Selection!Freezes /\ Cardinality(Ended) \in Nat
  BY FreezeNumbers, EndedIsFinite
<1>3. freeze \in Selection!Manifests /\ freeze.id = 0
  BY <1>2 DEF Selection!Init, Selection!NoManifest, Selection!Manifests, Selection!Protocols,
              Selection!Commits, Selection!Trees
<1>4. qualified \in Selection!Corpora /\ 0 \in Selection!Versions
  BY DEF CampaignBounds, Selection!Init, Selection!NoCorpus, Selection!Corpora,
         Selection!Versions
<1>5. predictions \in [model : {"frozen", "other"}, evidence : Selection!Versions,
                       freeze : Selection!Freezes, corpus : Selection!Corpora]
  BY <1>2, <1>4 DEF Selection!Init
<1>6. bindings \in [freeze : Selection!Freezes, protocol : Selection!Protocols]
  BY <1>2 DEF Selection!Init, Selection!Protocols
<1>7. /\ fitSource = "pinned" /\ weights = "frozen" /\ head = 1 /\ tree = 1
      /\ staging = {} /\ frozen = {} /\ kept = {} /\ torn = {} /\ disturbed = FALSE
      /\ evidence = 0 /\ grade \in [Selection!Versions -> BOOLEAN]
      /\ edits = 0 /\ swaps = 0 /\ faults = 0
  BY DEF Selection!Init
<1>8. Selection!TypeOK
  <2>1. head \in Selection!Commits /\ tree \in Selection!Trees
    BY <1>7 DEF Selection!Commits, Selection!Trees
  <2>2. edits \in 0 .. MaxEdits /\ swaps \in 0 .. MaxSwaps /\ faults \in 0 .. MaxFaults
    BY <1>7 DEF CampaignBounds
  <2>3. /\ staging \subseteq Selection!FreezeFiles /\ frozen \subseteq Selection!FreezeFiles
        /\ kept \subseteq Selection!Files /\ torn \subseteq kept \ Selection!MadeOnce
        /\ fitSource \in {"pinned", "other"} /\ weights \in {"frozen", "other"}
        /\ disturbed \in BOOLEAN
    BY <1>7
  <2> QED
    BY <1>1, <1>3, <1>4, <1>5, <1>6, <1>7, <2>1, <2>2, <2>3 DEF Selection!TypeOK, Selectors
<1> QED
  BY <1>2, <1>3, <1>8 DEF SelectionTyped

LEMMA SelectionGoes ==
  ASSUME CampaignBounds, Selection!TypeOK, NEW e \in Commands, NEW next \in Selection!Steps,
         NEW knows \in Selectors, Selection!Goto(e, next, knows)
  PROVE  /\ run' \in [Commands -> Selectors]
         /\ \A f \in Commands : f # e => run'[f] = run[f]
         /\ run'[e].step = next
         /\ next # "ended" => run'[e] = [knows EXCEPT !.step = next]
<1>1. PICK r : r = IF next = "ended" THEN Selection!Rests("ended")
                                     ELSE [knows EXCEPT !.step = next]
  OBVIOUS
<1>2. r \in Selectors /\ r.step = next
  BY <1>1, SelectionRests DEF Selectors
<1>3. run' = [run EXCEPT ![e] = r]
  BY <1>1 DEF Selection!Goto
<1>4. run \in [Commands -> Selectors]
  BY DEF Selection!TypeOK, Selectors
<1> QED
  BY <1>1, <1>2, <1>3, <1>4

LEMMA SelectionKnown ==
  ASSUME Selection!TypeOK, NEW e \in Commands
  PROVE  run[e] \in Selectors
BY DEF Selection!TypeOK, Selectors

(* A step that only reads. *)
LEMMA SelectionLearns ==
  ASSUME CampaignBounds, Selection!TypeOK, NEW e \in Commands, NEW knows \in Selectors,
         NEW condition \in BOOLEAN, NEW next \in Selection!Steps,
         Selection!Learns(e, knows, condition, next)
  PROVE  Selection!TypeOK'
<1>1. PICK to : to = IF condition THEN next ELSE "ended"
  OBVIOUS
<1>2. to \in Selection!Steps /\ Selection!Goto(e, to, knows)
  BY <1>1 DEF Selection!Steps, Selection!Learns
<1>3. run' \in [Commands -> Selectors]
  BY <1>2, SelectionGoes
<1> QED
  BY <1>3 DEF Selection!Learns, Selection!TypeOK, Selectors, Selection!repository,
              Selection!ignored, Selection!freezing, Selection!campaign, Selection!captured

LEMMA SelectionMakes ==
  ASSUME CampaignBounds, Selection!TypeOK, NEW e \in Commands, NEW name \in Selection!MadeOnce,
         NEW possible \in BOOLEAN, NEW next \in Selection!Steps,
         Selection!Makes(e, name, possible, next)
  PROVE  Selection!TypeOK'
<1>1. PICK to : to = IF possible /\ name \notin kept THEN next ELSE "ended"
  OBVIOUS
<1>2. to \in Selection!Steps /\ Selection!Goto(e, to, run[e])
  BY <1>1 DEF Selection!Steps, Selection!Makes
<1>3. run' \in [Commands -> Selectors]
  BY <1>2, SelectionGoes, SelectionKnown
<1>4. kept \subseteq kept' /\ kept' \subseteq Selection!Files
  BY DEF Selection!Makes, Selection!TypeOK, Selection!Files
<1> QED
  BY <1>3, <1>4 DEF Selection!Makes, Selection!TypeOK, Selectors, Selection!repository,
                    Selection!ignored, Selection!freezing, Selection!captured

(* What a step that writes leaves of the types. *)
LEMMA SelectionWrites ==
  ASSUME CampaignBounds, Selection!TypeOK, NEW e \in Commands,
         NEW name \in Selection!WrittenOnce \cup {"qualified"}, NEW next \in Selection!Steps,
         Selection!Writes(e, name, next)
  PROVE  /\ run' \in [Commands -> Selectors]
         /\ kept' \subseteq Selection!Files /\ torn' \subseteq kept' \ Selection!MadeOnce
<1>1. run' \in [Commands -> Selectors]
  BY SelectionGoes, SelectionKnown DEF Selection!Writes
<1>2. kept' \subseteq Selection!Files /\ torn' \subseteq kept' \ Selection!MadeOnce
  BY DEF Selection!Writes, Selection!TypeOK, Selection!Files, Selection!WrittenOnce,
         Selection!MadeOnce
<1> QED
  BY <1>1, <1>2

(* A step is one of an execution, or leaves all executions where they are. *)
LEMMA OneSelects ==
  ASSUME [Selection!Next]_Selection!vars
  PROVE  \/ \E e \in Commands : Selection!Command(e) \/ Selection!Fails(e)
         \/ /\ \/ Selection!ChangeTree \/ Selection!ChangeIgnored
               \/ Selection!DamageCaptures \/ UNCHANGED Selection!vars
            /\ run' = run
BY DEF Selection!Next, Selection!ChangeTree, Selection!ChangeIgnored,
       Selection!DamageCaptures, Selection!vars

(* Where the steps of an execution lead. *)
LEMMA SelectionLeads ==
  ASSUME CampaignBounds, Selection!TypeOK, NEW e \in Commands,
         Selection!Command(e) \/ Selection!Fails(e)
  PROVE  /\ \A f \in Commands : f # e => run'[f] = run[f]
         /\ run[e].step # "ended"
         /\ run'[e].step = "bind" => Selection!Preflight(e)
         /\ run'[e].step = "commit" => Selection!Preflight(e)
         /\ run'[e].step = "absent" => Selection!ReadCommit(e)
         /\ run'[e].step = "fit" => Selection!CheckOutput(e)
         /\ run'[e].step = "staging" => Selection!ReadFit(e)
         /\ run'[e].step = "models" => Selection!MakeStaging(e)
         /\ run'[e].step = "parity" => Selection!WriteStaged(e, "models")
         /\ run'[e].step = "sources" => Selection!VerifyRestore(e)
         /\ run'[e].step = "manifest" => Selection!HashSources(e)
         /\ run'[e].step = "outcome" => Selection!WriteStaged(e, "manifest")
         /\ run'[e].step = "rename" => Selection!WriteStaged(e, "outcome")
         /\ run'[e].step = "inputs" => Selection!Bind(e)
         /\ run'[e].step = "protocol" => Selection!MakeInputs(e)
         /\ run'[e].step = "manifests" => Selection!WriteProtocol(e)
         /\ run'[e].step = "prepared" => Selection!WriteFile(e, "manifests")
         /\ run'[e].step = "captures" => Selection!CheckUnclaimed(e)
         /\ run'[e].step = "attestation" => Selection!MakeCaptures(e)
         /\ run'[e].step = "gates" => Selection!ReadProtocol(e)
         /\ run'[e].step = "hashes" => Selection!AssessPairs(e)
         /\ run'[e].step = "decision" => Selection!HashCaptures(e)
         /\ run'[e].step = "qualified" => Selection!Decide(e)
         /\ run'[e].step = "bound" => Selection!VerifySources(e)
         /\ run'[e].step = "load" => Selection!CheckBound(e)
         /\ run'[e].step = "rollout" => Selection!LoadCaptures(e)
         /\ run'[e].step = "predictions" => Selection!Rollout(e)
         /\ run'[e].step = "arrays" => Selection!MakePredictions(e)
         /\ run'[e].step = "identities" => Selection!WriteArrays(e)
         /\ run'[e].step = "corpus" => Selection!WriteIdentities(e)
         /\ run'[e].step = "artifacts" => Selection!AssessCorpus(e)
         /\ run'[e].step = "assessment" => Selection!AssessArtifacts(e)
<1>0. run \in [Commands -> Selectors] /\ run[e].duty \in Selection!Duties
  BY DEF Selection!TypeOK, Selectors
<1> DEFINE To(steps) == /\ run'[e].step \in steps \cup {"ended"}
                        /\ \A f \in Commands : f # e => run'[f] = run[f]
                        /\ run[e].step # "ended"
<1> USE <1>0 DEF To, Selection!Goto, Selection!Learns, Selection!Checks, Selection!Rests,
                Selection!Makes, Selection!Writes, Selection!At
<1>1. CASE Selection!Start(e)
  <2>1. PICK command \in Selection!Duties :
          Selection!Goto(e, Selection!FirstStep[command], [run[e] EXCEPT !.duty = command])
    BY <1>1 DEF Selection!Start
  <2>2. PICK next : next = Selection!FirstStep[command]
    OBVIOUS
  <2>3. next \in {"preflight", "unclaimed", "contract", "verify"}
    BY <2>2 DEF Selection!FirstStep, Selection!Duties
  <2>4. To({"preflight", "unclaimed", "contract", "verify"})
    <3>1. PICK knows \in Selectors : knows = [run[e] EXCEPT !.duty = command]
      BY <2>1 DEF Selectors
    <3>2. run' = [run EXCEPT ![e] = [knows EXCEPT !.step = next]]
      BY <2>1, <2>2, <2>3, <3>1
    <3>3. run'[e].step = next
      BY <3>2 DEF Selectors
    <3>4. run[e].step = "idle" /\ \A f \in Commands : f # e => run'[f] = run[f]
      BY <1>1, <3>2 DEF Selection!Start
    <3> QED
      BY <2>3, <3>3, <3>4
  <2> QED
    BY <1>1, <2>4
<1>2. CASE Selection!Preflight(e)
  <2>1. To({"commit", "bind"})
    BY <1>2 DEF Selection!Preflight, Selectors
  <2> QED
    BY <1>2, <2>1
<1>3. CASE Selection!ReadCommit(e)
  <2>1. To({"absent"})
    BY <1>3 DEF Selection!ReadCommit, Selectors
  <2> QED
    BY <1>3, <2>1
<1>4. CASE Selection!CheckOutput(e)
  <2>1. To({"fit"})
    BY <1>4 DEF Selection!CheckOutput, Selectors
  <2> QED
    BY <1>4, <2>1
<1>5. CASE Selection!ReadFit(e)
  <2>1. To({"staging"})
    BY <1>5 DEF Selection!ReadFit, Selectors
  <2> QED
    BY <1>5, <2>1
<1>6. CASE Selection!MakeStaging(e)
  <2>1. To({"models"})
    BY <1>6 DEF Selection!MakeStaging, Selectors
  <2> QED
    BY <1>6, <2>1
<1>7. CASE Selection!VerifyRestore(e)
  <2>1. To({"sources"})
    BY <1>7 DEF Selection!VerifyRestore, Selectors
  <2> QED
    BY <1>7, <2>1
<1>8. CASE Selection!HashSources(e)
  <2>1. To({"manifest"})
    BY <1>8 DEF Selection!HashSources, Selectors
  <2> QED
    BY <1>8, <2>1
<1>9. CASE Selection!Publish(e)
  <2>1. To({"ended"})
    BY <1>9 DEF Selection!Publish, Selectors
  <2> QED
    BY <1>9, <2>1
<1>10. CASE \E name \in DOMAIN Selection!AfterStaged : Selection!WriteStaged(e, name)
  <2>1. PICK name \in DOMAIN Selection!AfterStaged : Selection!WriteStaged(e, name)
    BY <1>10
  <2>2. PICK next : next = Selection!AfterStaged[name]
    OBVIOUS
  <2>3. <<name, next>> \in {<<"models", "parity">>, <<"manifest", "outcome">>,
                            <<"outcome", "rename">>}
    BY <2>2 DEF Selection!AfterStaged
  <2>4. To({next})
    BY <2>1, <2>2, <2>3 DEF Selection!WriteStaged, Selectors
  <2> QED
    BY <2>1, <2>3, <2>4
<1>11. CASE Selection!Bind(e)
  <2>1. To({"inputs"})
    BY <1>11 DEF Selection!Bind, Selectors
  <2> QED
    BY <1>11, <2>1
<1>12. CASE Selection!MakeInputs(e)
  <2>1. To({"protocol"})
    BY <1>12 DEF Selection!MakeInputs, Selectors
  <2> QED
    BY <1>12, <2>1
<1>13. CASE Selection!WriteProtocol(e)
  <2>1. To({"manifests"})
    BY <1>13 DEF Selection!WriteProtocol, Selectors
  <2> QED
    BY <1>13, <2>1
<1>14. CASE \E name \in DOMAIN Selection!AfterWrite : Selection!WriteFile(e, name)
  <2>1. PICK name \in DOMAIN Selection!AfterWrite : Selection!WriteFile(e, name)
    BY <1>14
  <2>2. PICK next : next = Selection!AfterWrite[name]
    OBVIOUS
  <2>3. next = "ended" \/ (name = "manifests" /\ next = "prepared")
    BY <2>2 DEF Selection!AfterWrite
  <2>4. To({next})
    BY <2>1, <2>2, <2>3 DEF Selection!WriteFile, Selectors, Selection!AfterWrite
  <2> QED
    BY <2>1, <2>3, <2>4
<1>15. CASE Selection!CheckUnclaimed(e)
  <2>1. To({"captures"})
    BY <1>15 DEF Selection!CheckUnclaimed, Selectors
  <2> QED
    BY <1>15, <2>1
<1>16. CASE Selection!MakeCaptures(e)
  <2>1. To({"attestation"})
    BY <1>16 DEF Selection!MakeCaptures, Selectors
  <2> QED
    BY <1>16, <2>1
<1>17. CASE Selection!ReadProtocol(e)
  <2>1. To({"gates"})
    BY <1>17 DEF Selection!ReadProtocol, Selectors
  <2> QED
    BY <1>17, <2>1
<1>18. CASE Selection!AssessPairs(e)
  <2>1. To({"hashes"})
    BY <1>18 DEF Selection!AssessPairs, Selectors
  <2> QED
    BY <1>18, <2>1
<1>19. CASE Selection!HashCaptures(e)
  <2>1. To({"decision"})
    BY <1>19 DEF Selection!HashCaptures, Selectors
  <2> QED
    BY <1>19, <2>1
<1>20. CASE Selection!Decide(e)
  <2>1. To({"qualified"})
    BY <1>20 DEF Selection!Decide, Selectors
  <2> QED
    BY <1>20, <2>1
<1>21. CASE Selection!WriteQualified(e)
  <2>1. To({"ended"})
    BY <1>21 DEF Selection!WriteQualified, Selectors
  <2> QED
    BY <1>21, <2>1
<1>22. CASE Selection!VerifySources(e)
  <2>1. To({"bound"})
    BY <1>22 DEF Selection!VerifySources, Selectors
  <2> QED
    BY <1>22, <2>1
<1>23. CASE Selection!CheckBound(e)
  <2>1. To({"load"})
    BY <1>23 DEF Selection!CheckBound, Selectors
  <2> QED
    BY <1>23, <2>1
<1>24. CASE Selection!LoadCaptures(e)
  <2>1. To({"rollout"})
    BY <1>24 DEF Selection!LoadCaptures, Selectors
  <2> QED
    BY <1>24, <2>1
<1>25. CASE Selection!Rollout(e)
  <2>1. To({"predictions"})
    BY <1>25 DEF Selection!Rollout, Selectors
  <2> QED
    BY <1>25, <2>1
<1>26. CASE Selection!MakePredictions(e)
  <2>1. To({"arrays"})
    BY <1>26 DEF Selection!MakePredictions, Selectors
  <2> QED
    BY <1>26, <2>1
<1>27. CASE Selection!WriteArrays(e)
  <2>1. To({"identities"})
    BY <1>27 DEF Selection!WriteArrays, Selectors
  <2> QED
    BY <1>27, <2>1
<1>28. CASE Selection!WriteIdentities(e)
  <2>1. To({"corpus"})
    BY <1>28 DEF Selection!WriteIdentities, Selectors
  <2> QED
    BY <1>28, <2>1
<1>29. CASE Selection!AssessCorpus(e)
  <2>1. To({"artifacts"})
    BY <1>29 DEF Selection!AssessCorpus, Selectors
  <2> QED
    BY <1>29, <2>1
<1>30. CASE Selection!AssessArtifacts(e)
  <2>1. To({"assessment"})
    BY <1>30 DEF Selection!AssessArtifacts, Selectors
  <2> QED
    BY <1>30, <2>1
<1>31. CASE Selection!Fails(e)
  <2>1. To({"ended"})
    BY <1>31 DEF Selection!Fails, Selectors, Selection!Alive
  <2> QED
    BY <1>31, <2>1
<1> QED
  BY <1>1, <1>2, <1>3, <1>4, <1>5, <1>6, <1>7, <1>8, <1>9, <1>10, <1>11, <1>12, <1>13,
     <1>14, <1>15, <1>16, <1>17, <1>18, <1>19, <1>20, <1>21, <1>22, <1>23, <1>24, <1>25,
     <1>26, <1>27, <1>28, <1>29, <1>30, <1>31
     DEF Selection!Command

(* What an execution knows after it has read. *)
LEMMA KnowsCommit ==
  ASSUME NEW E \in Selectors, NEW c \in Selection!Commits, NEW p \in Selection!Protocols,
         NEW k, k = [E EXCEPT !.manifest.commit = c, !.manifest.protocol = p]
  PROVE  /\ k \in Selectors /\ k.duty = E.duty
         /\ k.manifest.commit = c /\ k.manifest.protocol = p
<1>1. PICK m : m = [E.manifest EXCEPT !.commit = c, !.protocol = p]
  OBVIOUS
<1>2. m \in Selection!Manifests /\ m.commit = c /\ m.protocol = p
  BY <1>1 DEF Selectors, Selection!Manifests
<1>3. k = [E EXCEPT !.manifest = m]
  BY <1>1 DEF Selectors, Selection!Manifests
<1> QED
  BY <1>2, <1>3 DEF Selectors

LEMMA KnowsSource ==
  ASSUME NEW E \in Selectors, NEW t \in Selection!Trees,
         NEW k, k = [E EXCEPT !.manifest.source = t]
  PROVE  /\ k \in Selectors /\ k.duty = E.duty
         /\ k.manifest.commit = E.manifest.commit /\ k.manifest.protocol = E.manifest.protocol
         /\ k.manifest.recipe = E.manifest.recipe /\ k.manifest.fit = E.manifest.fit
         /\ k.manifest.source = t
<1>1. PICK m : m = [E.manifest EXCEPT !.source = t]
  OBVIOUS
<1>2. /\ m \in Selection!Manifests /\ m.source = t
      /\ m.commit = E.manifest.commit /\ m.protocol = E.manifest.protocol
      /\ m.recipe = E.manifest.recipe /\ m.fit = E.manifest.fit
  BY <1>1 DEF Selectors, Selection!Manifests
<1>3. k = [E EXCEPT !.manifest = m]
  BY <1>1 DEF Selectors, Selection!Manifests
<1> QED
  BY <1>2, <1>3 DEF Selectors

LEMMA KnowsFreeze ==
  ASSUME NEW E \in Selectors, NEW i \in Selection!Freezes, NEW p \in Selection!Protocols,
         NEW k, k = [E EXCEPT !.manifest.id = i, !.manifest.protocol = p]
  PROVE  /\ k \in Selectors /\ k.duty = E.duty
         /\ k.manifest.id = i /\ k.manifest.protocol = p
<1>1. PICK m : m = [E.manifest EXCEPT !.id = i, !.protocol = p]
  OBVIOUS
<1>2. m \in Selection!Manifests /\ m.id = i /\ m.protocol = p
  BY <1>1 DEF Selectors, Selection!Manifests
<1>3. k = [E EXCEPT !.manifest = m]
  BY <1>1 DEF Selectors, Selection!Manifests
<1> QED
  BY <1>2, <1>3 DEF Selectors

LEMMA KnowsAssessed ==
  ASSUME NEW E \in Selectors, NEW v \in Selection!Versions,
         NEW k, k = [E EXCEPT !.corpus.assessed = v]
  PROVE  k \in Selectors /\ k.corpus.assessed = v /\ k.duty = E.duty
<1>1. PICK c : c = [E.corpus EXCEPT !.assessed = v]
  OBVIOUS
<1>2. c \in Selection!Corpora /\ c.assessed = v
  BY <1>1 DEF Selectors, Selection!Corpora
<1>3. k = [E EXCEPT !.corpus = c]
  BY <1>1 DEF Selectors, Selection!Corpora
<1> QED
  BY <1>2, <1>3 DEF Selectors

LEMMA KnowsHashed ==
  ASSUME NEW E \in Selectors, NEW v \in Selection!Versions,
         NEW k, k = [E EXCEPT !.corpus.evidence = v]
  PROVE  /\ k \in Selectors /\ k.corpus.evidence = v /\ k.corpus.assessed = E.corpus.assessed
         /\ k.duty = E.duty
<1>1. PICK c : c = [E.corpus EXCEPT !.evidence = v]
  OBVIOUS
<1>2. c \in Selection!Corpora /\ c.evidence = v /\ c.assessed = E.corpus.assessed
  BY <1>1 DEF Selectors, Selection!Corpora
<1>3. k = [E EXCEPT !.corpus = c]
  BY <1>1 DEF Selectors, Selection!Corpora
<1> QED
  BY <1>2, <1>3 DEF Selectors

(* The freeze of a publication is numbered by one more; some command has not  *)
(* published one yet, the one that publishes it.                             *)
LEMMA FreezeIsNumbered ==
  ASSUME CampaignBounds, SelectionTyped, NEW e \in Commands, run[e].step # "ended"
  PROVE  freeze.id + 1 \in Selection!Freezes
<1>1. IsFiniteSet(Ended) /\ e \notin Ended /\ Cardinality(Ended) \in Nat
  BY EndedIsFinite DEF Ended
<1>2. IsFiniteSet(Ended \cup {e}) /\ Cardinality(Ended \cup {e}) = Cardinality(Ended) + 1
  BY <1>1, FS_AddElement
<1>3. Cardinality(Ended \cup {e}) <= Cardinality(Commands)
  BY FS_Subset DEF CampaignBounds, Ended
<1>4. freeze.id \in Nat /\ Cardinality(Commands) \in Nat
  BY FreezeNumbers DEF SelectionTyped, Selection!TypeOK, Selection!Manifests
<1> QED
  BY <1>1, <1>2, <1>3, <1>4, FreezeNumbers DEF SelectionTyped

LEMMA ProtocolTyped ==
  ASSUME NEW version
  PROVE  Selection!Protocol(version) \in Selection!Protocols
BY DEF Selection!Protocol, Selection!Protocols

LEMMA SelectionStepTyped ==
  ASSUME CampaignBounds, SelectionTyped, [Selection!Next]_Selection!vars
  PROVE  Selection!TypeOK'
<1> USE DEF CampaignBounds
<1>1. SUFFICES ASSUME NEW e \in Commands, Selection!Command(e) \/ Selection!Fails(e)
               PROVE  Selection!TypeOK'
  <2>1. CASE Selection!ChangeTree
    BY <2>1 DEF SelectionTyped, Selection!TypeOK, Selection!ChangeTree, Selection!Calm,
                Selection!Commits, Selection!Trees, Selection!ignored, Selection!freezing,
                Selection!campaign, Selection!captured
  <2>2. CASE Selection!ChangeIgnored
    BY <2>2 DEF SelectionTyped, Selection!TypeOK, Selection!ChangeIgnored, Selection!Calm,
                Selection!repository, Selection!campaign, Selection!captured
  <2>3. CASE Selection!DamageCaptures
    BY <2>3 DEF SelectionTyped, Selection!TypeOK, Selection!DamageCaptures, Selection!Versions,
                Selection!repository, Selection!ignored, Selection!freezing, Selection!campaign
  <2>4. CASE UNCHANGED Selection!vars
    BY <2>4 DEF SelectionTyped, Selection!TypeOK, Selection!vars, Selection!repository,
                Selection!ignored, Selection!freezing, Selection!campaign, Selection!captured
  <2> QED
    BY <1>1, <2>1, <2>2, <2>3, <2>4 DEF Selection!Next
<1> DEFINE E == run[e]
<1>2. E \in Selectors /\ Selection!TypeOK
  BY SelectionKnown DEF SelectionTyped
<1>3. /\ head \in Selection!Commits /\ tree \in Selection!Trees
      /\ fitSource \in {"pinned", "other"} /\ weights \in {"frozen", "other"}
      /\ evidence \in Selection!Versions /\ qualified \in Selection!Corpora
      /\ freeze.id \in Selection!Freezes
  BY <1>2 DEF Selection!TypeOK, Selection!Manifests
<1>4. CASE Selection!Start(e)
  <2>1. PICK command \in Selection!Duties :
          Selection!Goto(e, Selection!FirstStep[command], [E EXCEPT !.duty = command])
    BY <1>4 DEF Selection!Start
  <2>2. [E EXCEPT !.duty = command] \in Selectors
    BY <1>2 DEF Selectors
  <2>3. Selection!FirstStep[command] \in Selection!Steps
    BY DEF Selection!FirstStep, Selection!Duties, Selection!Steps
  <2>4. run' \in [Commands -> Selectors]
    BY <1>2, <2>1, <2>2, <2>3, SelectionGoes
  <2> QED
    BY <1>2, <1>4, <2>4 DEF Selection!Start, Selection!TypeOK, Selectors, Selection!repository,
             Selection!ignored, Selection!freezing, Selection!campaign, Selection!captured
<1>5. CASE Selection!Preflight(e)
  <2>1. PICK next \in {"commit", "bind"}, holds \in BOOLEAN :
          Selection!Learns(e, E, holds, next)
    BY <1>5 DEF Selection!Preflight, Selection!Checks
  <2> QED
    BY <1>2, <2>1, SelectionLearns DEF Selection!Steps, Selection!Files, Selection!WrittenOnce,
                                       Selection!MadeOnce
<1>6. CASE Selection!ReadCommit(e)
  <2>1. PICK p : p = Selection!Protocol(tree)
    OBVIOUS
  <2>a. PICK knows : knows = [E EXCEPT !.manifest.commit = head,
                                !.manifest.protocol = p]
    OBVIOUS
  <2>2. knows \in Selectors
    BY <1>2, <1>3, <2>1, <2>a, ProtocolTyped, KnowsCommit
  <2>3. PICK holds \in BOOLEAN : Selection!Learns(e, knows, holds, "absent")
    BY <1>6, <2>1, <2>a DEF Selection!ReadCommit
  <2> QED
    BY <1>2, <2>2, <2>3, SelectionLearns DEF Selection!Steps, Selection!Files,
       Selection!MadeOnce
<1>7. CASE Selection!CheckOutput(e)
  <2>1. PICK next \in {"fit"}, holds \in BOOLEAN :
          Selection!Learns(e, E, holds, next)
    BY <1>7 DEF Selection!CheckOutput, Selection!Checks
  <2> QED
    BY <1>2, <2>1, SelectionLearns DEF Selection!Steps, Selection!Files, Selection!WrittenOnce,
                                       Selection!MadeOnce
<1>8. CASE Selection!ReadFit(e)
  <2>1. PICK p \in Selection!Protocols : p = Selection!Protocol(tree)
    BY ProtocolTyped
  <2>2. PICK s \in {"pinned", "other"} : s = fitSource
    BY <1>3
  <2>3. PICK knows : knows = [E EXCEPT !.manifest.recipe = p, !.manifest.fit = s]
    OBVIOUS
  <2>4. knows \in Selectors
    <3>1. PICK m : m = [E.manifest EXCEPT !.recipe = p, !.fit = s]
      OBVIOUS
    <3>2. m \in Selection!Manifests
      BY <1>2, <3>1 DEF Selectors, Selection!Manifests
    <3>3. knows = [E EXCEPT !.manifest = m]
      BY <1>2, <2>3, <3>1 DEF Selectors, Selection!Manifests
    <3> QED
      BY <1>2, <3>2, <3>3 DEF Selectors
  <2>5. PICK holds \in BOOLEAN : Selection!Learns(e, knows, holds, "staging")
    BY <1>8, <2>1, <2>2, <2>3 DEF Selection!ReadFit
  <2> QED
    BY <1>2, <2>4, <2>5, SelectionLearns DEF Selection!Steps, Selection!Files,
       Selection!MadeOnce
<1>9. CASE Selection!MakeStaging(e)
  <2>1. PICK next \in {"models", "ended"} : Selection!Goto(e, next, E)
    BY <1>9 DEF Selection!MakeStaging
  <2>2. run' \in [Commands -> Selectors]
    BY <1>2, <2>1, SelectionGoes DEF Selection!Steps
  <2> QED
    BY <1>2, <1>9, <2>2 DEF Selection!MakeStaging, Selection!TypeOK, Selection!FreezeFiles,
             Selectors, Selection!repository, Selection!ignored, Selection!campaign,
             Selection!captured
<1>10. CASE \E name \in DOMAIN Selection!AfterStaged : Selection!WriteStaged(e, name)
  <2>1. PICK name \in DOMAIN Selection!AfterStaged : Selection!WriteStaged(e, name)
    BY <1>10
  <2>2. PICK next : next = Selection!AfterStaged[name]
    OBVIOUS
  <2>3. next \in Selection!Steps /\ name \in Selection!FreezeFiles
    BY <2>2 DEF Selection!AfterStaged, Selection!Steps, Selection!FreezeFiles
  <2>4. PICK to \in {next, "ended"} : Selection!Goto(e, to, E)
    BY <2>1, <2>2 DEF Selection!WriteStaged
  <2>5. run' \in [Commands -> Selectors]
    BY <1>2, <2>3, <2>4, SelectionGoes DEF Selection!Steps
  <2>6. staging' \subseteq Selection!FreezeFiles
    BY <1>2, <2>1, <2>3 DEF Selection!WriteStaged, Selection!TypeOK
  <2> QED
    BY <1>2, <2>1, <2>5, <2>6 DEF Selection!WriteStaged, Selection!TypeOK, Selectors,
             Selection!repository, Selection!ignored, Selection!campaign, Selection!captured
<1>11. CASE Selection!VerifyRestore(e)
  <2>1. Selection!Learns(e, E, "models" \in staging, "sources")
    BY <1>11 DEF Selection!VerifyRestore, Selection!Checks
  <2>2. ("models" \in staging) \in BOOLEAN
    OBVIOUS
  <2> QED
    BY <1>2, <2>1, <2>2, SelectionLearns DEF Selection!Steps, Selection!Files,
                                            Selection!WrittenOnce, Selection!MadeOnce
<1>12. CASE Selection!HashSources(e)
  <2>1. PICK knows : knows = [E EXCEPT !.manifest.source = tree]
    OBVIOUS
  <2>2. knows \in Selectors
    BY <1>2, <1>3, <2>1, KnowsSource
  <2>3. PICK holds \in BOOLEAN : Selection!Learns(e, knows, holds, "manifest")
    BY <1>12, <2>1 DEF Selection!HashSources
  <2> QED
    BY <1>2, <2>2, <2>3, SelectionLearns DEF Selection!Steps, Selection!Files,
       Selection!MadeOnce
<1>13. CASE Selection!Publish(e)
  <2>1. run' \in [Commands -> Selectors]
    BY <1>2, <1>13, SelectionGoes DEF Selection!Publish, Selection!Steps
  <2>2. run[e].step # "ended"
    BY <1>13 DEF Selection!Publish, Selection!At
  <2>3. freeze.id + 1 \in Selection!Freezes
    BY <2>2, FreezeIsNumbered
  <2>4. freeze' \in Selection!Manifests
    BY <1>2, <1>13, <2>3 DEF Selection!Publish, Selection!freezing, Selection!TypeOK, Selectors,
                             Selection!Manifests
  <2>5. /\ staging' \subseteq Selection!FreezeFiles /\ frozen' \subseteq Selection!FreezeFiles
        /\ weights' \in {"frozen", "other"}
    BY <1>2, <1>13 DEF Selection!Publish, Selection!freezing, Selection!TypeOK
  <2> QED
    BY <1>2, <1>13, <2>1, <2>4, <2>5 DEF Selection!Publish, Selection!TypeOK, Selectors,
             Selection!repository, Selection!campaign, Selection!captured
<1>14. CASE Selection!Bind(e)
  <2>1. PICK p : p = Selection!Protocol(tree)
    OBVIOUS
  <2>a. PICK knows : knows = [E EXCEPT !.manifest.id = freeze.id,
                                !.manifest.protocol = p]
    OBVIOUS
  <2>2. knows \in Selectors
    <3>1. p \in Selection!Protocols /\ E \in Selectors
      BY <1>2, <2>1, ProtocolTyped
    <3>2. freeze.id \in Selection!Freezes
      BY <1>3
    <3> HIDE DEF E
    <3> QED
      BY <2>a, <3>1, <3>2, KnowsFreeze
  <2>3. PICK holds \in BOOLEAN : Selection!Learns(e, knows, holds, "inputs")
    BY <1>14, <2>1, <2>a DEF Selection!Bind
  <2> QED
    BY <1>2, <2>2, <2>3, SelectionLearns DEF Selection!Steps, Selection!Files,
       Selection!MadeOnce
<1>15. CASE Selection!MakeInputs(e)
  BY <1>2, <1>15, SelectionMakes DEF Selection!MakeInputs, Selection!MadeOnce, Selection!Steps,
                                    Selection!Files, Selection!WrittenOnce
<1>16. CASE Selection!WriteProtocol(e)
  <2>1. /\ run' \in [Commands -> Selectors]
        /\ kept' \subseteq Selection!Files /\ torn' \subseteq kept' \ Selection!MadeOnce
    BY <1>2, <1>16, SelectionWrites DEF Selection!WriteProtocol, Selection!WrittenOnce,
       Selection!Steps,
                                       Selection!Files
  <2>2. bindings' \in [freeze : Selection!Freezes, protocol : Selection!Protocols]
    BY <1>2, <1>16 DEF Selection!WriteProtocol, Selectors, Selection!Manifests, Selection!TypeOK
  <2> QED
    BY <1>2, <1>16, <2>1, <2>2 DEF Selection!WriteProtocol, Selection!Writes,
       Selection!TypeOK, Selectors,
             Selection!repository, Selection!ignored, Selection!freezing, Selection!captured
<1>17. CASE \E name \in DOMAIN Selection!AfterWrite : Selection!WriteFile(e, name)
  <2>1. PICK name \in DOMAIN Selection!AfterWrite : Selection!WriteFile(e, name)
    BY <1>17
  <2>2. PICK next : next = Selection!AfterWrite[name]
    OBVIOUS
  <2>3. name \in Selection!WrittenOnce /\ next \in Selection!Steps
    BY <2>2 DEF Selection!AfterWrite, Selection!WrittenOnce, Selection!Steps, Selection!Files
  <2>4. Selection!Writes(e, name, next)
    BY <2>1, <2>2 DEF Selection!WriteFile
  <2>5. /\ run' \in [Commands -> Selectors]
        /\ kept' \subseteq Selection!Files /\ torn' \subseteq kept' \ Selection!MadeOnce
    BY <1>2, <2>3, <2>4, SelectionWrites
  <2> QED
    BY <1>2, <2>1, <2>5 DEF Selection!WriteFile, Selection!Writes, Selection!TypeOK, Selectors,
             Selection!repository, Selection!ignored, Selection!freezing, Selection!captured
<1>18. CASE Selection!CheckUnclaimed(e)
  <2>1. PICK next \in {"captures"}, holds \in BOOLEAN :
          Selection!Learns(e, E, holds, next)
    BY <1>18 DEF Selection!CheckUnclaimed, Selection!Checks
  <2> QED
    BY <1>2, <2>1, SelectionLearns DEF Selection!Steps, Selection!Files, Selection!WrittenOnce,
                                       Selection!MadeOnce
<1>19. CASE Selection!MakeCaptures(e)
  BY <1>2, <1>19, SelectionMakes DEF Selection!MakeCaptures, Selection!MadeOnce,
     Selection!Steps,
                                    Selection!Files, Selection!WrittenOnce
<1>20. CASE Selection!ReadProtocol(e)
  <2>1. PICK next \in {"gates"}, holds \in BOOLEAN :
          Selection!Learns(e, E, holds, next)
    BY <1>20 DEF Selection!ReadProtocol, Selection!Checks
  <2> QED
    BY <1>2, <2>1, SelectionLearns DEF Selection!Steps, Selection!Files, Selection!WrittenOnce,
                                       Selection!MadeOnce
<1>21. CASE Selection!AssessPairs(e)
  <2>1. PICK knows : knows = [E EXCEPT !.corpus.assessed = evidence]
    OBVIOUS
  <2>2. knows \in Selectors
    BY <1>2, <1>3, <2>1, KnowsAssessed
  <2>3. Selection!Learns(e, knows, "captures" \in kept, "hashes")
    BY <1>21, <2>1 DEF Selection!AssessPairs
  <2>4. ("captures" \in kept) \in BOOLEAN
    OBVIOUS
  <2> QED
    BY <1>2, <2>2, <2>3, <2>4, SelectionLearns DEF Selection!Steps, Selection!Files,
       Selection!MadeOnce
<1>22. CASE Selection!HashCaptures(e)
  <2>1. PICK knows : knows = [E EXCEPT !.corpus.evidence = evidence]
    OBVIOUS
  <2>2. knows \in Selectors
    BY <1>2, <1>3, <2>1, KnowsHashed
  <2>3. PICK holds \in BOOLEAN : Selection!Learns(e, knows, holds, "decision")
    BY <1>22, <2>1 DEF Selection!HashCaptures
  <2> QED
    BY <1>2, <2>2, <2>3, SelectionLearns DEF Selection!Steps, Selection!Files,
       Selection!MadeOnce
<1>23. CASE Selection!Decide(e)
  <2>1. PICK next \in {"qualified"}, holds \in BOOLEAN :
          Selection!Learns(e, E, holds, next)
    BY <1>23 DEF Selection!Decide, Selection!Checks
  <2> QED
    BY <1>2, <2>1, SelectionLearns DEF Selection!Steps, Selection!Files, Selection!WrittenOnce,
                                       Selection!MadeOnce
<1>24. CASE Selection!WriteQualified(e)
  <2>1. /\ run' \in [Commands -> Selectors]
        /\ kept' \subseteq Selection!Files /\ torn' \subseteq kept' \ Selection!MadeOnce
    BY <1>2, <1>24, SelectionWrites DEF Selection!WriteQualified, Selection!WrittenOnce,
       Selection!Steps,
                                       Selection!Files
  <2>2. qualified' \in Selection!Corpora
    BY <1>2, <1>24 DEF Selection!WriteQualified, Selectors, Selection!Manifests,
       Selection!TypeOK
  <2> QED
    BY <1>2, <1>24, <2>1, <2>2 DEF Selection!WriteQualified, Selection!Writes,
       Selection!TypeOK, Selectors,
             Selection!repository, Selection!ignored, Selection!freezing, Selection!captured
<1>25. CASE Selection!VerifySources(e)
  <2>1. PICK knows : knows = [E EXCEPT !.corpus = qualified]
    OBVIOUS
  <2>2. knows \in Selectors
    BY <1>2, <1>3, <2>1 DEF Selectors
  <2>3. PICK holds \in BOOLEAN : Selection!Learns(e, knows, holds, "bound")
    BY <1>25, <2>1 DEF Selection!VerifySources, Selection!Whole
  <2> QED
    BY <1>2, <2>2, <2>3, SelectionLearns DEF Selection!Steps
<1>26. CASE Selection!CheckBound(e)
  <2>1. PICK next \in {"load"}, holds \in BOOLEAN :
          Selection!Learns(e, E, holds, next)
    BY <1>26 DEF Selection!CheckBound, Selection!Checks
  <2> QED
    BY <1>2, <2>1, SelectionLearns DEF Selection!Steps, Selection!Files, Selection!WrittenOnce,
                                       Selection!MadeOnce
<1>27. CASE Selection!LoadCaptures(e)
  <2>1. PICK knows : knows = [E EXCEPT !.loaded = evidence]
    OBVIOUS
  <2>2. knows \in Selectors
    BY <1>2, <1>3, <2>1 DEF Selectors
  <2>3. PICK holds \in BOOLEAN : Selection!Learns(e, knows, holds, "rollout")
    BY <1>27, <2>1 DEF Selection!LoadCaptures
  <2> QED
    BY <1>2, <2>2, <2>3, SelectionLearns DEF Selection!Steps, Selection!Files,
       Selection!MadeOnce
<1>28. CASE Selection!Rollout(e)
  <2>1. PICK knows : knows = [E EXCEPT !.model = weights]
    OBVIOUS
  <2>2. knows \in Selectors
    BY <1>2, <1>3, <2>1 DEF Selectors
  <2>3. Selection!Learns(e, knows, "models" \in frozen, "predictions")
    BY <1>28, <2>1 DEF Selection!Rollout
  <2>4. ("models" \in frozen) \in BOOLEAN
    OBVIOUS
  <2> QED
    BY <1>2, <2>2, <2>3, <2>4, SelectionLearns DEF Selection!Steps, Selection!Files,
       Selection!MadeOnce
<1>29. CASE Selection!MakePredictions(e)
  BY <1>2, <1>29, SelectionMakes DEF Selection!MakePredictions, Selection!MadeOnce,
     Selection!Steps,
                                    Selection!Files, Selection!WrittenOnce
<1>30. CASE Selection!WriteArrays(e)
  <2>1. /\ run' \in [Commands -> Selectors]
        /\ kept' \subseteq Selection!Files /\ torn' \subseteq kept' \ Selection!MadeOnce
    BY <1>2, <1>30, SelectionWrites DEF Selection!WriteArrays, Selection!WrittenOnce,
                                       Selection!Steps, Selection!Files
  <2>2. predictions' \in [model : {"frozen", "other"}, evidence : Selection!Versions,
                         freeze : Selection!Freezes, corpus : Selection!Corpora]
    BY <1>2, <1>30 DEF Selection!WriteArrays, Selectors, Selection!TypeOK
  <2> QED
    BY <1>2, <1>30, <2>1, <2>2 DEF Selection!WriteArrays, Selection!Writes, Selection!TypeOK,
             Selectors, Selection!repository, Selection!ignored, Selection!freezing,
             Selection!captured
<1>31. CASE Selection!WriteIdentities(e)
  <2>1. CASE "manifest" \notin frozen
    <3>1. Selection!Learns(e, E, FALSE, "ended")
      BY <1>31, <2>1 DEF Selection!WriteIdentities, Selection!Checks
    <3> QED
      BY <1>2, <3>1, SelectionLearns DEF Selection!Steps
  <2>2. CASE "manifest" \in frozen
    <3>1. /\ Selection!Writes(e, "identities", "corpus") /\ UNCHANGED <<bindings, qualified>>
          /\ predictions' = [predictions EXCEPT !.freeze = freeze.id, !.corpus = E.corpus]
      BY <1>31, <2>2 DEF Selection!WriteIdentities
    <3>2. /\ run' \in [Commands -> Selectors]
          /\ kept' \subseteq Selection!Files /\ torn' \subseteq kept' \ Selection!MadeOnce
      BY <1>2, <3>1, SelectionWrites DEF Selection!WrittenOnce, Selection!Steps
    <3>3. predictions' \in [model : {"frozen", "other"}, evidence : Selection!Versions,
                         freeze : Selection!Freezes, corpus : Selection!Corpora]
      BY <1>2, <1>3, <3>1 DEF Selectors, Selection!TypeOK
    <3> QED
      BY <1>2, <3>1, <3>2, <3>3 DEF Selection!Writes, Selection!TypeOK, Selectors,
               Selection!repository, Selection!ignored, Selection!freezing, Selection!captured
  <2> QED
    BY <2>1, <2>2
<1>32. CASE Selection!AssessCorpus(e)
  <2>1. PICK next \in {"artifacts"}, holds \in BOOLEAN :
          Selection!Learns(e, E, holds, next)
    BY <1>32 DEF Selection!AssessCorpus, Selection!Checks
  <2> QED
    BY <1>2, <2>1, SelectionLearns DEF Selection!Steps, Selection!Files, Selection!WrittenOnce,
                                       Selection!MadeOnce
<1>33. CASE Selection!AssessArtifacts(e)
  <2>1. PICK next \in {"assessment"}, holds \in BOOLEAN :
          Selection!Learns(e, E, holds, next)
    BY <1>33 DEF Selection!AssessArtifacts, Selection!Checks
  <2> QED
    BY <1>2, <2>1, SelectionLearns DEF Selection!Steps, Selection!Files, Selection!WrittenOnce,
                                       Selection!MadeOnce
<1>34. CASE Selection!Fails(e)
  <2>1. run' \in [Commands -> Selectors]
    BY <1>2, <1>34, SelectionGoes DEF Selection!Fails, Selection!Steps
  <2>2. kept' \subseteq Selection!Files /\ torn' \subseteq kept' \ Selection!MadeOnce
    BY <1>2, <1>34 DEF Selection!Fails, Selection!TypeOK, Selection!Files,
       Selection!WrittenOnce,
                       Selection!MadeOnce
  <2> QED
    BY <1>2, <1>34, <2>1, <2>2 DEF Selection!Fails, Selection!Calm, Selection!TypeOK, Selectors,
             Selection!repository, Selection!ignored, Selection!freezing, Selection!captured
<1> QED
  BY <1>1, <1>4, <1>5, <1>6, <1>7, <1>8, <1>9, <1>10, <1>11, <1>12, <1>13, <1>14, <1>15,
     <1>16, <1>17, <1>18, <1>19, <1>20, <1>21, <1>22, <1>23, <1>24, <1>25, <1>26, <1>27,
     <1>28, <1>29, <1>30, <1>31, <1>32, <1>33, <1>34
     DEF Selection!Command

(* What the steps of an execution leave alone. *)
SelectionFrame(e) ==
  /\ UNCHANGED <<head, tree, edits, fitSource, swaps, evidence, grade, disturbed>>
  /\ Selection!Publish(e) \/ UNCHANGED <<frozen, freeze, weights>>
  /\ \/ Selection!MakeStaging(e) \/ Selection!Publish(e)
     \/ \E name \in DOMAIN Selection!AfterStaged : Selection!WriteStaged(e, name)
     \/ staging' = staging
  /\ Selection!WriteProtocol(e) \/ bindings' = bindings
  /\ Selection!WriteQualified(e) \/ qualified' = qualified
  /\ Selection!WriteArrays(e) \/ Selection!WriteIdentities(e) \/ predictions' = predictions

LEMMA SelectionFrames ==
  ASSUME NEW e, Selection!Command(e) \/ Selection!Fails(e)
  PROVE  SelectionFrame(e)
<1> USE DEF SelectionFrame, Selection!Learns, Selection!Checks, Selection!Makes,
            Selection!Writes, Selection!repository, Selection!ignored, Selection!freezing,
            Selection!campaign, Selection!captured
<1>1. CASE Selection!Start(e)
  BY <1>1 DEF Selection!Start
<1>2. CASE Selection!Preflight(e)
  BY <1>2 DEF Selection!Preflight
<1>3. CASE Selection!ReadCommit(e)
  BY <1>3 DEF Selection!ReadCommit
<1>4. CASE Selection!CheckOutput(e)
  BY <1>4 DEF Selection!CheckOutput
<1>5. CASE Selection!ReadFit(e)
  BY <1>5 DEF Selection!ReadFit
<1>6. CASE Selection!MakeStaging(e)
  BY <1>6 DEF Selection!MakeStaging
<1>7. CASE Selection!VerifyRestore(e)
  BY <1>7 DEF Selection!VerifyRestore
<1>8. CASE Selection!HashSources(e)
  BY <1>8 DEF Selection!HashSources
<1>9. CASE Selection!Publish(e)
  BY <1>9 DEF Selection!Publish
<1>10. CASE Selection!Bind(e)
  BY <1>10 DEF Selection!Bind
<1>11. CASE Selection!MakeInputs(e)
  BY <1>11 DEF Selection!MakeInputs
<1>12. CASE Selection!WriteProtocol(e)
  BY <1>12 DEF Selection!WriteProtocol
<1>13. CASE Selection!CheckUnclaimed(e)
  BY <1>13 DEF Selection!CheckUnclaimed
<1>14. CASE Selection!MakeCaptures(e)
  BY <1>14 DEF Selection!MakeCaptures
<1>15. CASE Selection!ReadProtocol(e)
  BY <1>15 DEF Selection!ReadProtocol
<1>16. CASE Selection!AssessPairs(e)
  BY <1>16 DEF Selection!AssessPairs
<1>17. CASE Selection!HashCaptures(e)
  BY <1>17 DEF Selection!HashCaptures
<1>18. CASE Selection!Decide(e)
  BY <1>18 DEF Selection!Decide
<1>19. CASE Selection!WriteQualified(e)
  BY <1>19 DEF Selection!WriteQualified
<1>20. CASE Selection!VerifySources(e)
  BY <1>20 DEF Selection!VerifySources
<1>21. CASE Selection!CheckBound(e)
  BY <1>21 DEF Selection!CheckBound
<1>22. CASE Selection!LoadCaptures(e)
  BY <1>22 DEF Selection!LoadCaptures
<1>23. CASE Selection!Rollout(e)
  BY <1>23 DEF Selection!Rollout
<1>24. CASE Selection!MakePredictions(e)
  BY <1>24 DEF Selection!MakePredictions
<1>25. CASE Selection!WriteArrays(e)
  BY <1>25 DEF Selection!WriteArrays
<1>26. CASE Selection!WriteIdentities(e)
  BY <1>26 DEF Selection!WriteIdentities
<1>27. CASE Selection!AssessCorpus(e)
  BY <1>27 DEF Selection!AssessCorpus
<1>28. CASE Selection!AssessArtifacts(e)
  BY <1>28 DEF Selection!AssessArtifacts
<1>29. CASE Selection!Fails(e)
  BY <1>29 DEF Selection!Fails
<1>30. CASE \E name \in DOMAIN Selection!AfterStaged : Selection!WriteStaged(e, name)
  BY <1>30 DEF Selection!WriteStaged
<1>31. CASE \E name \in DOMAIN Selection!AfterWrite : Selection!WriteFile(e, name)
  BY <1>31 DEF Selection!WriteFile
<1> QED
  BY <1>1, <1>2, <1>3, <1>4, <1>5, <1>6, <1>7, <1>8, <1>9, <1>10, <1>11, <1>12, <1>13, <1>14,
     <1>15, <1>16, <1>17, <1>18, <1>19, <1>20, <1>21, <1>22, <1>23,
     <1>24, <1>25, <1>26, <1>27, <1>28, <1>29, <1>30, <1>31
  DEF Selection!Command

LEMMA SelectionStays ==
  ASSUME CampaignBounds, SelectionTyped, [Selection!Next]_Selection!vars
  PROVE  SelectionTyped'
<1>1. Selection!TypeOK'
  BY SelectionStepTyped
<1>2. IsFiniteSet(Ended') /\ Cardinality(Ended') \in Nat
  BY FS_CardinalityType, FS_Subset DEF CampaignBounds, Ended
<1>3. IsFiniteSet(Ended) /\ Cardinality(Ended) \in Nat
  BY EndedIsFinite
<1>4. freeze.id \in Nat /\ freeze'.id \in Nat /\ freeze.id <= Cardinality(Ended)
  BY <1>1, FreezeNumbers DEF SelectionTyped, Selection!TypeOK, Selection!Manifests
<1>5. CASE run' = run /\ freeze' = freeze
  BY <1>1, <1>4, <1>5 DEF SelectionTyped, Ended
<1>6. ASSUME NEW e \in Commands, Selection!Command(e) \/ Selection!Fails(e)
      PROVE  freeze'.id <= Cardinality(Ended')
  <2>1. run[e].step # "ended" /\ \A f \in Commands : f # e => run'[f] = run[f]
    BY <1>6, SelectionLeads DEF SelectionTyped
  <2>2. CASE freeze' = freeze
    <3>1. Ended \subseteq Ended'
      BY <2>1 DEF Ended
    <3>2. Cardinality(Ended) <= Cardinality(Ended')
      BY <1>2, <3>1, FS_Subset
    <3> QED
      BY <1>2, <1>3, <1>4, <2>2, <3>2
  <2>3. CASE Selection!Publish(e) /\ freeze' # freeze
    <3>1. freeze' = [run[e].manifest EXCEPT !.id = freeze.id + 1] /\ run[e] \in Selectors
      BY <2>3, SelectionKnown DEF Selection!Publish, Selection!freezing, SelectionTyped
    <3>2. freeze'.id = freeze.id + 1
      BY <3>1 DEF Selectors, Selection!Manifests
    <3>3. run'[e].step = "ended"
      BY <2>3, SelectionGoes, SelectionKnown DEF Selection!Publish, Selection!Steps,
         SelectionTyped
    <3>4. Ended \cup {e} \subseteq Ended' /\ e \notin Ended
      BY <2>1, <3>3 DEF Ended
    <3>5. Cardinality(Ended \cup {e}) = Cardinality(Ended) + 1
      BY <1>3, <3>4, FS_AddElement
    <3>6. Cardinality(Ended \cup {e}) <= Cardinality(Ended')
      BY <1>2, <3>4, FS_Subset
    <3> QED
      BY <1>2, <1>3, <1>4, <3>2, <3>5, <3>6
  <2> QED
    BY <1>6, <2>2, <2>3, SelectionFrames DEF SelectionFrame
<1>7. CASE run' = run /\ freeze' # freeze
  <2>1. PICK e \in Commands : Selection!Command(e) \/ Selection!Fails(e)
    BY <1>7 DEF Selection!Next, Selection!vars, Selection!ChangeTree, Selection!ChangeIgnored,
                Selection!DamageCaptures, Selection!freezing
  <2> QED
    BY <1>1, <1>6, <2>1 DEF SelectionTyped
<1> QED
  BY <1>1, <1>5, <1>6, <1>7, OneSelects DEF SelectionTyped

(* Types of a selection; a command publishes one freeze at most. *)
THEOREM SelectionTypeCorrect ==
  ASSUME CampaignBounds
  PROVE  Selection!Spec => []Selection!TypeOK
<1>1. Selection!Init => SelectionTyped
  BY InitSelectionTyped
<1>2. SelectionTyped /\ [Selection!Next]_Selection!vars => SelectionTyped'
  BY SelectionStays
<1>3. SelectionTyped => Selection!TypeOK
  BY DEF SelectionTyped
<1> QED
  BY <1>1, <1>2, <1>3, PTL DEF Selection!Spec

-----------------------------------------------------------------------------
(* Selections: one writer *)

(* As for a confirmation: the steps that follow the mkdir of a directory, and  *)
(* what an execution has still to write at each of them.                      *)
Stages == [inputs |-> {"protocol", "manifests", "prepared"}, captures |-> {"attestation"},
           predictions |-> {"arrays", "identities", "corpus", "artifacts", "assessment"}]
Awaited == [protocol    |-> {"protocol", "manifests", "prepared"},
            manifests   |-> {"manifests", "prepared"},
            prepared    |-> {"prepared"},
            attestation |-> {"attestation"},
            arrays      |-> {"arrays", "identities", "assessment"},
            identities  |-> {"identities", "assessment"},
            corpus      |-> {"assessment"},
            artifacts   |-> {"assessment"},
            assessment  |-> {"assessment"}]

HasOneStager(m) ==
  /\ \A e \in Commands : run[e].step \in Stages[m] =>
       m \in kept /\ Awaited[run[e].step] \cap kept = {}
  /\ \A e, d \in Commands : run[e].step \in Stages[m] /\ run[d].step \in Stages[m] => e = d
  /\ Stages[m] \cap kept # {} => m \in kept

OneStager == \A m \in Selection!MadeOnce : HasOneStager(m)

LEMMA StageFacts ==
  /\ \A m \in Selection!MadeOnce : \A s \in Stages[m] : Awaited[s] \subseteq Stages[m]
  /\ \A m \in Selection!MadeOnce : m \notin Stages[m]
  /\ \A s \in Selection!WrittenOnce :
       s \in Awaited[s] /\ \E m \in Selection!MadeOnce : s \in Stages[m]
<1>1. /\ Stages["inputs"] = {"protocol", "manifests", "prepared"}
      /\ Stages["captures"] = {"attestation"}
      /\ Stages["predictions"] = {"arrays", "identities", "corpus", "artifacts", "assessment"}
  BY DEF Stages
<1>2. Selection!MadeOnce = {"inputs", "captures", "predictions"}
  BY DEF Selection!MadeOnce
<1>3. \A m \in Selection!MadeOnce : \A s \in Stages[m] : Awaited[s] \subseteq Stages[m]
  BY <1>1, <1>2 DEF Awaited
<1>4. \A m \in Selection!MadeOnce : m \notin Stages[m]
  BY <1>1, <1>2
<1>5. ASSUME NEW s \in Selection!WrittenOnce
      PROVE  s \in Awaited[s] /\ \E m \in Selection!MadeOnce : s \in Stages[m]
  BY <1>1, <1>2 DEF Awaited, Selection!WrittenOnce
<1> QED
  BY <1>3, <1>4, <1>5

(* A step changes in the directory of the campaign at most what it is named for. *)
LEMMA SelectionKeeps ==
  ASSUME NEW e, Selection!Command(e) \/ Selection!Fails(e)
  PROVE  /\ kept \subseteq kept' /\ kept' \subseteq kept \cup {run[e].step}
         /\ torn' \subseteq torn \cup {run[e].step} /\ torn \subseteq torn' \cup {run[e].step}
         /\ Selection!Fails(e) => kept' \ torn' \subseteq kept \ torn
<1> USE DEF Selection!Learns, Selection!Checks, Selection!Makes, Selection!Writes,
            Selection!campaign, Selection!At
<1>1. CASE Selection!Start(e)
  BY <1>1 DEF Selection!Start, Selection!Fails
<1>2. CASE Selection!Preflight(e)
  BY <1>2 DEF Selection!Preflight, Selection!Fails
<1>3. CASE Selection!ReadCommit(e)
  BY <1>3 DEF Selection!ReadCommit, Selection!Fails
<1>4. CASE Selection!CheckOutput(e)
  BY <1>4 DEF Selection!CheckOutput, Selection!Fails
<1>5. CASE Selection!ReadFit(e)
  BY <1>5 DEF Selection!ReadFit, Selection!Fails
<1>6. CASE Selection!MakeStaging(e)
  BY <1>6 DEF Selection!MakeStaging, Selection!Fails
<1>7. CASE Selection!VerifyRestore(e)
  BY <1>7 DEF Selection!VerifyRestore, Selection!Fails
<1>8. CASE Selection!HashSources(e)
  BY <1>8 DEF Selection!HashSources, Selection!Fails
<1>9. CASE Selection!Publish(e)
  BY <1>9 DEF Selection!Publish, Selection!Fails
<1>10. CASE Selection!Bind(e)
  BY <1>10 DEF Selection!Bind, Selection!Fails
<1>11. CASE Selection!MakeInputs(e)
  BY <1>11 DEF Selection!MakeInputs, Selection!Fails
<1>12. CASE Selection!WriteProtocol(e)
  BY <1>12 DEF Selection!WriteProtocol, Selection!Fails
<1>13. CASE Selection!CheckUnclaimed(e)
  BY <1>13 DEF Selection!CheckUnclaimed, Selection!Fails
<1>14. CASE Selection!MakeCaptures(e)
  BY <1>14 DEF Selection!MakeCaptures, Selection!Fails
<1>15. CASE Selection!ReadProtocol(e)
  BY <1>15 DEF Selection!ReadProtocol, Selection!Fails
<1>16. CASE Selection!AssessPairs(e)
  BY <1>16 DEF Selection!AssessPairs, Selection!Fails
<1>17. CASE Selection!HashCaptures(e)
  BY <1>17 DEF Selection!HashCaptures, Selection!Fails
<1>18. CASE Selection!Decide(e)
  BY <1>18 DEF Selection!Decide, Selection!Fails
<1>19. CASE Selection!WriteQualified(e)
  BY <1>19 DEF Selection!WriteQualified, Selection!Fails
<1>20. CASE Selection!VerifySources(e)
  BY <1>20 DEF Selection!VerifySources, Selection!Fails
<1>21. CASE Selection!CheckBound(e)
  BY <1>21 DEF Selection!CheckBound, Selection!Fails
<1>22. CASE Selection!LoadCaptures(e)
  BY <1>22 DEF Selection!LoadCaptures, Selection!Fails
<1>23. CASE Selection!Rollout(e)
  BY <1>23 DEF Selection!Rollout, Selection!Fails
<1>24. CASE Selection!MakePredictions(e)
  BY <1>24 DEF Selection!MakePredictions, Selection!Fails
<1>25. CASE Selection!WriteArrays(e)
  BY <1>25 DEF Selection!WriteArrays, Selection!Fails
<1>26. CASE Selection!WriteIdentities(e)
  BY <1>26 DEF Selection!WriteIdentities, Selection!Fails
<1>27. CASE Selection!AssessCorpus(e)
  BY <1>27 DEF Selection!AssessCorpus, Selection!Fails
<1>28. CASE Selection!AssessArtifacts(e)
  BY <1>28 DEF Selection!AssessArtifacts, Selection!Fails
<1>29. CASE Selection!Fails(e)
  BY <1>29 DEF Selection!Fails
<1>30. CASE \E name \in DOMAIN Selection!AfterStaged : Selection!WriteStaged(e, name)
  BY <1>30 DEF Selection!WriteStaged
<1>31. CASE \E name \in DOMAIN Selection!AfterWrite : Selection!WriteFile(e, name)
  BY <1>31 DEF Selection!WriteFile, Selection!Fails
<1> QED
  BY <1>1, <1>2, <1>3, <1>4, <1>5, <1>6, <1>7, <1>8, <1>9, <1>10, <1>11, <1>12, <1>13, <1>14,
     <1>15, <1>16, <1>17, <1>18, <1>19, <1>20, <1>21, <1>22, <1>23,
     <1>24, <1>25, <1>26, <1>27, <1>28, <1>29, <1>30, <1>31
  DEF Selection!Command

(* A stage is entered by the mkdir, and what is written is no longer awaited. *)
LEMMA StageAdvances ==
  ASSUME CampaignBounds, Selection!TypeOK, NEW e \in Commands,
         Selection!Command(e) \/ Selection!Fails(e),
         NEW m \in Selection!MadeOnce, run'[e].step \in Stages[m]
  PROVE  \/ /\ run[e].step \in Stages[m]
            /\ Awaited[run'[e].step] \subseteq Awaited[run[e].step] \ {run[e].step}
         \/ run[e].step = m /\ m \notin kept /\ m \in kept'
<1> DEFINE s == run[e].step
           t == run'[e].step
<1> USE DEF Selection!At, Selection!Checks, Selection!Learns, Selection!Makes, Selection!Writes
<1>1. t # "ended"
  BY DEF Stages, Selection!MadeOnce
<1>2. CASE m = "inputs"
  <2>1. t \in {"protocol", "manifests", "prepared"}
    BY <1>2 DEF Stages
  <2>2. CASE t = "protocol"
    <3>1. Selection!MakeInputs(e)
      BY <2>2, SelectionLeads
    <3>2. s = "inputs" /\ ("inputs" \in kept => Selection!Goto(e, "ended", run[e]))
      BY <3>1 DEF Selection!MakeInputs
    <3>3. "inputs" \notin kept
      BY <1>1, <3>2, SelectionGoes, SelectionKnown DEF Selection!Steps
    <3> QED
      BY <1>2, <3>1, <3>2, <3>3 DEF Selection!MakeInputs
  <2>3. CASE t = "manifests"
    <3>1. s = "protocol"
      BY <2>3, SelectionLeads DEF Selection!WriteProtocol
    <3> QED
      BY <1>2, <2>3, <3>1 DEF Stages, Awaited
  <2>4. CASE t = "prepared"
    <3>1. s = "manifests"
      BY <2>4, SelectionLeads DEF Selection!WriteFile
    <3> QED
      BY <1>2, <2>4, <3>1 DEF Stages, Awaited
  <2> QED
    BY <2>1, <2>2, <2>3, <2>4
<1>3. CASE m = "captures"
  <2>1. Selection!MakeCaptures(e)
    BY <1>3, SelectionLeads DEF Stages
  <2>2. s = "captures" /\ ("captures" \in kept => Selection!Goto(e, "ended", run[e]))
    BY <2>1 DEF Selection!MakeCaptures
  <2>3. "captures" \notin kept
    BY <1>1, <2>2, SelectionGoes, SelectionKnown DEF Selection!Steps
  <2> QED
    BY <1>3, <2>1, <2>2, <2>3 DEF Selection!MakeCaptures
<1>4. CASE m = "predictions"
  <2>1. t \in {"arrays", "identities", "corpus", "artifacts", "assessment"}
    BY <1>4 DEF Stages
  <2>2. CASE t = "arrays"
    <3>1. Selection!MakePredictions(e)
      BY <2>2, SelectionLeads
    <3>2. s = "predictions" /\ ("predictions" \in kept => Selection!Goto(e, "ended", run[e]))
      BY <3>1 DEF Selection!MakePredictions
    <3>3. "predictions" \notin kept
      BY <1>1, <3>2, SelectionGoes, SelectionKnown DEF Selection!Steps
    <3> QED
      BY <1>4, <3>1, <3>2, <3>3 DEF Selection!MakePredictions
  <2>3. CASE t = "identities"
    <3>1. s = "arrays"
      BY <2>3, SelectionLeads DEF Selection!WriteArrays
    <3> QED
      BY <1>4, <2>3, <3>1 DEF Stages, Awaited
  <2>4. CASE t = "corpus"
    <3>1. s = "identities"
      BY <2>4, SelectionLeads DEF Selection!WriteIdentities
    <3> QED
      BY <1>4, <2>4, <3>1 DEF Stages, Awaited
  <2>5. CASE t = "artifacts"
    <3>1. s = "corpus"
      BY <2>5, SelectionLeads DEF Selection!AssessCorpus
    <3> QED
      BY <1>4, <2>5, <3>1 DEF Stages, Awaited
  <2>6. CASE t = "assessment"
    <3>1. s = "artifacts"
      BY <2>6, SelectionLeads DEF Selection!AssessArtifacts
    <3> QED
      BY <1>4, <2>6, <3>1 DEF Stages, Awaited
  <2> QED
    BY <2>1, <2>2, <2>3, <2>4, <2>5, <2>6
<1> QED
  BY <1>2, <1>3, <1>4 DEF Selection!MadeOnce

LEMMA OneStagerStep ==
  ASSUME CampaignBounds, Selection!TypeOK, OneStager, [Selection!Next]_Selection!vars
  PROVE  OneStager'
<1>1. SUFFICES ASSUME NEW e \in Commands, Selection!Command(e) \/ Selection!Fails(e),
                      NEW m \in Selection!MadeOnce
               PROVE  HasOneStager(m)'
  <2>1. CASE \/ Selection!ChangeTree \/ Selection!ChangeIgnored
             \/ Selection!DamageCaptures \/ UNCHANGED Selection!vars
    <3>1. run' = run /\ kept' = kept
      BY <2>1 DEF Selection!ChangeTree, Selection!ChangeIgnored, Selection!DamageCaptures,
                  Selection!vars, Selection!campaign
    <3> QED
      BY <3>1 DEF OneStager, HasOneStager
  <2> QED
    BY <1>1, <2>1, OneSelects DEF OneStager
<1> DEFINE s == run[e].step
           t == run'[e].step
<1>2. HasOneStager(m)
  BY DEF OneStager
<1>3. \A f \in Commands : f # e => run'[f] = run[f]
  BY <1>1, SelectionLeads
<1>4. kept \subseteq kept' /\ kept' \subseteq kept \cup {s}
  BY <1>1, SelectionKeeps
<1>5. \A f \in Commands : run[f].step \in Stages[m] => Awaited[run[f].step] \subseteq Stages[m]
  BY StageFacts
<1>6. ASSUME NEW f \in Commands, f # e, run[f].step \in Stages[m]
      PROVE  m \in kept' /\ Awaited[run'[f].step] \cap kept' = {}
  <2>1. m \in kept /\ Awaited[run[f].step] \cap kept = {} /\ s \notin Stages[m]
    BY <1>2, <1>6 DEF HasOneStager
  <2> QED
    BY <1>3, <1>4, <1>5, <1>6, <2>1
<1>7. Stages[m] \cap kept' # {} => m \in kept'
  <2>1. CASE Stages[m] \cap kept # {}
    BY <1>2, <1>4, <2>1 DEF HasOneStager
  <2>2. CASE Stages[m] \cap kept = {} /\ Stages[m] \cap kept' # {}
    <3>1. s \in Stages[m]
      BY <1>4, <2>2
    <3> QED
      BY <1>2, <1>4, <3>1 DEF HasOneStager
  <2> QED
    BY <2>1, <2>2
<1>8. CASE t \notin Stages[m]
  <2>1. \A f \in Commands : run'[f].step \in Stages[m] => f # e /\ run[f].step \in Stages[m]
    BY <1>3, <1>8
  <2> QED
    BY <1>2, <1>3, <1>6, <1>7, <2>1 DEF HasOneStager
<1>9. CASE t \in Stages[m] /\ s \in Stages[m] /\ Awaited[t] \subseteq Awaited[s] \ {s}
  <2>1. m \in kept /\ Awaited[s] \cap kept = {}
    BY <1>2, <1>9 DEF HasOneStager
  <2>2. m \in kept' /\ Awaited[t] \cap kept' = {}
    BY <1>4, <1>9, <2>1
  <2>3. \A f \in Commands : run'[f].step \in Stages[m] => f = e
    BY <1>2, <1>3, <1>9 DEF HasOneStager
  <2> QED
    BY <1>7, <2>2, <2>3 DEF HasOneStager
<1>10. CASE t \in Stages[m] /\ s = m /\ m \notin kept /\ m \in kept'
  <2>1. /\ \A f \in Commands : run[f].step \notin Stages[m]
        /\ Stages[m] \cap kept = {}
    BY <1>2, <1>10 DEF HasOneStager
  <2>2. \A f \in Commands : run'[f].step \in Stages[m] => f = e
    BY <1>3, <2>1
  <2>3. Awaited[t] \subseteq Stages[m] /\ m \notin Stages[m]
    BY <1>10, StageFacts
  <2>4. Awaited[t] \cap kept' = {}
    BY <1>4, <1>10, <2>1, <2>3
  <2> QED
    BY <1>7, <1>10, <2>2, <2>4 DEF HasOneStager
<1> QED
  BY <1>1, <1>8, <1>9, <1>10, StageAdvances

(* Nothing of a selection is written twice, whatever commands overlap, fail or *)
(* are killed (prepare_selection, collect_selection, score_selection); only   *)
(* the file of a qualification may be.                                       *)
THEOREM SelectionIsWrittenOnce ==
  ASSUME CampaignBounds
  PROVE  Selection!Spec => []Selection!NothingIsWrittenTwice
<1>1. ASSUME Selection!Init
      PROVE  SelectionTyped /\ OneStager
  <2>1. kept = {} /\ \A e \in Commands : run[e].step = "idle"
    BY <1>1 DEF Selection!Init, Selection!Rests
  <2>2. \A m \in Selection!MadeOnce : "idle" \notin Stages[m]
    BY DEF Selection!MadeOnce, Stages
  <2>3. OneStager
    BY <2>1, <2>2 DEF OneStager, HasOneStager
  <2> QED
    BY <1>1, <2>3, InitSelectionTyped
<1>2. SelectionTyped /\ OneStager /\ [Selection!Next]_Selection!vars
        => SelectionTyped' /\ OneStager'
  BY SelectionStays, OneStagerStep DEF SelectionTyped
<1>3. ASSUME OneStager
      PROVE  Selection!NothingIsWrittenTwice
  <2>1. SUFFICES ASSUME NEW e \in Commands, run[e].step \in Selection!WrittenOnce
                 PROVE  /\ run[e].step \notin kept
                        /\ \A d \in Commands \ {e} : run[d].step # run[e].step
    BY DEF Selection!NothingIsWrittenTwice
  <2>2. PICK m \in Selection!MadeOnce : run[e].step \in Stages[m]
    BY <2>1, StageFacts
  <2>3. run[e].step \in Awaited[run[e].step]
    BY <2>1, StageFacts
  <2> QED
    BY <1>3, <2>2, <2>3 DEF OneStager, HasOneStager
<1> QED
  BY <1>1, <1>2, <1>3, PTL DEF Selection!Spec

-----------------------------------------------------------------------------
(* Selections: freezes *)

(* The steps of fit-and-freeze after its mkdir, and what is then staged. *)
Freezers == {"models", "parity", "sources", "manifest", "outcome", "rename"}
StagedAt == [models   |-> {"directory"},
             parity   |-> {"directory", "models"},
             sources  |-> {"directory", "models"},
             manifest |-> {"directory", "models"},
             outcome  |-> {"directory", "models", "manifest"},
             rename   |-> {"directory", "models", "manifest", "outcome"}]

(* One execution at most stages a freeze, and nothing else is staged; a freeze *)
(* is whole, and another is published only after a swap that removed it.      *)
FreezingInv ==
  /\ \A e, d \in Commands : run[e].step \in Freezers /\ run[d].step \in Freezers => e = d
  /\ \A e \in Commands : run[e].step \in Freezers => staging = StagedAt[run[e].step]
  /\ frozen \in {{}, Selection!FreezeFiles}
  /\ freeze.id <= 1 + swaps /\ (frozen = {} => freeze.id <= swaps)

LEMMA StagedIsThere ==
  \A s \in Freezers : "directory" \in StagedAt[s]
BY DEF Freezers, StagedAt

LEMMA FreezerAdvances ==
  ASSUME CampaignBounds, Selection!TypeOK, NEW e \in Commands,
         Selection!Command(e) \/ Selection!Fails(e),
         run[e].step \in Freezers => staging = StagedAt[run[e].step],
         run'[e].step \in Freezers
  PROVE  /\ staging' = StagedAt[run'[e].step]
         /\ run[e].step \in Freezers \/ (run[e].step = "staging" /\ staging = {})
<1> DEFINE s == run[e].step
           t == run'[e].step
<1> USE DEF Selection!At, Selection!Checks, Selection!Learns, Selection!freezing
<1>1. t # "ended"
  BY DEF Freezers
<1>2. CASE t = "models"
  <2>1. Selection!MakeStaging(e)
    BY <1>2, SelectionLeads
  <2>2. s = "staging" /\ staging' = staging \cup {"directory"}
    BY <2>1 DEF Selection!MakeStaging
  <2>3. staging # {} => Selection!Goto(e, "ended", run[e])
    BY <2>1 DEF Selection!MakeStaging
  <2>4. staging = {}
    BY <1>1, <2>3, SelectionGoes, SelectionKnown DEF Selection!Steps
  <2> QED
    BY <1>2, <2>2, <2>4 DEF StagedAt
<1>3. CASE t = "parity"
  <2>1. Selection!WriteStaged(e, "models")
    BY <1>3, SelectionLeads
  <2>2. s = "models" /\ staging = {"directory"}
    BY <2>1 DEF Selection!WriteStaged, Freezers, StagedAt
  <2> QED
    BY <1>3, <2>1, <2>2 DEF Selection!WriteStaged, StagedAt, Freezers
<1>4. CASE t = "sources"
  <2>1. Selection!VerifyRestore(e)
    BY <1>4, SelectionLeads
  <2> QED
    BY <1>4, <2>1 DEF Selection!VerifyRestore, StagedAt, Freezers
<1>5. CASE t = "manifest"
  <2>1. Selection!HashSources(e)
    BY <1>5, SelectionLeads
  <2> QED
    BY <1>5, <2>1 DEF Selection!HashSources, StagedAt, Freezers
<1>6. CASE t = "outcome"
  <2>1. Selection!WriteStaged(e, "manifest")
    BY <1>6, SelectionLeads
  <2>2. s = "manifest" /\ staging = {"directory", "models"}
    BY <2>1 DEF Selection!WriteStaged, Freezers, StagedAt
  <2> QED
    BY <1>6, <2>1, <2>2 DEF Selection!WriteStaged, StagedAt, Freezers
<1>7. CASE t = "rename"
  <2>1. Selection!WriteStaged(e, "outcome")
    BY <1>7, SelectionLeads
  <2>2. s = "outcome" /\ staging = {"directory", "models", "manifest"}
    BY <2>1 DEF Selection!WriteStaged, Freezers, StagedAt
  <2> QED
    BY <1>7, <2>1, <2>2 DEF Selection!WriteStaged, StagedAt, Freezers
<1> QED
  BY <1>2, <1>3, <1>4, <1>5, <1>6, <1>7 DEF Freezers

(* The freeze and its number after a step of an execution. *)
LEMMA FreezeFollows ==
  ASSUME CampaignBounds, Selection!TypeOK, FreezingInv, NEW e \in Commands,
         Selection!Command(e) \/ Selection!Fails(e)
  PROVE  /\ frozen' \in {{}, Selection!FreezeFiles} /\ swaps' = swaps
         /\ freeze'.id <= 1 + swaps' /\ (frozen' = {} => freeze'.id <= swaps')
<1>1. swaps' = swaps /\ swaps \in Nat /\ freeze.id \in Nat
  BY SelectionFrames, FreezeNumbers
     DEF SelectionFrame, Selection!TypeOK, Selection!Manifests, CampaignBounds
<1>2. CASE UNCHANGED <<frozen, freeze>>
  BY <1>1, <1>2 DEF FreezingInv
<1>3. CASE Selection!Publish(e) /\ frozen = {} /\ staging # {}
  <2>1. /\ run[e].step = "rename" /\ frozen' = staging
        /\ freeze' = [run[e].manifest EXCEPT !.id = freeze.id + 1]
    BY <1>3 DEF Selection!Publish, Selection!At
  <2>2. freeze'.id = freeze.id + 1
    BY <2>1, SelectionKnown DEF Selectors, Selection!Manifests
  <2>3. frozen' = Selection!FreezeFiles
    BY <2>1 DEF FreezingInv, Freezers, StagedAt, Selection!FreezeFiles
  <2> QED
    BY <1>1, <1>3, <2>2, <2>3 DEF FreezingInv, Selection!FreezeFiles
<1>4. CASE Selection!Publish(e) /\ ~(frozen = {} /\ staging # {})
  BY <1>2, <1>4 DEF Selection!Publish, Selection!freezing
<1> QED
  BY <1>2, <1>3, <1>4, SelectionFrames DEF SelectionFrame

LEMMA FreezingStep ==
  ASSUME CampaignBounds, Selection!TypeOK, FreezingInv, [Selection!Next]_Selection!vars
  PROVE  FreezingInv'
<1>1. ASSUME NEW e \in Commands, Selection!Command(e) \/ Selection!Fails(e)
      PROVE  FreezingInv'
  <2>1. \A f \in Commands : f # e => run'[f] = run[f]
    BY <1>1, SelectionLeads
  <2>2. run'[e].step \in Freezers =>
          /\ staging' = StagedAt[run'[e].step]
          /\ run[e].step \in Freezers \/ (run[e].step = "staging" /\ staging = {})
    BY <1>1, FreezerAdvances DEF FreezingInv
  <2>3. \A f \in Commands : f # e /\ run'[f].step \in Freezers =>
          run[f].step \in Freezers /\ staging # {} /\ run[e].step \notin Freezers
    BY <2>1, StagedIsThere DEF FreezingInv
  <2>4. ASSUME NEW f \in Commands, f # e, run'[f].step \in Freezers
        PROVE  staging' = StagedAt[run'[f].step]
    <3>1. /\ run[f].step \in Freezers /\ staging = StagedAt[run[f].step]
          /\ "directory" \in staging /\ run[e].step \notin Freezers
      BY <2>1, <2>3, <2>4, StagedIsThere DEF FreezingInv
    <3>2. CASE Selection!MakeStaging(e)
      BY <2>1, <2>4, <3>1, <3>2 DEF Selection!MakeStaging
    <3>3. ~Selection!Publish(e)
      BY <3>1 DEF Selection!Publish, Selection!At, Freezers
    <3>4. \A name \in DOMAIN Selection!AfterStaged : ~Selection!WriteStaged(e, name)
      BY <3>1 DEF Selection!WriteStaged, Selection!At, Selection!AfterStaged, Freezers
    <3> QED
      BY <1>1, <2>1, <2>4, <3>1, <3>2, <3>3, <3>4, SelectionFrames DEF SelectionFrame
  <2>5. \A f, d \in Commands : run'[f].step \in Freezers /\ run'[d].step \in Freezers => f = d
    BY <2>1, <2>2, <2>3 DEF FreezingInv
  <2> QED
    BY <1>1, <2>2, <2>4, <2>5, FreezeFollows DEF FreezingInv
<1>2. CASE Selection!ChangeIgnored
  <2>1. /\ run' = run /\ staging' = staging /\ freeze' = freeze /\ swaps' = swaps + 1
        /\ frozen' = frozen \/ (frozen # {} /\ frozen' = {})
    BY <1>2 DEF Selection!ChangeIgnored
  <2>2. swaps \in Nat /\ freeze.id \in Nat
    BY FreezeNumbers DEF Selection!TypeOK, Selection!Manifests, CampaignBounds
  <2> QED
    BY <2>1, <2>2 DEF FreezingInv
<1>3. CASE Selection!ChangeTree \/ Selection!DamageCaptures \/ UNCHANGED Selection!vars
  BY <1>3 DEF FreezingInv, Selection!ChangeTree, Selection!DamageCaptures, Selection!vars,
              Selection!freezing, Selection!ignored
<1> QED
  BY <1>1, <1>2, <1>3, OneSelects

(* A freeze appears whole by one rename (fit_and_freeze_mprm_models), whatever  *)
(* executions overlap, fail or are killed, and it gives way to another only    *)
(* after it was removed.                                                      *)
THEOREM FreezesArePublishedWhole ==
  ASSUME CampaignBounds
  PROVE  Selection!Spec => []Selection!FreezesAreWhole
<1>1. ASSUME Selection!Init
      PROVE  SelectionTyped /\ FreezingInv
  <2>1. \A e \in Commands : run[e].step \notin Freezers
    BY <1>1 DEF Selection!Init, Selection!Rests, Freezers
  <2>2. frozen = {} /\ freeze.id = 0 /\ swaps = 0
    BY <1>1 DEF Selection!Init, Selection!NoManifest
  <2> QED
    BY <1>1, <2>1, <2>2, InitSelectionTyped DEF FreezingInv
<1>2. SelectionTyped /\ FreezingInv /\ [Selection!Next]_Selection!vars
        => SelectionTyped' /\ FreezingInv'
  BY SelectionStays, FreezingStep DEF SelectionTyped
<1>3. ASSUME FreezingInv
      PROVE  Selection!FreezesAreWhole
  <2> DEFINE Freezing == {e \in Commands : run[e].step \in Freezers}
  <2>1. Selection!Cardinality(Freezing) <= 1
    <3>1. CASE Freezing = {}
      BY <3>1, FS_EmptySet, SameCardinality
    <3>2. CASE Freezing # {}
      <4>1. PICK e \in Commands : run[e].step \in Freezers
        BY <3>2
      <4>2. Freezing = {e}
        BY <1>3, <4>1 DEF FreezingInv
      <4>3. Cardinality({e}) = 1
        BY FS_Singleton
      <4>4. Selection!Cardinality({e}) = 1
        BY <4>3, SameCardinality
      <4> QED
        BY <4>2, <4>4
    <3> QED
      BY <3>1, <3>2
  <2> QED
    BY <1>3, <2>1 DEF FreezingInv, Freezers, Selection!FreezesAreWhole
<1> QED
  BY <1>1, <1>2, <1>3, PTL DEF Selection!Spec

-----------------------------------------------------------------------------
(* Selections: what a step knows *)

(* A step that only reads and goes on. *)
LEMMA SelectionLearned ==
  ASSUME CampaignBounds, Selection!TypeOK, NEW e \in Commands, NEW knows \in Selectors,
         NEW condition \in BOOLEAN, NEW next \in Selection!Steps,
         Selection!Learns(e, knows, condition, next), run'[e].step # "ended"
  PROVE  run'[e] = [knows EXCEPT !.step = next]
<1>1. PICK to : to = IF condition THEN next ELSE "ended"
  OBVIOUS
<1>2. to \in Selection!Steps /\ Selection!Goto(e, to, knows)
  BY <1>1 DEF Selection!Steps, Selection!Learns
<1>3. run'[e].step = to /\ (to # "ended" => run'[e] = [knows EXCEPT !.step = to])
  BY <1>2, SelectionGoes
<1> QED
  BY <1>1, <1>3

LEMMA SelectionHeld ==
  ASSUME CampaignBounds, Selection!TypeOK, NEW e \in Commands, NEW knows \in Selectors,
         NEW condition \in BOOLEAN, NEW next \in Selection!Steps,
         Selection!Learns(e, knows, condition, next), run'[e].step # "ended"
  PROVE  condition
<1>1. ASSUME ~condition PROVE FALSE
  <2>1. Selection!Goto(e, "ended", knows) /\ "ended" \in Selection!Steps
    BY <1>1 DEF Selection!Learns, Selection!Steps
  <2> QED
    BY <2>1, SelectionGoes
<1> QED
  BY <1>1

(* It goes on or ends. *)
LEMMA SelectionWent ==
  ASSUME CampaignBounds, Selection!TypeOK, NEW e \in Commands, NEW knows \in Selectors,
         NEW next \in Selection!Steps, NEW to, to = next \/ to = "ended",
         Selection!Goto(e, to, knows), run'[e].step # "ended"
  PROVE  run'[e] = [knows EXCEPT !.step = next]
<1>1. to \in Selection!Steps
  BY DEF Selection!Steps
<1>2. run'[e].step = to /\ (to # "ended" => run'[e] = [knows EXCEPT !.step = to])
  BY <1>1, SelectionGoes
<1> QED
  BY <1>2

(* An execution in qualify or score, and what each step of theirs reads. *)

QualifyReads(e) ==
  LET s == run[e].step
      t == run'[e].step
      corpus == run'[e].corpus
  IN
  /\ t = "hashes" => corpus.assessed = evidence
  /\ t = "decision" => /\ s = "hashes" /\ corpus.evidence = evidence
                       /\ corpus.assessed = run[e].corpus.assessed
  /\ t = "qualified" => /\ s = "decision" /\ corpus = run[e].corpus
                        /\ Selection!Whole({"attestation"}) /\ grade[corpus.assessed]

ScoreReads(e) ==
  LET s == run[e].step
      t == run'[e].step
      E == run[e]
      corpus == run'[e].corpus
  IN
  /\ t = "bound" => /\ corpus = qualified /\ qualified.evidence = evidence
                    /\ Selection!Whole({"qualified", "manifests"})
  /\ t = "load" => s = "bound" /\ corpus = E.corpus
  /\ t = "rollout" => s = "load" /\ corpus = E.corpus /\ run'[e].loaded = evidence
  /\ t = "predictions" => /\ s = "rollout" /\ corpus = E.corpus
                          /\ run'[e].loaded = E.loaded /\ run'[e].model = weights
  /\ t = "arrays" => /\ s = "predictions" /\ corpus = E.corpus
                     /\ run'[e].loaded = E.loaded /\ run'[e].model = E.model
  /\ t = "identities" => /\ s = "arrays" /\ corpus = E.corpus
                         /\ predictions' = [predictions EXCEPT !.model = E.model,
                                                               !.evidence = E.loaded]
                         /\ "arrays" \in kept' \ torn'
  /\ t = "corpus" => /\ s = "identities" /\ corpus = E.corpus
                     /\ predictions' = [predictions EXCEPT !.freeze = freeze.id,
                                                           !.corpus = E.corpus]
                     /\ "identities" \in kept' \ torn'
  /\ t = "artifacts" => /\ s = "corpus" /\ corpus = E.corpus /\ predictions' = predictions
                        /\ predictions.corpus = E.corpus
                        /\ predictions.freeze = freeze.id /\ bindings.freeze = freeze.id
                        /\ bindings' = bindings
  /\ t = "assessment" => /\ s = "artifacts" /\ corpus = E.corpus /\ predictions' = predictions
                         /\ weights = "frozen" /\ bindings' = bindings
                         /\ tree = freeze.source /\ head = freeze.commit
                         /\ UNCHANGED <<freeze, tree, head, edits, swaps>>

LEMMA QualifyLearns ==
  ASSUME CampaignBounds, Selection!TypeOK, NEW e \in Commands,
         Selection!Command(e) \/ Selection!Fails(e)
  PROVE  QualifyReads(e)
<1> DEFINE E == run[e]
           t == run'[e].step
<1>1. E \in Selectors /\ evidence \in Selection!Versions
  BY SelectionKnown DEF Selection!TypeOK
<1>2. CASE t = "hashes"
  <2>1. Selection!AssessPairs(e)
    BY <1>2, SelectionLeads
  <2>2. PICK knows : knows = [E EXCEPT !.corpus.assessed = evidence]
    OBVIOUS
  <2>3. PICK c : c = [E.corpus EXCEPT !.assessed = evidence]
    OBVIOUS
  <2>4. c.assessed = evidence /\ knows \in Selectors /\ knows.corpus = c
    BY <1>1, <2>2, <2>3 DEF Selectors, Selection!Corpora
  <2>5. PICK to : (to = "hashes" \/ to = "ended") /\ Selection!Goto(e, to, knows)
    BY <2>1, <2>2 DEF Selection!AssessPairs, Selection!Learns
  <2>6. "hashes" \in Selection!Steps /\ t # "ended"
    BY <1>2 DEF Selection!Steps
  <2>7. run'[e] = [knows EXCEPT !.step = "hashes"]
    BY <2>4, <2>5, <2>6, SelectionWent
  <2> QED
    BY <1>2, <2>4, <2>7 DEF QualifyReads, Selectors
<1>3. CASE t = "decision"
  <2>1. Selection!HashCaptures(e)
    BY <1>3, SelectionLeads
  <2>2. PICK knows : knows = [E EXCEPT !.corpus.evidence = evidence]
    OBVIOUS
  <2>3. PICK c : c = [E.corpus EXCEPT !.evidence = evidence]
    OBVIOUS
  <2>4. /\ c.evidence = evidence /\ c.assessed = E.corpus.assessed
        /\ knows \in Selectors /\ knows.corpus = c
    BY <1>1, <2>2, <2>3 DEF Selectors, Selection!Corpora
  <2>5. Selection!Goto(e, "decision", knows) /\ E.step = "hashes"
    BY <2>1, <2>2 DEF Selection!HashCaptures, Selection!Learns, Selection!At
  <2>6. run'[e] = [knows EXCEPT !.step = "decision"]
    <3>1. "decision" \in Selection!Steps /\ t # "ended"
      BY <1>3 DEF Selection!Steps
    <3> QED
      BY <2>4, <2>5, <3>1, SelectionWent
  <2> QED
    BY <1>3, <2>4, <2>5, <2>6 DEF QualifyReads, Selectors
<1>4. CASE t = "qualified"
  <2>1. Selection!Decide(e)
    BY <1>4, SelectionLeads
  <2>2. PICK holds \in BOOLEAN :
          holds = (Selection!Whole({"attestation"}) /\ grade[E.corpus.assessed])
    OBVIOUS
  <2>3. Selection!Learns(e, E, holds, "qualified") /\ E.step = "decision"
    BY <2>1, <2>2 DEF Selection!Decide, Selection!Checks, Selection!At
  <2>4. holds /\ run'[e] = [E EXCEPT !.step = "qualified"]
    <3>1. "qualified" \in Selection!Steps /\ t # "ended"
      BY <1>4 DEF Selection!Steps, Selection!Files
    <3>2. holds
      BY <1>1, <2>3, <3>1, SelectionHeld
    <3>3. run'[e] = [E EXCEPT !.step = "qualified"]
      BY <1>1, <2>3, <3>1, SelectionLearned
    <3> QED
      BY <3>2, <3>3
  <2>5. Selection!Whole({"attestation"}) /\ grade[E.corpus.assessed]
    BY <2>2, <2>4
  <2> QED
    BY <1>1, <1>4, <2>3, <2>4, <2>5 DEF QualifyReads, Selectors
<1> QED
  BY <1>2, <1>3, <1>4 DEF QualifyReads

LEMMA ScoreLearns ==
  ASSUME CampaignBounds, Selection!TypeOK, NEW e \in Commands,
         Selection!Command(e) \/ Selection!Fails(e)
  PROVE  ScoreReads(e)
<1> DEFINE E == run[e]
           t == run'[e].step
<1>1. /\ E \in Selectors /\ evidence \in Selection!Versions /\ qualified \in Selection!Corpora
      /\ weights \in {"frozen", "other"}
  BY SelectionKnown DEF Selection!TypeOK
<1>2. CASE t = "bound"
  <2>1. Selection!VerifySources(e)
    BY <1>2, SelectionLeads
  <2>2. PICK knows : knows = [E EXCEPT !.corpus = qualified]
    OBVIOUS
  <2>3. knows \in Selectors /\ knows.corpus = qualified
    BY <1>1, <2>2 DEF Selectors
  <2>4. PICK holds \in BOOLEAN :
          holds = (/\ Selection!Whole({"qualified", "manifests"})
                   /\ qualified.evidence = evidence)
    OBVIOUS
  <2>5. Selection!Learns(e, knows, holds, "bound")
    BY <2>1, <2>2, <2>4 DEF Selection!VerifySources
  <2>6. holds /\ run'[e] = [knows EXCEPT !.step = "bound"]
    <3>1. "bound" \in Selection!Steps /\ t # "ended"
      BY <1>2 DEF Selection!Steps
    <3>2. holds
      BY <2>3, <2>5, <3>1, SelectionHeld
    <3>3. run'[e] = [knows EXCEPT !.step = "bound"]
      BY <2>3, <2>5, <3>1, SelectionLearned
    <3> QED
      BY <3>2, <3>3
  <2>7. Selection!Whole({"qualified", "manifests"}) /\ qualified.evidence = evidence
    BY <2>4, <2>6
  <2> QED
    BY <1>2, <2>3, <2>6, <2>7 DEF ScoreReads, Selectors
<1>3. CASE t = "load"
  <2>1. Selection!CheckBound(e)
    BY <1>3, SelectionLeads
  <2>2. PICK to : (to = "load" \/ to = "ended") /\ Selection!Goto(e, to, E)
    BY <2>1 DEF Selection!CheckBound, Selection!Checks, Selection!Learns
  <2>3. E.step = "bound" /\ run'[e] = [E EXCEPT !.step = "load"]
    <3>1. "load" \in Selection!Steps /\ t # "ended" /\ E.step = "bound"
      BY <1>3, <2>1 DEF Selection!Steps, Selection!CheckBound, Selection!At
    <3> QED
      BY <1>1, <2>2, <3>1, SelectionWent
  <2> QED
    BY <1>1, <1>3, <2>3 DEF ScoreReads, Selectors
<1>4. CASE t = "rollout"
  <2>1. Selection!LoadCaptures(e)
    BY <1>4, SelectionLeads
  <2>2. PICK knows : knows = [E EXCEPT !.loaded = evidence]
    OBVIOUS
  <2>3. knows \in Selectors /\ knows.corpus = E.corpus /\ knows.loaded = evidence
    BY <1>1, <2>2 DEF Selectors
  <2>4. Selection!Goto(e, "rollout", knows) /\ E.step = "load"
    BY <2>1, <2>2 DEF Selection!LoadCaptures, Selection!Learns, Selection!At
  <2>5. run'[e] = [knows EXCEPT !.step = "rollout"]
    <3>1. "rollout" \in Selection!Steps /\ t # "ended"
      BY <1>4 DEF Selection!Steps
    <3> QED
      BY <2>3, <2>4, <3>1, SelectionWent
  <2> QED
    BY <1>4, <2>3, <2>4, <2>5 DEF ScoreReads, Selectors
<1>5. CASE t = "predictions"
  <2>1. Selection!Rollout(e)
    BY <1>5, SelectionLeads
  <2>2. PICK knows : knows = [E EXCEPT !.model = weights]
    OBVIOUS
  <2>3. /\ knows \in Selectors /\ knows.corpus = E.corpus /\ knows.loaded = E.loaded
        /\ knows.model = weights
    BY <1>1, <2>2 DEF Selectors
  <2>4. PICK to : (to = "predictions" \/ to = "ended") /\ Selection!Goto(e, to, knows)
    BY <2>1, <2>2 DEF Selection!Rollout, Selection!Learns
  <2>5. /\ "predictions" \in Selection!Steps
        /\ E.step = "rollout" /\ t # "ended"
    BY <1>5, <2>1 DEF Selection!Rollout, Selection!At, Selection!Steps, Selection!Files,
                      Selection!MadeOnce
  <2>6. run'[e] = [knows EXCEPT !.step = "predictions"]
    BY <2>3, <2>4, <2>5, SelectionWent
  <2> QED
    BY <1>5, <2>3, <2>5, <2>6 DEF ScoreReads, Selectors
<1>6. CASE t = "arrays"
  <2>1. Selection!MakePredictions(e)
    BY <1>6, SelectionLeads
  <2>2. PICK next \in {"arrays", "ended"} : Selection!Goto(e, next, E)
    BY <2>1 DEF Selection!MakePredictions, Selection!Makes
  <2>3. next \in Selection!Steps
    BY <2>2 DEF Selection!Steps, Selection!Files, Selection!WrittenOnce
  <2>4. E.step = "predictions" /\ run'[e] = [E EXCEPT !.step = "arrays"]
    BY <1>1, <1>6, <2>1, <2>2, <2>3, SelectionGoes
       DEF Selection!MakePredictions, Selection!Makes, Selection!At
  <2> QED
    BY <1>1, <1>6, <2>4 DEF ScoreReads, Selectors
<1>7. CASE t = "identities"
  <2>1. Selection!WriteArrays(e)
    BY <1>7, SelectionLeads
  <2>2. Selection!Goto(e, "identities", E) /\ E.step = "arrays"
    BY <2>1 DEF Selection!WriteArrays, Selection!Writes, Selection!At
  <2>3. run'[e] = [E EXCEPT !.step = "identities"]
    <3>1. "identities" \in Selection!Steps
      BY DEF Selection!Steps, Selection!Files, Selection!WrittenOnce
    <3> QED
      BY <1>1, <2>2, <3>1, SelectionGoes
  <2> QED
    BY <1>1, <1>7, <2>1, <2>2, <2>3 DEF ScoreReads, Selectors, Selection!WriteArrays,
                                        Selection!Writes
<1>8. CASE t = "corpus"
  <2>1. Selection!WriteIdentities(e)
    BY <1>8, SelectionLeads
  <2>2. CASE "manifest" \notin frozen
    <3>1. Selection!Goto(e, "ended", E) /\ "ended" \in Selection!Steps
      BY <2>1, <2>2 DEF Selection!WriteIdentities, Selection!Checks, Selection!Learns,
                        Selection!Steps
    <3> QED
      BY <1>1, <1>8, <3>1, SelectionGoes
  <2>3. CASE "manifest" \in frozen
    <3>1. /\ Selection!Writes(e, "identities", "corpus")
          /\ predictions' = [predictions EXCEPT !.freeze = freeze.id, !.corpus = E.corpus]
      BY <2>1, <2>3 DEF Selection!WriteIdentities
    <3>2. Selection!Goto(e, "corpus", E) /\ E.step = "identities"
      BY <3>1 DEF Selection!Writes, Selection!At
    <3>3. run'[e] = [E EXCEPT !.step = "corpus"]
      BY <1>1, <3>2, SelectionGoes DEF Selection!Steps
    <3> QED
      BY <1>1, <1>8, <3>1, <3>2, <3>3 DEF ScoreReads, Selectors, Selection!Writes
  <2> QED
    BY <2>2, <2>3
<1>9. CASE t = "artifacts"
  <2>1. Selection!AssessCorpus(e)
    BY <1>9, SelectionLeads
  <2>2. PICK holds \in BOOLEAN :
          holds = (/\ "manifest" \in frozen /\ Selection!Whole({"qualified"})
                   /\ predictions.freeze = freeze.id
                   /\ predictions.corpus = E.corpus /\ qualified = E.corpus
                   /\ bindings = [freeze |-> freeze.id, protocol |-> Selection!Protocol(tree)])
    OBVIOUS
  <2>3. Selection!Learns(e, E, holds, "artifacts") /\ E.step = "corpus"
    BY <2>1, <2>2 DEF Selection!AssessCorpus, Selection!Checks, Selection!At
  <2>4. holds /\ run'[e] = [E EXCEPT !.step = "artifacts"]
    <3>1. "artifacts" \in Selection!Steps /\ t # "ended"
      BY <1>9 DEF Selection!Steps
    <3>2. holds
      BY <1>1, <2>3, <3>1, SelectionHeld
    <3>3. run'[e] = [E EXCEPT !.step = "artifacts"]
      BY <1>1, <2>3, <3>1, SelectionLearned
    <3> QED
      BY <3>2, <3>3
  <2>5. /\ predictions.freeze = freeze.id /\ predictions.corpus = E.corpus
        /\ bindings = [freeze |-> freeze.id, protocol |-> Selection!Protocol(tree)]
    BY <2>2, <2>4
  <2>6. bindings.freeze = freeze.id
    BY <2>5
  <2>7. predictions' = predictions /\ bindings' = bindings
    BY <2>3 DEF Selection!Learns, Selection!campaign
  <2> QED
    BY <1>1, <1>9, <2>3, <2>4, <2>5, <2>6, <2>7 DEF ScoreReads, Selectors
<1>10. CASE t = "assessment"
  <2>1. Selection!AssessArtifacts(e)
    BY <1>10, SelectionLeads
  <2>2. PICK holds \in BOOLEAN :
          holds = (/\ frozen # {} /\ weights = "frozen"
                   /\ tree = freeze.source /\ head = freeze.commit)
    OBVIOUS
  <2>3. Selection!Learns(e, E, holds, "assessment") /\ E.step = "artifacts"
    BY <2>1, <2>2 DEF Selection!AssessArtifacts, Selection!Checks, Selection!At
  <2>4. holds /\ run'[e] = [E EXCEPT !.step = "assessment"]
    <3>1. "assessment" \in Selection!Steps /\ t # "ended"
      BY <1>10 DEF Selection!Steps, Selection!Files,
                                                Selection!WrittenOnce
    <3>2. holds
      BY <1>1, <2>3, <3>1, SelectionHeld
    <3>3. run'[e] = [E EXCEPT !.step = "assessment"]
      BY <1>1, <2>3, <3>1, SelectionLearned
    <3> QED
      BY <3>2, <3>3
  <2>5. weights = "frozen" /\ tree = freeze.source /\ head = freeze.commit
    BY <2>2, <2>4
  <2>6. predictions' = predictions /\ bindings' = bindings
        /\ UNCHANGED <<freeze, tree, head, edits, swaps>>
    BY <2>3 DEF Selection!Learns, Selection!campaign, Selection!freezing, Selection!repository,
                Selection!ignored
  <2> QED
    BY <1>1, <1>10, <2>3, <2>4, <2>5, <2>6 DEF ScoreReads, Selectors
<1> QED
  BY <1>2, <1>3, <1>4, <1>5, <1>6, <1>7, <1>8, <1>9, <1>10 DEF ScoreReads

-----------------------------------------------------------------------------
(* Selections: what an assessment rests on *)

Sound(corpus) == corpus.assessed = corpus.evidence /\ grade[corpus.assessed]

(* What qualify has read by each of its steps, and what prepare has written. *)
QualifyFits(e) ==
  LET E == run[e] IN
  /\ E.step \in {"manifests", "prepared"} => Selection!Whole({"protocol"})
  /\ E.step = "hashes" => (~disturbed => E.corpus.assessed = evidence)
  /\ E.step \in {"decision", "qualified"} =>
       (~disturbed => E.corpus.assessed = E.corpus.evidence)
  /\ E.step = "qualified" => Selection!Whole({"attestation"}) /\ grade[E.corpus.assessed]

(* What score has read, written and verified by each of its steps. *)
LateSteps == {"identities", "corpus", "artifacts", "assessment"}
ScoreSteps == {"bound", "load", "rollout", "predictions", "arrays"} \cup LateSteps

CorpusFits(e) ==
  LET E == run[e] IN
  /\ E.step \in ScoreSteps => /\ Selection!Whole({"protocol", "manifests", "attestation"})
                              /\ ~disturbed => Sound(E.corpus)
  /\ E.step \in {"bound", "load"} => (~disturbed => E.corpus.evidence = evidence)
  /\ E.step \in {"rollout", "predictions", "arrays"} =>
       (~disturbed => E.loaded = E.corpus.evidence)
  /\ E.step \in {"predictions", "arrays"} => Taken(E.model)

PredictionsFit(e) ==
  LET E == run[e] IN
  /\ E.step \in LateSteps => /\ Selection!Whole({"arrays"})
                             /\ ~disturbed => predictions.evidence = E.corpus.evidence
  /\ E.step \in {"corpus", "artifacts", "assessment"} =>
       Selection!Whole({"identities"}) /\ predictions.corpus = E.corpus
  /\ E.step \in {"artifacts", "assessment"} => bindings.freeze = predictions.freeze
  /\ E.step = "assessment" => (swaps < 2 => predictions.model = "frozen")

(* What SelectionIsSealed says of all but the freeze: it needs no assumption  *)
(* on what overlaps or changes.                                              *)
AssessmentFits ==
  "assessment" \in kept \ torn =>
    /\ bindings.freeze = predictions.freeze
    /\ swaps < 2 => predictions.model = "frozen"
    /\ ~disturbed => /\ predictions.evidence = predictions.corpus.evidence
                     /\ grade[predictions.evidence]
    /\ Selection!Whole({"protocol", "manifests", "attestation", "arrays", "identities"})

(* The bound models have been swapped; if they were also removed, twice. *)
SwapsFit ==
  /\ Taken(weights) /\ Taken(predictions.model)
  /\ weights = "other" /\ frozen = {} => swaps >= 2

CampaignFits ==
  /\ "manifests" \in kept => Selection!Whole({"protocol"})
  /\ "qualified" \in kept \ torn => /\ Selection!Whole({"attestation"})
                                    /\ ~disturbed => Sound(qualified)

SelectionInv ==
  /\ \A e \in Commands : QualifyFits(e) /\ CorpusFits(e) /\ PredictionsFit(e)
  /\ AssessmentFits /\ SwapsFit /\ CampaignFits

(* What is written once stays whole. *)
LEMMA SelectionStaysWhole ==
  ASSUME OneStager, [Selection!Next]_Selection!vars,
         NEW f \in Selection!WrittenOnce, f \in kept \ torn
  PROVE  f \in kept' \ torn'
<1>1. ASSUME NEW e \in Commands, Selection!Command(e) \/ Selection!Fails(e)
      PROVE  f \in kept' \ torn'
  <2>1. run[e].step # f
    <3>1. SUFFICES ASSUME run[e].step = f
                   PROVE  FALSE
      OBVIOUS
    <3>2. PICK m \in Selection!MadeOnce : f \in Stages[m] /\ f \in Awaited[f]
      BY StageFacts
    <3> QED
      BY <3>1, <3>2 DEF OneStager, HasOneStager
  <2> QED
    BY <1>1, <2>1, SelectionKeeps
<1>2. CASE \/ Selection!ChangeTree \/ Selection!ChangeIgnored \/ Selection!DamageCaptures
           \/ UNCHANGED Selection!vars
  BY <1>2 DEF Selection!ChangeTree, Selection!ChangeIgnored, Selection!DamageCaptures,
              Selection!vars, Selection!campaign
<1> QED
  BY <1>1, <1>2, OneSelects

LEMMA WholeFilesStay ==
  ASSUME OneStager, [Selection!Next]_Selection!vars,
         NEW files \in SUBSET Selection!WrittenOnce, Selection!Whole(files)
  PROVE  Selection!Whole(files)'
BY SelectionStaysWhole DEF Selection!Whole

(* Who is at the end of score is the only one who predicts; what the protocol  *)
(* binds stays.                                                              *)
LEMMA PredictionsStay ==
  ASSUME OneStager, NEW e \in Commands, Selection!Command(e) \/ Selection!Fails(e),
         \/ "assessment" \in kept
         \/ \E d \in Commands : d # e /\ run[d].step \in LateSteps
         \/ run[e].step \notin {"arrays", "identities"}
  PROVE  predictions' = predictions
<1>1. /\ HasOneStager("predictions")
      /\ Stages["predictions"] = {"arrays", "identities", "corpus", "artifacts", "assessment"}
  BY DEF OneStager, Selection!MadeOnce, Stages
<1>2. run[e].step \notin {"arrays", "identities"}
  BY <1>1 DEF HasOneStager, Awaited, LateSteps
<1>3. ~Selection!WriteArrays(e) /\ ~Selection!WriteIdentities(e)
  BY <1>2 DEF Selection!WriteArrays, Selection!WriteIdentities, Selection!Writes, Selection!At
<1> QED
  BY <1>3, SelectionFrames DEF SelectionFrame

LEMMA BindingsStay ==
  ASSUME OneStager, NEW e \in Commands, Selection!Command(e) \/ Selection!Fails(e),
         Selection!Whole({"protocol"})
  PROVE  bindings' = bindings
<1>1. HasOneStager("inputs") /\ "protocol" \in Stages["inputs"]
      /\ "protocol" \in Awaited["protocol"]
  BY DEF OneStager, Selection!MadeOnce, Stages, Awaited
<1>2. run[e].step # "protocol"
  BY <1>1 DEF HasOneStager, Selection!Whole
<1>3. ~Selection!WriteProtocol(e)
  BY <1>2 DEF Selection!WriteProtocol, Selection!Writes, Selection!At
<1> QED
  BY <1>3, SelectionFrames DEF SelectionFrame

(* The swaps that the models in place, and those that were read, have cost. *)
LEMMA SelectionSwaps ==
  ASSUME CampaignBounds, Selection!TypeOK, [Selection!Next]_Selection!vars,
         Taken(weights), weights = "other" /\ frozen = {} => swaps >= 2
  PROVE  /\ swaps' >= swaps
         /\ (weights = "other" /\ frozen = {} => swaps >= 2)'
         /\ \A model : Taken(model) =>
              (model = "other" => swaps' >= 1 /\ (weights' = "frozen" => swaps' >= 2))
<1>0. swaps \in Nat /\ swaps' \in Nat
  <2>1. swaps \in Nat
    BY DEF Selection!TypeOK, CampaignBounds
  <2>2. swaps' = swaps \/ swaps' = swaps + 1
    <3>1. ASSUME NEW e \in Commands, Selection!Command(e) \/ Selection!Fails(e)
          PROVE  swaps' = swaps
      BY <3>1, SelectionFrames DEF SelectionFrame
    <3> QED
      BY <3>1, OneSelects DEF Selection!ChangeTree, Selection!ChangeIgnored,
               Selection!DamageCaptures, Selection!vars, Selection!ignored
  <2> QED
    BY <2>1, <2>2
<1>1. CASE UNCHANGED <<swaps, weights, frozen>>
  BY <1>0, <1>1 DEF Taken
<1>2. CASE Selection!ChangeIgnored
  BY <1>0, <1>2 DEF Selection!ChangeIgnored, Taken
<1>3. ASSUME NEW e \in Commands, Selection!Publish(e)
      PROVE  \/ UNCHANGED <<swaps, weights, frozen>>
             \/ swaps' = swaps /\ frozen = {} /\ weights' = "frozen"
  BY <1>3 DEF Selection!Publish, Selection!freezing
<1>4. CASE swaps' = swaps /\ frozen = {} /\ weights' = "frozen"
  BY <1>0, <1>4 DEF Taken, Selection!TypeOK
<1>5. ASSUME NEW e \in Commands, Selection!Command(e) \/ Selection!Fails(e)
      PROVE  Selection!Publish(e) \/ UNCHANGED <<swaps, weights, frozen>>
  BY <1>5, SelectionFrames DEF SelectionFrame
<1>6. CASE Selection!ChangeTree \/ Selection!DamageCaptures \/ UNCHANGED Selection!vars
  BY <1>1, <1>6 DEF Selection!ChangeTree, Selection!DamageCaptures, Selection!vars,
                    Selection!ignored, Selection!freezing
<1> QED
  BY <1>1, <1>2, <1>3, <1>4, <1>5, <1>6, OneSelects

(* The captures change under a reading only with disturbed. *)
LEMMA CapturesFollow ==
  ASSUME [Selection!Next]_Selection!vars
  PROVE  /\ grade' = grade /\ (disturbed => disturbed')
         /\ \A d \in Commands : run[d].step \in {"hashes", "bound", "load"} /\ ~disturbed' =>
              evidence' = evidence
<1>1. ASSUME NEW e \in Commands, Selection!Command(e) \/ Selection!Fails(e)
      PROVE  UNCHANGED <<evidence, grade, disturbed>>
  BY <1>1, SelectionFrames DEF SelectionFrame
<1>2. CASE Selection!DamageCaptures
  BY <1>2 DEF Selection!DamageCaptures
<1>3. CASE Selection!ChangeTree \/ Selection!ChangeIgnored \/ UNCHANGED Selection!vars
  BY <1>3 DEF Selection!ChangeTree, Selection!ChangeIgnored, Selection!vars, Selection!captured
<1> QED
  BY <1>1, <1>2, <1>3, OneSelects

LEMMA SelectionSits ==
  ASSUME CampaignBounds, Selection!TypeOK, OneStager, SelectionInv,
         [Selection!Next]_Selection!vars, NEW d \in Commands, run'[d] = run[d],
         run[d].step \in LateSteps => predictions' = predictions,
         Selection!Whole({"protocol"}) => bindings' = bindings
  PROVE  QualifyFits(d)' /\ CorpusFits(d)' /\ PredictionsFit(d)'
<1> DEFINE E == run[d]
<1>1. QualifyFits(d) /\ CorpusFits(d) /\ PredictionsFit(d) /\ SwapsFit
  BY DEF SelectionInv
<1>2. \A files \in SUBSET Selection!WrittenOnce :
        Selection!Whole(files) => Selection!Whole(files)'
  BY WholeFilesStay
<1>3. /\ {"protocol"} \in SUBSET Selection!WrittenOnce
      /\ {"attestation"} \in SUBSET Selection!WrittenOnce
      /\ {"arrays"} \in SUBSET Selection!WrittenOnce
      /\ {"identities"} \in SUBSET Selection!WrittenOnce
      /\ {"protocol", "manifests", "attestation"} \in SUBSET Selection!WrittenOnce
  BY DEF Selection!WrittenOnce
<1>4. /\ grade' = grade /\ (disturbed => disturbed')
      /\ E.step \in {"hashes", "bound", "load"} /\ ~disturbed' => evidence' = evidence
  BY CapturesFollow
<1>5. /\ swaps' >= swaps /\ swaps \in Nat /\ swaps' \in Nat
      /\ \A model : Taken(model) =>
           (model = "other" => swaps' >= 1 /\ (weights' = "frozen" => swaps' >= 2))
  <2>1. swaps' \in Nat /\ swaps \in Nat
    <3>1. swaps \in Nat
      BY DEF Selection!TypeOK, CampaignBounds
    <3>2. swaps' = swaps \/ swaps' = swaps + 1
      <4>1. ASSUME NEW e \in Commands, Selection!Command(e) \/ Selection!Fails(e)
            PROVE  swaps' = swaps
        BY <4>1, SelectionFrames DEF SelectionFrame
      <4> QED
        BY <4>1, OneSelects DEF Selection!ChangeTree, Selection!ChangeIgnored,
                 Selection!DamageCaptures, Selection!vars, Selection!ignored
    <3> QED
      BY <3>1, <3>2
  <2> QED
    BY <1>1, <2>1, SelectionSwaps DEF SwapsFit
<1>6. QualifyFits(d)'
  BY <1>1, <1>2, <1>3, <1>4 DEF QualifyFits
<1>7. CorpusFits(d)'
  <2>1. E.step \in ScoreSteps => /\ Selection!Whole({"protocol", "manifests", "attestation"})'
                                 /\ ~disturbed' => Sound(E.corpus)'
    BY <1>1, <1>2, <1>3, <1>4 DEF CorpusFits, Sound
  <2>2. /\ E.step \in {"bound", "load"} => (~disturbed' => E.corpus.evidence = evidence')
        /\ E.step \in {"rollout", "predictions", "arrays"} =>
             (~disturbed' => E.loaded = E.corpus.evidence)
    BY <1>1, <1>4 DEF CorpusFits
  <2>3. E.step \in {"predictions", "arrays"} =>
          (E.model = "other" => swaps' >= 1 /\ (weights' = "frozen" => swaps' >= 2))
    BY <1>1, <1>5 DEF CorpusFits
  <2> QED
    BY <2>1, <2>2, <2>3 DEF CorpusFits, Taken, Sound
<1>8. PredictionsFit(d)'
  <2>1. E.step \in LateSteps => /\ Selection!Whole({"arrays"})'
                                /\ ~disturbed' => predictions'.evidence = E.corpus.evidence
    BY <1>1, <1>2, <1>3, <1>4 DEF PredictionsFit
  <2>2. E.step \in {"corpus", "artifacts", "assessment"} =>
          Selection!Whole({"identities"})' /\ predictions'.corpus = E.corpus
    BY <1>1, <1>2, <1>3 DEF PredictionsFit, LateSteps
  <2>3. E.step \in {"artifacts", "assessment"} => bindings'.freeze = predictions'.freeze
    <3>1. E.step \in ScoreSteps => Selection!Whole({"protocol"})
      BY <1>1 DEF CorpusFits, Selection!Whole
    <3> QED
      BY <1>1, <3>1 DEF PredictionsFit, LateSteps, ScoreSteps
  <2>4. E.step = "assessment" => (swaps' < 2 => predictions'.model = "frozen")
    BY <1>1, <1>5 DEF PredictionsFit, LateSteps
  <2> QED
    BY <2>1, <2>2, <2>3, <2>4 DEF PredictionsFit
<1> QED
  BY <1>6, <1>7, <1>8

LEMMA SelectionMoves ==
  ASSUME CampaignBounds, Selection!TypeOK, OneStager, SelectionInv,
         [Selection!Next]_Selection!vars, NEW e \in Commands,
         Selection!Command(e) \/ Selection!Fails(e)
  PROVE  QualifyFits(e)' /\ CorpusFits(e)' /\ PredictionsFit(e)'
<1> DEFINE E == run[e]
           s == run[e].step
           t == run'[e].step
           F == run'[e]
<1>1. QualifyFits(e) /\ CorpusFits(e) /\ PredictionsFit(e) /\ SwapsFit /\ CampaignFits
  BY DEF SelectionInv
<1>2. \A files \in SUBSET Selection!WrittenOnce :
        Selection!Whole(files) => Selection!Whole(files)'
  BY WholeFilesStay
<1>3. /\ {"protocol"} \in SUBSET Selection!WrittenOnce
      /\ {"attestation"} \in SUBSET Selection!WrittenOnce
      /\ {"arrays"} \in SUBSET Selection!WrittenOnce
      /\ {"identities"} \in SUBSET Selection!WrittenOnce
      /\ {"protocol", "manifests", "attestation"} \in SUBSET Selection!WrittenOnce
  BY DEF Selection!WrittenOnce
<1>4. /\ UNCHANGED <<evidence, grade, disturbed, swaps>>
      /\ Selection!Publish(e) \/ UNCHANGED weights
  BY SelectionFrames DEF SelectionFrame
<1>5. QualifyReads(e) /\ ScoreReads(e)
  BY QualifyLearns, ScoreLearns
<1>6. t # "ended" => weights' = weights
  <2>1. Selection!Publish(e) => t = "ended"
    BY SelectionGoes, SelectionKnown DEF Selection!Publish, Selection!Steps
  <2> QED
    BY <1>4, <2>1
<1>7. QualifyFits(e)'
  <2>1. t = "manifests" => Selection!Whole({"protocol"})'
    <3>1. t = "manifests" => Selection!WriteProtocol(e)
      BY SelectionLeads
    <3> QED
      BY <3>1 DEF Selection!WriteProtocol, Selection!Writes, Selection!Whole
  <2>2. t = "prepared" => Selection!Whole({"protocol"})'
    <3>1. t = "prepared" => s = "manifests"
      BY SelectionLeads DEF Selection!WriteFile, Selection!Writes, Selection!At
    <3> QED
      BY <1>1, <1>2, <1>3, <3>1 DEF QualifyFits
  <2>3. t = "hashes" => (~disturbed' => F.corpus.assessed = evidence')
    BY <1>4, <1>5 DEF QualifyReads
  <2>4. t = "decision" => (~disturbed' => F.corpus.assessed = F.corpus.evidence)
    BY <1>1, <1>4, <1>5 DEF QualifyReads, QualifyFits
  <2>5. t = "qualified" => /\ ~disturbed' => F.corpus.assessed = F.corpus.evidence
                           /\ Selection!Whole({"attestation"})' /\ grade'[F.corpus.assessed]
    BY <1>1, <1>2, <1>3, <1>4, <1>5 DEF QualifyReads, QualifyFits
  <2> QED
    BY <2>1, <2>2, <2>3, <2>4, <2>5 DEF QualifyFits
<1>8. CorpusFits(e)'
  <2>1. t = "bound" => /\ Selection!Whole({"protocol", "manifests", "attestation"})
                       /\ ~disturbed => Sound(F.corpus)
    BY <1>1, <1>5 DEF ScoreReads, CampaignFits, Selection!Whole
  <2>2. t \in ScoreSteps /\ t # "bound" => F.corpus = E.corpus /\ s \in ScoreSteps
    BY <1>5 DEF ScoreReads, ScoreSteps, LateSteps
  <2>3. t \in ScoreSteps => /\ Selection!Whole({"protocol", "manifests", "attestation"})
                            /\ ~disturbed => Sound(F.corpus)
    BY <1>1, <2>1, <2>2 DEF CorpusFits
  <2>4. t \in ScoreSteps => /\ Selection!Whole({"protocol", "manifests", "attestation"})'
                            /\ ~disturbed' => Sound(E.corpus)'
    BY <1>2, <1>3, <1>4, <2>3 DEF Sound
  <2>5. t \in {"bound", "load"} => (~disturbed' => F.corpus.evidence = evidence')
    BY <1>1, <1>4, <1>5 DEF ScoreReads, CorpusFits
  <2>6. t \in {"rollout", "predictions", "arrays"} =>
          (~disturbed' => F.loaded = F.corpus.evidence)
    BY <1>1, <1>4, <1>5 DEF ScoreReads, CorpusFits
  <2>7. t \in {"predictions", "arrays"} => Taken(F.model)
    BY <1>1, <1>5 DEF ScoreReads, CorpusFits, SwapsFit
  <2>8. t \in {"predictions", "arrays"} => Taken(E.model)'
    BY <1>4, <1>6, <2>7 DEF Taken
  <2> QED
    BY <2>4, <2>5, <2>6, <2>8 DEF CorpusFits, Sound
<1>9. PredictionsFit(e)'
  <2>1. predictions \in [model : {"frozen", "other"}, evidence : Selection!Versions,
                         freeze : Selection!Freezes, corpus : Selection!Corpora]
    BY DEF Selection!TypeOK
  <2>2. t = "identities" => predictions'.evidence = E.loaded
    BY <1>5, <2>1 DEF ScoreReads
  <2>3. t = "corpus" => predictions'.evidence = predictions.evidence
                        /\ predictions'.corpus = E.corpus
    BY <1>5, <2>1 DEF ScoreReads
  <2>4. t \in LateSteps => (~disturbed' => predictions'.evidence = F.corpus.evidence)
    BY <1>1, <1>4, <1>5, <2>2, <2>3 DEF ScoreReads, CorpusFits, PredictionsFit, LateSteps
  <2>5. t \in LateSteps => Selection!Whole({"arrays"})'
    <3>1. t = "identities" => Selection!Whole({"arrays"})'
      BY <1>5 DEF ScoreReads, Selection!Whole
    <3> QED
      BY <1>1, <1>2, <1>3, <1>5, <3>1 DEF ScoreReads, PredictionsFit, LateSteps
  <2>6. t \in {"corpus", "artifacts", "assessment"} =>
          Selection!Whole({"identities"})' /\ predictions'.corpus = F.corpus
    <3>1. t = "corpus" => Selection!Whole({"identities"})'
      BY <1>5 DEF ScoreReads, Selection!Whole
    <3> QED
      BY <1>1, <1>2, <1>3, <1>5, <2>3, <3>1 DEF ScoreReads, PredictionsFit
  <2>7. t \in {"artifacts", "assessment"} => bindings'.freeze = predictions'.freeze
    BY <1>1, <1>5 DEF ScoreReads, PredictionsFit
  <2>8. t = "assessment" => (swaps' < 2 => predictions'.model = "frozen")
    <3>1. swaps \in Nat
      BY DEF Selection!TypeOK, CampaignBounds
    <3>2. t = "assessment" => weights = "frozen" /\ predictions' = predictions
      BY <1>5 DEF ScoreReads
    <3>3. predictions.model \in {"frozen", "other"}
      BY <2>1
    <3> QED
      BY <1>1, <1>4, <3>1, <3>2, <3>3 DEF SwapsFit, Taken
  <2> QED
    BY <2>4, <2>5, <2>6, <2>7, <2>8 DEF PredictionsFit
<1> QED
  BY <1>7, <1>8, <1>9

LEMMA OnlyQualifyWrites ==
  ASSUME NEW e, Selection!Command(e), run[e].step = "qualified"
  PROVE  Selection!WriteQualified(e)
<1> USE DEF Selection!Makes, Selection!Writes, Selection!At
<1>1. ~Selection!Start(e)
  BY DEF Selection!Start
<1>2. ~Selection!Preflight(e)
  BY DEF Selection!Preflight
<1>3. ~Selection!ReadCommit(e)
  BY DEF Selection!ReadCommit
<1>4. ~Selection!CheckOutput(e)
  BY DEF Selection!CheckOutput
<1>5. ~Selection!ReadFit(e)
  BY DEF Selection!ReadFit
<1>6. ~Selection!MakeStaging(e)
  BY DEF Selection!MakeStaging
<1>7. ~Selection!VerifyRestore(e)
  BY DEF Selection!VerifyRestore
<1>8. ~Selection!HashSources(e)
  BY DEF Selection!HashSources
<1>9. ~Selection!Publish(e)
  BY DEF Selection!Publish
<1>10. ~Selection!Bind(e)
  BY DEF Selection!Bind
<1>11. ~Selection!MakeInputs(e)
  BY DEF Selection!MakeInputs
<1>12. ~Selection!WriteProtocol(e)
  BY DEF Selection!WriteProtocol
<1>13. ~Selection!CheckUnclaimed(e)
  BY DEF Selection!CheckUnclaimed
<1>14. ~Selection!MakeCaptures(e)
  BY DEF Selection!MakeCaptures
<1>15. ~Selection!ReadProtocol(e)
  BY DEF Selection!ReadProtocol
<1>16. ~Selection!AssessPairs(e)
  BY DEF Selection!AssessPairs
<1>17. ~Selection!HashCaptures(e)
  BY DEF Selection!HashCaptures
<1>18. ~Selection!Decide(e)
  BY DEF Selection!Decide
<1>19. ~Selection!VerifySources(e)
  BY DEF Selection!VerifySources
<1>20. ~Selection!CheckBound(e)
  BY DEF Selection!CheckBound
<1>21. ~Selection!LoadCaptures(e)
  BY DEF Selection!LoadCaptures
<1>22. ~Selection!Rollout(e)
  BY DEF Selection!Rollout
<1>23. ~Selection!MakePredictions(e)
  BY DEF Selection!MakePredictions
<1>24. ~Selection!WriteArrays(e)
  BY DEF Selection!WriteArrays
<1>25. ~Selection!WriteIdentities(e)
  BY DEF Selection!WriteIdentities
<1>26. ~Selection!AssessCorpus(e)
  BY DEF Selection!AssessCorpus
<1>27. ~Selection!AssessArtifacts(e)
  BY DEF Selection!AssessArtifacts
<1>28. \A name \in DOMAIN Selection!AfterStaged : ~Selection!WriteStaged(e, name)
  BY DEF Selection!WriteStaged, Selection!AfterStaged
<1>29. \A name \in DOMAIN Selection!AfterWrite : ~Selection!WriteFile(e, name)
  BY DEF Selection!WriteFile, Selection!AfterWrite
<1> QED
  BY <1>1, <1>2, <1>3, <1>4, <1>5, <1>6, <1>7, <1>8, <1>9, <1>10, <1>11, <1>12, <1>13, <1>14,
     <1>15, <1>16, <1>17, <1>18, <1>19, <1>20, <1>21, <1>22, <1>23,
     <1>24, <1>25, <1>26, <1>27, <1>28, <1>29
  DEF Selection!Command

LEMMA SelectionSwapsGrow ==
  ASSUME CampaignBounds, Selection!TypeOK, [Selection!Next]_Selection!vars
  PROVE  swaps \in Nat /\ (swaps' = swaps \/ swaps' = swaps + 1)
<1>1. swaps \in Nat
  BY DEF Selection!TypeOK, CampaignBounds
<1>2. ASSUME NEW e \in Commands, Selection!Command(e) \/ Selection!Fails(e)
      PROVE  swaps' = swaps
  BY <1>2, SelectionFrames DEF SelectionFrame
<1> QED
  BY <1>1, <1>2, OneSelects DEF Selection!ChangeTree, Selection!ChangeIgnored,
           Selection!DamageCaptures, Selection!vars, Selection!ignored

LEMMA CampaignFitsStep ==
  ASSUME CampaignBounds, Selection!TypeOK, OneStager, SelectionInv,
         [Selection!Next]_Selection!vars
  PROVE  CampaignFits'
<1>1. CampaignFits
  BY DEF SelectionInv
<1>2. \A files \in SUBSET Selection!WrittenOnce :
        Selection!Whole(files) => Selection!Whole(files)'
  BY WholeFilesStay
<1>3. /\ {"protocol"} \in SUBSET Selection!WrittenOnce
      /\ {"attestation"} \in SUBSET Selection!WrittenOnce
  BY DEF Selection!WrittenOnce
<1>4. grade' = grade /\ (disturbed => disturbed')
  BY CapturesFollow
<1>5. CASE UNCHANGED <<kept, torn, qualified>>
  BY <1>1, <1>2, <1>3, <1>4, <1>5 DEF CampaignFits, Sound
<1>6. ASSUME NEW e \in Commands, Selection!Command(e) \/ Selection!Fails(e)
      PROVE  CampaignFits'
  <2>1. QualifyFits(e)
    BY DEF SelectionInv
  <2>2. "manifests" \in kept' => Selection!Whole({"protocol"})'
    <3>1. "manifests" \in kept' => "manifests" \in kept \/ run[e].step = "manifests"
      BY <1>6, SelectionKeeps
    <3> QED
      BY <1>1, <1>2, <1>3, <2>1, <3>1 DEF CampaignFits, QualifyFits
  <2>3. ASSUME "qualified" \in kept' \ torn'
        PROVE  Selection!Whole({"attestation"})' /\ (~disturbed' => Sound(qualified)')
    <3>1. CASE Selection!WriteQualified(e)
      <4>1. run[e].step = "qualified" /\ qualified' = run[e].corpus
        BY <3>1 DEF Selection!WriteQualified, Selection!Writes, Selection!At
      <4> QED
        BY <1>2, <1>3, <1>4, <2>1, <4>1 DEF QualifyFits, Sound
    <3>2. CASE ~Selection!WriteQualified(e)
      <4>1. qualified' = qualified
        BY <1>6, <3>2, SelectionFrames DEF SelectionFrame
      <4>2. "qualified" \in kept \ torn
        <5>1. SUFFICES ASSUME ~("qualified" \in kept \ torn)
                       PROVE  FALSE
          OBVIOUS
        <5>2. run[e].step = "qualified" /\ ~Selection!Fails(e)
          BY <1>6, <2>3, <5>1, SelectionKeeps
        <5> QED
          BY <1>6, <3>2, <5>2, OnlyQualifyWrites
      <4> QED
        BY <1>1, <1>2, <1>3, <1>4, <4>1, <4>2 DEF CampaignFits, Sound
    <3> QED
      BY <3>1, <3>2
  <2> QED
    BY <2>2, <2>3 DEF CampaignFits
<1>7. CASE \/ Selection!ChangeTree \/ Selection!ChangeIgnored \/ Selection!DamageCaptures
           \/ UNCHANGED Selection!vars
  BY <1>5, <1>7 DEF Selection!ChangeTree, Selection!ChangeIgnored, Selection!DamageCaptures,
                    Selection!vars, Selection!campaign
<1> QED
  BY <1>6, <1>7, OneSelects

LEMMA AssessmentFitsStep ==
  ASSUME CampaignBounds, Selection!TypeOK, OneStager, SelectionInv,
         [Selection!Next]_Selection!vars
  PROVE  AssessmentFits'
<1> DEFINE Campaign == {"protocol", "manifests", "attestation", "arrays", "identities"}
<1>0. SUFFICES ASSUME "assessment" \in kept' \ torn'
               PROVE  /\ bindings'.freeze = predictions'.freeze
                      /\ swaps' < 2 => predictions'.model = "frozen"
                      /\ ~disturbed' => /\ predictions'.evidence = predictions'.corpus.evidence
                                        /\ grade'[predictions'.evidence]
                      /\ Selection!Whole(Campaign)'
  BY DEF AssessmentFits
<1>1. AssessmentFits /\ SwapsFit
  BY DEF SelectionInv
<1>2. Selection!Whole(Campaign) => Selection!Whole(Campaign)'
  BY WholeFilesStay DEF Selection!WrittenOnce
<1>3. grade' = grade /\ (disturbed => disturbed')
  BY CapturesFollow
<1>4. swaps' >= swaps /\ swaps \in Nat /\ swaps' \in Nat
  <2>1. swaps' >= swaps
    BY <1>1, SelectionSwaps DEF SwapsFit
  <2> QED
    BY <2>1, SelectionSwapsGrow
<1>5. CASE /\ "assessment" \in kept \ torn
           /\ UNCHANGED <<predictions, bindings>>
  BY <1>1, <1>2, <1>3, <1>4, <1>5 DEF AssessmentFits
<1>6. ASSUME NEW e \in Commands, Selection!Command(e) \/ Selection!Fails(e)
      PROVE  /\ bindings'.freeze = predictions'.freeze
             /\ swaps' < 2 => predictions'.model = "frozen"
             /\ ~disturbed' => /\ predictions'.evidence = predictions'.corpus.evidence
                               /\ grade'[predictions'.evidence]
             /\ Selection!Whole(Campaign)'
  <2>1. CASE "assessment" \in kept \ torn
    <3>1. Selection!Whole({"protocol"})
      BY <1>1, <2>1 DEF AssessmentFits, Selection!Whole
    <3>2. predictions' = predictions /\ bindings' = bindings
      BY <1>6, <2>1, <3>1, PredictionsStay, BindingsStay
    <3> QED
      BY <1>5, <2>1, <3>2
  <2>2. CASE ~("assessment" \in kept \ torn)
    <3>1. run[e].step = "assessment"
      BY <1>0, <1>6, <2>2, SelectionKeeps
    <3>2. CorpusFits(e) /\ PredictionsFit(e)
      BY DEF SelectionInv
    <3>3. /\ Selection!Whole({"protocol", "manifests", "attestation"})
          /\ Selection!Whole({"arrays"}) /\ Selection!Whole({"identities"})
          /\ bindings.freeze = predictions.freeze /\ predictions.corpus = run[e].corpus
          /\ swaps < 2 => predictions.model = "frozen"
          /\ ~disturbed => /\ Sound(run[e].corpus)
                           /\ predictions.evidence = run[e].corpus.evidence
      BY <3>1, <3>2 DEF CorpusFits, PredictionsFit, ScoreSteps, LateSteps
    <3>4. Selection!Whole({"protocol"}) /\ Selection!Whole(Campaign)
      BY <3>3 DEF Selection!Whole
    <3>5. predictions' = predictions /\ bindings' = bindings
      BY <1>6, <3>1, <3>4, PredictionsStay, BindingsStay
    <3> QED
      BY <1>2, <1>3, <1>4, <3>3, <3>4, <3>5 DEF Sound
  <2> QED
    BY <2>1, <2>2
<1>7. CASE \/ Selection!ChangeTree \/ Selection!ChangeIgnored \/ Selection!DamageCaptures
           \/ UNCHANGED Selection!vars
  BY <1>0, <1>5, <1>7 DEF Selection!ChangeTree, Selection!ChangeIgnored,
           Selection!DamageCaptures, Selection!vars, Selection!campaign
<1> QED
  BY <1>6, <1>7, OneSelects

LEMMA SelectionInvStep ==
  ASSUME CampaignBounds, Selection!TypeOK, OneStager, SelectionInv,
         [Selection!Next]_Selection!vars
  PROVE  SelectionInv'
<1>1. CampaignFits' /\ AssessmentFits'
  BY CampaignFitsStep, AssessmentFitsStep
<1>2. SwapsFit /\ \A d \in Commands : CorpusFits(d) /\ PredictionsFit(d)
  BY DEF SelectionInv
<1>3. /\ (weights = "other" /\ frozen = {} => swaps >= 2)'
      /\ \A model : Taken(model) =>
           (model = "other" => swaps' >= 1 /\ (weights' = "frozen" => swaps' >= 2))
      /\ swaps \in Nat /\ swaps' \in Nat /\ swaps' >= swaps
  BY <1>2, SelectionSwaps, SelectionSwapsGrow DEF SwapsFit
<1>4. ASSUME NEW e \in Commands, Selection!Command(e) \/ Selection!Fails(e)
      PROVE  /\ \A d \in Commands : QualifyFits(d)' /\ CorpusFits(d)' /\ PredictionsFit(d)'
             /\ SwapsFit'
  <2>1. \A f \in Commands : f # e => run'[f] = run[f]
    BY <1>4, SelectionLeads
  <2>2. ASSUME NEW d \in Commands
        PROVE  QualifyFits(d)' /\ CorpusFits(d)' /\ PredictionsFit(d)'
    <3>1. CASE d = e
      BY <1>4, <3>1, SelectionMoves
    <3>2. CASE d # e
      <4>1. run[d].step \in LateSteps => predictions' = predictions
        BY <1>4, <3>2, PredictionsStay
      <4>2. Selection!Whole({"protocol"}) => bindings' = bindings
        BY <1>4, BindingsStay
      <4> QED
        BY <2>1, <3>2, <4>1, <4>2, SelectionSits
    <3> QED
      BY <3>1, <3>2
  <2>3. swaps' = swaps
    BY <1>4, SelectionFrames DEF SelectionFrame
  <2>4. Taken(weights)'
    <3>1. weights' = weights \/ weights' = "frozen"
      BY <1>4, SelectionFrames DEF SelectionFrame, Selection!Publish, Selection!freezing
    <3> QED
      BY <1>2, <2>3, <3>1 DEF SwapsFit, Taken
  <2>5. Taken(predictions.model)'
    <3>1. predictions \in [model : {"frozen", "other"}, evidence : Selection!Versions,
                           freeze : Selection!Freezes, corpus : Selection!Corpora]
      BY DEF Selection!TypeOK
    <3>2. \/ predictions'.model = predictions.model
          \/ run[e].step = "arrays" /\ predictions'.model = run[e].model
      <4>1. CASE Selection!WriteArrays(e)
        BY <3>1, <4>1 DEF Selection!WriteArrays, Selection!Writes, Selection!At
      <4>2. CASE Selection!WriteIdentities(e)
        BY <3>1, <4>2 DEF Selection!WriteIdentities, Selection!Checks, Selection!Learns,
                          Selection!campaign
      <4> QED
        BY <1>4, <4>1, <4>2, SelectionFrames DEF SelectionFrame
    <3>3. Taken(predictions.model) /\ (run[e].step = "arrays" => Taken(run[e].model))
      BY <1>2 DEF SwapsFit, CorpusFits
    <3> QED
      BY <1>3, <3>2, <3>3 DEF Taken
  <2> QED
    BY <1>3, <2>2, <2>4, <2>5 DEF SwapsFit
<1>5. CASE /\ \/ Selection!ChangeTree \/ Selection!ChangeIgnored \/ Selection!DamageCaptures
              \/ UNCHANGED Selection!vars
           /\ run' = run
  <2>1. UNCHANGED <<predictions, bindings>>
    BY <1>5 DEF Selection!ChangeTree, Selection!ChangeIgnored, Selection!DamageCaptures,
                Selection!vars, Selection!campaign
  <2>2. \A d \in Commands : QualifyFits(d)' /\ CorpusFits(d)' /\ PredictionsFit(d)'
    BY <1>5, <2>1, SelectionSits
  <2>3. Taken(predictions.model)'
    BY <1>2, <1>3, <2>1 DEF SwapsFit, Taken
  <2>4. Taken(weights)'
    <3>1. CASE weights' = weights /\ swaps' = swaps
      BY <1>2, <3>1 DEF SwapsFit, Taken
    <3>2. CASE Selection!ChangeIgnored
      <4>1. swaps' = swaps + 1 /\ (weights' = weights \/ frozen # {})
        BY <3>2 DEF Selection!ChangeIgnored
      <4> QED
        BY <1>2, <1>3, <4>1 DEF SwapsFit, Taken
    <3> QED
      BY <1>5, <3>1, <3>2 DEF Selection!ChangeTree, Selection!DamageCaptures, Selection!vars,
                              Selection!ignored
  <2> QED
    BY <1>1, <1>3, <2>2, <2>3, <2>4 DEF SelectionInv, SwapsFit
<1> QED
  BY <1>1, <1>4, <1>5, OneSelects DEF SelectionInv

LEMMA InitOneStager ==
  ASSUME Selection!Init
  PROVE  OneStager
<1>1. kept = {} /\ \A e \in Commands : run[e].step = "idle"
  BY DEF Selection!Init, Selection!Rests
<1>2. \A m \in Selection!MadeOnce : "idle" \notin Stages[m]
  BY DEF Selection!MadeOnce, Stages
<1> QED
  BY <1>1, <1>2 DEF OneStager, HasOneStager

LEMMA InitSelectionInv ==
  ASSUME Selection!Init
  PROVE  SelectionInv
<1>1. /\ kept = {} /\ weights = "frozen" /\ predictions.model = "frozen"
      /\ \A e \in Commands : run[e].step = "idle"
  BY DEF Selection!Init, Selection!Rests
<1> QED
  BY <1>1 DEF SelectionInv, QualifyFits, CorpusFits, PredictionsFit, AssessmentFits, SwapsFit,
              CampaignFits, Taken, ScoreSteps, LateSteps

(* What an assessment rests on was completely written and qualified, and        *)
(* predicted by the frozen models (assess_stored_mprm_selection), whatever      *)
(* commands overlap and whatever changes.                                      *)
THEOREM SelectionsRestOnTheCampaign ==
  ASSUME CampaignBounds
  PROVE  Selection!Spec => []AssessmentFits
<1>1. Selection!Init => SelectionTyped /\ OneStager /\ SelectionInv
  BY InitSelectionTyped, InitOneStager, InitSelectionInv
<1>2. SelectionTyped /\ OneStager /\ SelectionInv /\ [Selection!Next]_Selection!vars
        => SelectionTyped' /\ OneStager' /\ SelectionInv'
  BY SelectionStays, OneStagerStep, SelectionInvStep DEF SelectionTyped
<1>3. SelectionInv => AssessmentFits
  BY DEF SelectionInv
<1> QED
  BY <1>1, <1>2, <1>3, PTL DEF Selection!Spec

-----------------------------------------------------------------------------
(* Selections: the freeze *)

(* What one edit makes of the tracked files and of HEAD. *)
SelectionPlaced ==
  /\ tree \in {head, 3} /\ head \in {1, 2}
  /\ edits = 0 => tree = 1 /\ head = 1
  /\ edits = 1 => <<tree, head>> \in {<<3, 1>>, <<2, 2>>}

(* What fit-and-freeze has read, by its steps: the commit and the protocol;    *)
(* the recipe and the evidence of the fit; the sources.                      *)
CommitFits(m) ==
  /\ edits = 0 => m.protocol = "first" /\ m.commit = 1
  /\ edits < 2 /\ m.protocol = "first" => m.commit = 1

RecipeFits(m) ==
  /\ edits = 0 => m.recipe = "first"
  /\ edits < 2 /\ m.protocol = "second" => m.recipe = "second"
  /\ m.fit = "other" => swaps >= 1 /\ (fitSource = "pinned" => swaps >= 2)

SourceFits(m) ==
  /\ edits = 0 => m.source = 1
  /\ m.source = 3 => edits >= 1 /\ (tree = head => edits >= 2)

FittingSteps == {"staging", "models", "parity", "sources"}
HashedSteps == {"manifest", "outcome", "rename"}

FreezerFits(e) ==
  LET E == run[e] IN
  /\ E.step \in {"absent", "fit"} \cup FittingSteps \cup HashedSteps => CommitFits(E.manifest)
  /\ E.step \in FittingSteps \cup HashedSteps => RecipeFits(E.manifest)
  /\ E.step \in HashedSteps => SourceFits(E.manifest)
  /\ E.step \in {"inputs", "protocol"} => /\ E.manifest.id <= freeze.id
                                          /\ edits = 0 => E.manifest.protocol = "first"

FreezesFit ==
  /\ SelectionPlaced /\ (fitSource = "other" => swaps >= 1)
  /\ CommitFits(freeze) /\ RecipeFits(freeze) /\ SourceFits(freeze)
  /\ bindings.freeze <= freeze.id /\ (edits = 0 => bindings.protocol = "first")
  /\ \A e \in Commands : FreezerFits(e)

(* What the steps of fit-and-freeze and of prepare read. *)
FreezerReads(e) ==
  LET s == run[e].step
      t == run'[e].step
      m == run[e].manifest
      n == run'[e].manifest
  IN
  /\ t = "absent" => n.commit = head /\ n.protocol = Selection!Protocol(tree)
  /\ t = "fit" => s = "absent" /\ n = m
  /\ t = "staging" => /\ s = "fit" /\ n.commit = m.commit /\ n.protocol = m.protocol
                      /\ n.recipe = Selection!Protocol(tree) /\ n.fit = fitSource
  /\ t \in {"models", "parity", "sources"} => s \in FittingSteps /\ n = m
  /\ t = "manifest" => /\ s \in FittingSteps /\ n.commit = m.commit /\ n.protocol = m.protocol
                       /\ n.recipe = m.recipe /\ n.fit = m.fit /\ n.source = tree
  /\ t \in {"outcome", "rename"} => s \in HashedSteps /\ n = m

PrepareReads(e) ==
  LET s == run[e].step
      t == run'[e].step
      m == run[e].manifest
      n == run'[e].manifest
  IN
  /\ t = "bind" => fitSource = "pinned" /\ tree = head
  /\ t = "inputs" => s = "bind" /\ n.id = freeze.id /\ n.protocol = Selection!Protocol(tree)
  /\ t = "protocol" => s = "inputs" /\ n = m
  /\ Selection!WriteProtocol(e) =>
       s = "protocol" /\ bindings'.freeze = m.id /\ bindings'.protocol = m.protocol

LEMMA SameManifest ==
  ASSUME CampaignBounds, Selection!TypeOK, NEW e \in Commands, NEW next,
         next \in Selection!Steps, NEW to, to = next \/ to = "ended",
         Selection!Goto(e, to, run[e]), run'[e].step # "ended"
  PROVE  run'[e].manifest = run[e].manifest
<1>1. run[e] \in Selectors
  BY SelectionKnown
<1>2. run'[e] = [run[e] EXCEPT !.step = next]
  BY <1>1, SelectionWent
<1> QED
  BY <1>1, <1>2 DEF Selectors

LEMMA FreezerLearns ==
  ASSUME CampaignBounds, Selection!TypeOK, NEW e \in Commands,
         Selection!Command(e) \/ Selection!Fails(e)
  PROVE  FreezerReads(e)
<1> DEFINE E == run[e]
           s == run[e].step
           t == run'[e].step
           m == run[e].manifest
           n == run'[e].manifest
<1>1. /\ E \in Selectors /\ head \in Selection!Commits /\ tree \in Selection!Trees
      /\ fitSource \in {"pinned", "other"}
  BY SelectionKnown DEF Selection!TypeOK
<1>2. /\ "absent" \in Selection!Steps /\ "fit" \in Selection!Steps
      /\ "staging" \in Selection!Steps /\ "models" \in Selection!Steps
      /\ "parity" \in Selection!Steps /\ "sources" \in Selection!Steps
      /\ "manifest" \in Selection!Steps /\ "outcome" \in Selection!Steps
      /\ "rename" \in Selection!Steps
  BY DEF Selection!Steps
<1> USE DEF Selection!At
<1>3. CASE t = "absent"
  <2>1. Selection!ReadCommit(e)
    BY <1>3, SelectionLeads
  <2>2. PICK p \in Selection!Protocols : p = Selection!Protocol(tree)
    BY ProtocolTyped
  <2>3. PICK c : c = [E.manifest EXCEPT !.commit = head, !.protocol = p]
    OBVIOUS
  <2>4. PICK knows : knows = [E EXCEPT !.manifest.commit = head, !.manifest.protocol = p]
    OBVIOUS
  <2>5. /\ c \in Selection!Manifests /\ c.commit = head /\ c.protocol = p
        /\ knows \in Selectors /\ knows.manifest = c
    BY <1>1, <2>2, <2>3, <2>4 DEF Selectors, Selection!Manifests
  <2>6. Selection!Goto(e, "absent", knows)
    BY <2>1, <2>2, <2>4 DEF Selection!ReadCommit, Selection!Learns
  <2>7. run'[e] = [knows EXCEPT !.step = "absent"]
    BY <1>2, <1>3, <2>5, <2>6, SelectionWent
  <2> QED
    BY <1>3, <2>2, <2>5, <2>7 DEF FreezerReads, Selectors
<1>4. CASE t = "fit"
  <2>1. Selection!CheckOutput(e)
    BY <1>4, SelectionLeads
  <2>2. PICK to : (to = "fit" \/ to = "ended") /\ Selection!Goto(e, to, E)
    BY <2>1 DEF Selection!CheckOutput, Selection!Checks, Selection!Learns
  <2>3. s = "absent" /\ t # "ended"
    BY <1>4, <2>1 DEF Selection!CheckOutput
  <2>4. n = m
    BY <1>2, <2>2, <2>3, SameManifest
  <2> QED
    BY <1>4, <2>3, <2>4 DEF FreezerReads
<1>5. CASE t = "staging"
  <2>1. Selection!ReadFit(e)
    BY <1>5, SelectionLeads
  <2>2. PICK p \in Selection!Protocols : p = Selection!Protocol(tree)
    BY ProtocolTyped
  <2>3. PICK f \in {"pinned", "other"} : f = fitSource
    BY <1>1
  <2>4. PICK c : c = [E.manifest EXCEPT !.recipe = p, !.fit = f]
    OBVIOUS
  <2>5. PICK knows : knows = [E EXCEPT !.manifest.recipe = p, !.manifest.fit = f]
    OBVIOUS
  <2>6. /\ c \in Selection!Manifests /\ c.commit = m.commit /\ c.protocol = m.protocol
        /\ c.recipe = p /\ c.fit = f
    BY <1>1, <2>4 DEF Selectors, Selection!Manifests
  <2>7. knows = [E EXCEPT !.manifest = c]
    BY <1>1, <2>4, <2>5 DEF Selectors, Selection!Manifests
  <2>8. knows \in Selectors /\ knows.manifest = c
    BY <1>1, <2>6, <2>7 DEF Selectors
  <2>9. Selection!Goto(e, "staging", knows) /\ s = "fit"
    BY <2>1, <2>2, <2>3, <2>5 DEF Selection!ReadFit, Selection!Learns
  <2>10. run'[e] = [knows EXCEPT !.step = "staging"]
    BY <1>2, <1>5, <2>8, <2>9, SelectionWent
  <2>11. n = c
    BY <2>8, <2>10 DEF Selectors
  <2> QED
    BY <1>5, <2>2, <2>3, <2>6, <2>9, <2>11 DEF FreezerReads
<1>6. CASE t = "models"
  <2>1. Selection!MakeStaging(e)
    BY <1>6, SelectionLeads
  <2>2. PICK to : (to = "models" \/ to = "ended") /\ Selection!Goto(e, to, E)
    BY <2>1 DEF Selection!MakeStaging
  <2>3. s = "staging" /\ t # "ended"
    BY <1>6, <2>1 DEF Selection!MakeStaging
  <2>4. n = m
    BY <1>2, <2>2, <2>3, SameManifest
  <2> QED
    BY <1>6, <2>3, <2>4 DEF FreezerReads, FittingSteps
<1>7. CASE t \in {"parity", "outcome", "rename"}
  <2>1. PICK name \in {"models", "manifest", "outcome"} :
          Selection!WriteStaged(e, name) /\ t = Selection!AfterStaged[name]
    BY <1>7, SelectionLeads DEF Selection!AfterStaged
  <2>2. PICK to : (to = t \/ to = "ended") /\ Selection!Goto(e, to, E)
    BY <2>1 DEF Selection!WriteStaged
  <2>3. s = name /\ t # "ended" /\ t \in Selection!Steps
    BY <1>2, <1>7, <2>1 DEF Selection!WriteStaged
  <2>4. n = m
    BY <2>2, <2>3, SameManifest
  <2> QED
    BY <1>7, <2>1, <2>3, <2>4 DEF FreezerReads, FittingSteps, HashedSteps, Selection!AfterStaged
<1>8. CASE t = "sources"
  <2>1. Selection!VerifyRestore(e)
    BY <1>8, SelectionLeads
  <2>2. PICK to : (to = "sources" \/ to = "ended") /\ Selection!Goto(e, to, E)
    BY <2>1 DEF Selection!VerifyRestore, Selection!Checks, Selection!Learns
  <2>3. s = "parity" /\ t # "ended"
    BY <1>8, <2>1 DEF Selection!VerifyRestore
  <2>4. n = m
    BY <1>2, <2>2, <2>3, SameManifest
  <2> QED
    BY <1>8, <2>3, <2>4 DEF FreezerReads, FittingSteps
<1>9. CASE t = "manifest"
  <2>1. Selection!HashSources(e)
    BY <1>9, SelectionLeads
  <2>2. PICK c : c = [E.manifest EXCEPT !.source = tree]
    OBVIOUS
  <2>3. PICK knows : knows = [E EXCEPT !.manifest.source = tree]
    OBVIOUS
  <2>4. /\ c \in Selection!Manifests /\ c.commit = m.commit /\ c.protocol = m.protocol
        /\ c.recipe = m.recipe /\ c.fit = m.fit /\ c.source = tree
    BY <1>1, <2>2 DEF Selectors, Selection!Manifests
  <2>5. knows = [E EXCEPT !.manifest = c]
    BY <1>1, <2>2, <2>3 DEF Selectors, Selection!Manifests
  <2>6. knows \in Selectors /\ knows.manifest = c
    BY <1>1, <2>4, <2>5 DEF Selectors
  <2>7. Selection!Goto(e, "manifest", knows) /\ s = "sources"
    BY <2>1, <2>3 DEF Selection!HashSources, Selection!Learns
  <2>8. run'[e] = [knows EXCEPT !.step = "manifest"]
    BY <1>2, <1>9, <2>6, <2>7, SelectionWent
  <2>9. n = c
    BY <2>6, <2>8 DEF Selectors
  <2> QED
    BY <1>9, <2>4, <2>7, <2>9 DEF FreezerReads, FittingSteps
<1> QED
  BY <1>3, <1>4, <1>5, <1>6, <1>7, <1>8, <1>9 DEF FreezerReads

LEMMA PrepareLearns ==
  ASSUME CampaignBounds, Selection!TypeOK, NEW e \in Commands,
         Selection!Command(e) \/ Selection!Fails(e)
  PROVE  PrepareReads(e)
<1> DEFINE E == run[e]
           s == run[e].step
           t == run'[e].step
           m == run[e].manifest
           n == run'[e].manifest
<1>1. E \in Selectors /\ freeze.id \in Selection!Freezes
  BY SelectionKnown DEF Selection!TypeOK, Selection!Manifests
<1>2. /\ "bind" \in Selection!Steps /\ "commit" \in Selection!Steps
      /\ "inputs" \in Selection!Steps /\ "protocol" \in Selection!Steps
  BY DEF Selection!Steps, Selection!Files, Selection!MadeOnce, Selection!WrittenOnce
<1> USE DEF Selection!At
<1>3. t = "bind" => fitSource = "pinned" /\ tree = head
  <2>1. SUFFICES ASSUME t = "bind"
                 PROVE  fitSource = "pinned" /\ tree = head
    OBVIOUS
  <2>2. Selection!Preflight(e) /\ t # "ended"
    BY <2>1, SelectionLeads
  <2>3. PICK next \in {"commit", "bind"} :
          Selection!Learns(e, E, fitSource = "pinned" /\ tree = head, next)
    BY <2>2 DEF Selection!Preflight, Selection!Checks
  <2>4. PICK holds \in BOOLEAN : holds = (fitSource = "pinned" /\ tree = head)
    OBVIOUS
  <2>5. Selection!Learns(e, E, holds, next) /\ next \in Selection!Steps
    BY <1>2, <2>3, <2>4
  <2>6. holds
    BY <1>1, <2>2, <2>5, SelectionHeld
  <2> QED
    BY <2>4, <2>6
<1>4. t = "inputs" => s = "bind" /\ n.id = freeze.id /\ n.protocol = Selection!Protocol(tree)
  <2>1. SUFFICES ASSUME t = "inputs"
                 PROVE  s = "bind" /\ n.id = freeze.id /\ n.protocol = Selection!Protocol(tree)
    OBVIOUS
  <2>2. Selection!Bind(e) /\ t # "ended"
    BY <2>1, SelectionLeads
  <2>3. PICK p \in Selection!Protocols : p = Selection!Protocol(tree)
    BY ProtocolTyped
  <2>4. PICK c : c = [E.manifest EXCEPT !.id = freeze.id, !.protocol = p]
    OBVIOUS
  <2>5. PICK knows : knows = [E EXCEPT !.manifest.id = freeze.id, !.manifest.protocol = p]
    OBVIOUS
  <2>6. c \in Selection!Manifests /\ c.id = freeze.id /\ c.protocol = p
    BY <1>1, <2>4 DEF Selectors, Selection!Manifests
  <2>7. knows = [E EXCEPT !.manifest = c]
    BY <1>1, <2>4, <2>5 DEF Selectors, Selection!Manifests
  <2>8. knows \in Selectors /\ knows.manifest = c
    BY <1>1, <2>6, <2>7 DEF Selectors
  <2>9. PICK to : (to = "inputs" \/ to = "ended") /\ Selection!Goto(e, to, knows)
    BY <2>2, <2>3, <2>5 DEF Selection!Bind, Selection!Learns
  <2>10. run'[e] = [knows EXCEPT !.step = "inputs"]
    BY <1>2, <2>2, <2>8, <2>9, SelectionWent
  <2>11. n = c
    BY <2>8, <2>10 DEF Selectors
  <2> QED
    BY <2>2, <2>3, <2>6, <2>11 DEF Selection!Bind
<1>5. t = "protocol" => s = "inputs" /\ n = m
  <2>1. SUFFICES ASSUME t = "protocol"
                 PROVE  s = "inputs" /\ n = m
    OBVIOUS
  <2>2. Selection!MakeInputs(e) /\ t # "ended"
    BY <2>1, SelectionLeads
  <2>3. PICK to : (to = "protocol" \/ to = "ended") /\ Selection!Goto(e, to, E)
    BY <2>2 DEF Selection!MakeInputs, Selection!Makes
  <2>4. n = m
    BY <1>2, <2>2, <2>3, SameManifest
  <2> QED
    BY <2>2, <2>4 DEF Selection!MakeInputs, Selection!Makes
<1>6. Selection!WriteProtocol(e) =>
        s = "protocol" /\ bindings'.freeze = m.id /\ bindings'.protocol = m.protocol
  BY DEF Selection!WriteProtocol, Selection!Writes
<1> QED
  BY <1>3, <1>4, <1>5, <1>6 DEF PrepareReads

(* The readings of a manifest stay true of it under later changes. *)
LEMMA ReadingsStay ==
  ASSUME CampaignBounds, Selection!TypeOK, SelectionPlaced,
         fitSource = "other" => swaps >= 1, [Selection!Next]_Selection!vars
  PROVE  /\ SelectionPlaced' /\ (fitSource' = "other" => swaps' >= 1)
         /\ edits \in Nat /\ (edits' = 0 => edits = 0)
         /\ \A m \in Selection!Manifests : CommitFits(m) =>
              /\ CommitFits(m)' /\ (RecipeFits(m) => RecipeFits(m)')
              /\ SourceFits(m) => SourceFits(m)'
<1>1. edits \in Nat /\ swaps \in Nat /\ head \in {1, 2} /\ tree \in {1, 2, 3}
  BY DEF Selection!TypeOK, CampaignBounds, SelectionPlaced
<1> USE DEF SelectionPlaced
<1>2. CASE Selection!ChangeTree
  <2>1. /\ edits' = edits + 1 /\ swaps' = swaps /\ fitSource' = fitSource
        /\ \/ tree' \in {head, 3} \ {tree} /\ head' = head
           \/ tree = head /\ head' \in {1, 2} \ {head} /\ tree' = head'
    BY <1>2 DEF Selection!ChangeTree, Selection!ignored, Selection!Commits
  <2>2. SelectionPlaced'
    BY <1>1, <2>1
  <2>3. ASSUME NEW m \in Selection!Manifests, CommitFits(m)
        PROVE  /\ CommitFits(m)' /\ (RecipeFits(m) => RecipeFits(m)')
               /\ SourceFits(m) => SourceFits(m)'
    <3>1. PICK p, c, r, s, f : /\ p = m.protocol /\ c = m.commit /\ r = m.recipe
                               /\ s = m.source /\ f = m.fit
      OBVIOUS
    <3>2. p \in {"first", "second"}
      BY <3>1 DEF Selection!Manifests, Selection!Protocols
    <3>3. /\ edits = 0 => p = "first" /\ c = 1
          /\ edits < 2 /\ p = "first" => c = 1
      BY <2>3, <3>1 DEF CommitFits
    <3>4. CommitFits(m)'
      BY <1>1, <2>1, <3>1, <3>3 DEF CommitFits
    <3>5. RecipeFits(m) => RecipeFits(m)'
      BY <1>1, <2>1, <3>1, <3>3 DEF RecipeFits
    <3>6. SourceFits(m) => SourceFits(m)'
      BY <1>1, <2>1, <3>1 DEF SourceFits
    <3> QED
      BY <3>4, <3>5, <3>6
  <2> QED
    BY <1>1, <2>1, <2>2, <2>3
<1>3. CASE Selection!ChangeIgnored
  <2>1. UNCHANGED <<head, tree, edits>> /\ swaps' = swaps + 1
    BY <1>3 DEF Selection!ChangeIgnored, Selection!repository
  <2>2. ASSUME NEW m \in Selection!Manifests, CommitFits(m)
        PROVE  /\ CommitFits(m)' /\ (RecipeFits(m) => RecipeFits(m)')
               /\ SourceFits(m) => SourceFits(m)'
    <3>1. CommitFits(m)' /\ (SourceFits(m) => SourceFits(m)')
      BY <2>1, <2>2 DEF CommitFits, SourceFits
    <3>2. RecipeFits(m) => RecipeFits(m)'
      BY <1>1, <2>1 DEF RecipeFits
    <3> QED
      BY <3>1, <3>2
  <2> QED
    BY <1>1, <2>1, <2>2
<1>4. CASE UNCHANGED <<head, tree, edits, swaps, fitSource>>
  BY <1>1, <1>4 DEF CommitFits, RecipeFits, SourceFits
<1>5. ASSUME NEW e \in Commands, Selection!Command(e) \/ Selection!Fails(e)
      PROVE  UNCHANGED <<head, tree, edits, swaps, fitSource>>
  BY <1>5, SelectionFrames DEF SelectionFrame
<1>6. CASE Selection!DamageCaptures \/ UNCHANGED Selection!vars
  BY <1>4, <1>6 DEF Selection!DamageCaptures, Selection!vars, Selection!repository,
                    Selection!ignored
<1> QED
  BY <1>2, <1>3, <1>4, <1>5, <1>6, OneSelects

(* A freeze is replaced only by the rename of what one execution has staged. *)
LEMMA FreezesFollow ==
  ASSUME CampaignBounds, Selection!TypeOK, [Selection!Next]_Selection!vars
  PROVE  /\ freeze.id \in Nat
         /\ \/ freeze' = freeze
            \/ \E e \in Commands :
                 /\ Selection!Publish(e) /\ run[e].step = "rename" /\ run'[e].step = "ended"
                 /\ freeze' = [run[e].manifest EXCEPT !.id = freeze.id + 1]
                 /\ UNCHANGED <<head, tree, edits, swaps, fitSource, bindings>>
<1>1. freeze.id \in Nat
  BY FreezeNumbers DEF Selection!TypeOK, Selection!Manifests
<1>2. ASSUME NEW e \in Commands, Selection!Publish(e), freeze' # freeze
      PROVE  /\ run[e].step = "rename" /\ run'[e].step = "ended"
             /\ freeze' = [run[e].manifest EXCEPT !.id = freeze.id + 1]
             /\ UNCHANGED <<head, tree, edits, swaps, fitSource, bindings>>
  <2>1. Selection!Goto(e, "ended", run[e]) /\ "ended" \in Selection!Steps
    BY <1>2 DEF Selection!Publish, Selection!Steps
  <2>2. run'[e].step = "ended"
    BY <2>1, SelectionGoes, SelectionKnown
  <2> QED
    BY <1>2, <2>2 DEF Selection!Publish, Selection!At, Selection!freezing,
                      Selection!repository, Selection!campaign
<1>3. ASSUME NEW e \in Commands, Selection!Command(e) \/ Selection!Fails(e)
      PROVE  Selection!Publish(e) \/ freeze' = freeze
  BY <1>3, SelectionFrames DEF SelectionFrame
<1>4. CASE \/ Selection!ChangeTree \/ Selection!ChangeIgnored \/ Selection!DamageCaptures
           \/ UNCHANGED Selection!vars
  BY <1>1, <1>4 DEF Selection!ChangeTree, Selection!ChangeIgnored, Selection!DamageCaptures,
                    Selection!vars, Selection!freezing
<1> QED
  BY <1>1, <1>2, <1>3, <1>4, OneSelects

(* What an execution has read for the freeze, after a step of its own. *)
LEMMA FreezerFitsStep ==
  ASSUME CampaignBounds, Selection!TypeOK, FreezesFit, NEW e \in Commands,
         Selection!Command(e) \/ Selection!Fails(e), freeze'.id >= freeze.id
  PROVE  FreezerFits(e)'
<1> DEFINE s == run[e].step
           t == run'[e].step
<1>1. /\ FreezerReads(e) /\ PrepareReads(e) /\ FreezerFits(e) /\ SelectionPlaced
      /\ fitSource = "other" => swaps >= 1
  BY FreezerLearns, PrepareLearns DEF FreezesFit
<1>2. UNCHANGED <<head, tree, edits, swaps, fitSource>>
  BY SelectionFrames DEF SelectionFrame
<1>3. PICK m \in Selection!Manifests : m = run[e].manifest
  BY SelectionKnown DEF Selectors
<1>4. PICK n : n = run'[e].manifest
  OBVIOUS
<1>5. /\ edits \in Nat /\ swaps \in Nat /\ head \in {1, 2} /\ tree \in {1, 2, 3}
      /\ fitSource \in {"pinned", "other"} /\ m.id \in Nat /\ freeze.id \in Nat
  BY <1>1, FreezeNumbers DEF Selection!TypeOK, CampaignBounds, SelectionPlaced,
                             Selection!Manifests
<1>6. t \in {"absent", "fit"} \cup FittingSteps \cup HashedSteps => CommitFits(n)
  <2>1. CASE t = "absent"
    <3>1. n.commit = head /\ n.protocol = IF tree = 1 THEN "first" ELSE "second"
      BY <1>1, <1>4, <2>1 DEF FreezerReads, Selection!Protocol
    <3> QED
      BY <1>1, <1>5, <3>1 DEF CommitFits, SelectionPlaced
  <2>2. CASE t \in {"fit"} \cup FittingSteps \cup HashedSteps
    <3>1. /\ n.commit = m.commit /\ n.protocol = m.protocol
          /\ s \in {"absent", "fit"} \cup FittingSteps \cup HashedSteps
      BY <1>1, <1>3, <1>4, <2>2 DEF FreezerReads, FittingSteps, HashedSteps
    <3>2. CommitFits(m)
      BY <1>1, <1>3, <3>1 DEF FreezerFits
    <3> QED
      BY <3>1, <3>2 DEF CommitFits
  <2> QED
    BY <2>1, <2>2
<1>7. t \in FittingSteps \cup HashedSteps => RecipeFits(n)
  <2>1. CASE t = "staging"
    <3>1. /\ n.protocol = m.protocol /\ s = "fit"
          /\ n.recipe = IF tree = 1 THEN "first" ELSE "second"
          /\ n.fit = fitSource
      BY <1>1, <1>3, <1>4, <2>1 DEF FreezerReads, Selection!Protocol
    <3>2. CommitFits(m)
      BY <1>1, <1>3, <3>1 DEF FreezerFits
    <3>3. /\ edits = 0 => tree = 1 /\ m.protocol = "first"
          /\ edits = 1 => tree # 1
      BY <1>1, <3>2 DEF SelectionPlaced, CommitFits
    <3> QED
      BY <1>1, <1>5, <3>1, <3>3 DEF RecipeFits
  <2>2. CASE t \in (FittingSteps \ {"staging"}) \cup HashedSteps
    <3>1. /\ n.recipe = m.recipe /\ n.protocol = m.protocol /\ n.fit = m.fit
          /\ s \in FittingSteps \cup HashedSteps
      BY <1>1, <1>3, <1>4, <2>2 DEF FreezerReads, FittingSteps, HashedSteps
    <3>2. RecipeFits(m)
      BY <1>1, <1>3, <3>1 DEF FreezerFits
    <3> QED
      BY <3>1, <3>2 DEF RecipeFits
  <2> QED
    BY <2>1, <2>2
<1>8. t \in HashedSteps => SourceFits(n)
  <2>1. CASE t = "manifest"
    <3>1. n.source = tree
      BY <1>1, <1>4, <2>1 DEF FreezerReads
    <3> QED
      BY <1>1, <1>5, <3>1 DEF SourceFits, SelectionPlaced
  <2>2. CASE t \in {"outcome", "rename"}
    <3>1. n = m /\ s \in HashedSteps
      BY <1>1, <1>3, <1>4, <2>2 DEF FreezerReads
    <3> QED
      BY <1>1, <1>3, <3>1 DEF FreezerFits
  <2> QED
    BY <2>1, <2>2 DEF HashedSteps
<1>9. t \in {"inputs", "protocol"} => n.id <= freeze.id /\ (edits = 0 => n.protocol = "first")
  <2>1. CASE t = "inputs"
    <3>1. n.id = freeze.id /\ n.protocol = IF tree = 1 THEN "first" ELSE "second"
      BY <1>1, <1>4, <2>1 DEF PrepareReads, Selection!Protocol
    <3> QED
      BY <1>1, <1>5, <3>1 DEF SelectionPlaced
  <2>2. CASE t = "protocol"
    <3>1. n = m /\ s = "inputs"
      BY <1>1, <1>3, <1>4, <2>2 DEF PrepareReads
    <3> QED
      BY <1>1, <1>3, <3>1 DEF FreezerFits
  <2> QED
    BY <2>1, <2>2
<1>10. n.id <= freeze.id /\ t \in {"inputs", "protocol"} => n.id <= freeze'.id
  <2>1. freeze'.id \in Nat
    <3>1. CASE freeze' = freeze
      BY <1>5, <3>1
    <3>2. CASE Selection!Publish(e)
      <4>1. freeze' = freeze \/ freeze' = [m EXCEPT !.id = freeze.id + 1]
        BY <1>3, <3>2 DEF Selection!Publish, Selection!freezing
      <4> QED
        BY <1>5, <4>1 DEF Selection!Manifests
    <3> QED
      BY <3>1, <3>2, SelectionFrames DEF SelectionFrame
  <2>2. t \in {"inputs", "protocol"} => n.id \in Nat
    <3>1. CASE t = "inputs"
      BY <1>1, <1>4, <1>5, <3>1 DEF PrepareReads
    <3>2. CASE t = "protocol"
      BY <1>1, <1>3, <1>4, <1>5, <3>2 DEF PrepareReads
    <3> QED
      BY <3>1, <3>2
  <2> QED
    BY <1>5, <2>1, <2>2
<1>11. /\ CommitFits(n)' = CommitFits(n) /\ RecipeFits(n)' = RecipeFits(n)
       /\ SourceFits(n)' = SourceFits(n)
  BY <1>2 DEF CommitFits, RecipeFits, SourceFits
<1> QED
  BY <1>2, <1>4, <1>6, <1>7, <1>8, <1>9, <1>10, <1>11 DEF FreezerFits

LEMMA FreezesFitStep ==
  ASSUME CampaignBounds, Selection!TypeOK, FreezesFit, [Selection!Next]_Selection!vars
  PROVE  FreezesFit'
<1>1. /\ SelectionPlaced /\ (fitSource = "other" => swaps >= 1)
      /\ CommitFits(freeze) /\ RecipeFits(freeze) /\ SourceFits(freeze)
      /\ bindings.freeze <= freeze.id /\ (edits = 0 => bindings.protocol = "first")
      /\ \A e \in Commands : FreezerFits(e)
  BY DEF FreezesFit
<1>2. /\ SelectionPlaced' /\ (fitSource' = "other" => swaps' >= 1)
      /\ edits \in Nat /\ (edits' = 0 => edits = 0)
      /\ \A m \in Selection!Manifests : CommitFits(m) =>
           /\ CommitFits(m)' /\ (RecipeFits(m) => RecipeFits(m)')
           /\ SourceFits(m) => SourceFits(m)'
  BY <1>1, ReadingsStay
<1>3. /\ freeze \in Selection!Manifests /\ freeze.id \in Nat /\ bindings.freeze \in Nat
      /\ \A e \in Commands : run[e].manifest \in Selection!Manifests
                             /\ run[e].manifest.id \in Nat
  <2>1. freeze \in Selection!Manifests /\ bindings.freeze \in Selection!Freezes
    BY DEF Selection!TypeOK
  <2>2. \A e \in Commands : run[e].manifest \in Selection!Manifests
    BY SelectionKnown DEF Selectors
  <2>3. \A m \in Selection!Manifests : m.id \in Nat
    BY FreezeNumbers DEF Selection!Manifests
  <2> QED
    BY <2>1, <2>2, <2>3, FreezeNumbers
<1>4. freeze'.id \in Nat /\ freeze'.id >= freeze.id
  <2>1. CASE freeze' = freeze
    BY <1>3, <2>1
  <2>2. ASSUME NEW e \in Commands, freeze' = [run[e].manifest EXCEPT !.id = freeze.id + 1]
        PROVE  freeze'.id \in Nat /\ freeze'.id >= freeze.id
    BY <1>3, <2>2 DEF Selection!Manifests
  <2> QED
    BY <2>1, <2>2, FreezesFollow
<1>5. CommitFits(freeze)' /\ RecipeFits(freeze)' /\ SourceFits(freeze)'
  <2>1. CASE freeze' = freeze
    <3>1. PICK m \in Selection!Manifests : m = freeze
      BY <1>3
    <3>2. CommitFits(m)' /\ RecipeFits(m)' /\ SourceFits(m)'
      BY <1>1, <1>2, <3>1
    <3> QED
      BY <2>1, <3>1, <3>2 DEF CommitFits, RecipeFits, SourceFits
  <2>2. ASSUME NEW e \in Commands, run[e].step = "rename",
               freeze' = [run[e].manifest EXCEPT !.id = freeze.id + 1],
               UNCHANGED <<head, tree, edits, swaps, fitSource, bindings>>
        PROVE  CommitFits(freeze)' /\ RecipeFits(freeze)' /\ SourceFits(freeze)'
    <3>1. PICK m \in Selection!Manifests : m = run[e].manifest
      BY <1>3
    <3>2. CommitFits(m) /\ RecipeFits(m) /\ SourceFits(m)
      BY <1>1, <2>2, <3>1 DEF FreezerFits, HashedSteps
    <3>3. PICK n : n = [m EXCEPT !.id = freeze.id + 1]
      OBVIOUS
    <3>4. /\ n.commit = m.commit /\ n.protocol = m.protocol /\ n.recipe = m.recipe
          /\ n.source = m.source /\ n.fit = m.fit
      BY <3>3 DEF Selection!Manifests
    <3>5. freeze' = n
      BY <2>2, <3>1, <3>3
    <3>6. CommitFits(n) /\ RecipeFits(n) /\ SourceFits(n)
      BY <3>2, <3>4 DEF CommitFits, RecipeFits, SourceFits
    <3> QED
      BY <2>2, <3>5, <3>6 DEF CommitFits, RecipeFits, SourceFits
  <2> QED
    BY <2>1, <2>2, FreezesFollow
<1>6. bindings'.freeze <= freeze'.id /\ (edits' = 0 => bindings'.protocol = "first")
  <2>1. CASE bindings' = bindings
    BY <1>1, <1>2, <1>3, <1>4, <2>1
  <2>2. CASE bindings' # bindings
    <3>1. PICK e \in Commands : Selection!Command(e) \/ Selection!Fails(e)
      BY <2>2, OneSelects DEF Selection!ChangeTree, Selection!ChangeIgnored,
                  Selection!DamageCaptures, Selection!vars, Selection!campaign
    <3>2. Selection!WriteProtocol(e)
      BY <2>2, <3>1, SelectionFrames DEF SelectionFrame
    <3>3. /\ run[e].step = "protocol" /\ bindings'.freeze = run[e].manifest.id
          /\ bindings'.protocol = run[e].manifest.protocol
      BY <3>1, <3>2, PrepareLearns DEF PrepareReads
    <3>4. run[e].manifest.id <= freeze.id /\ (edits = 0 => run[e].manifest.protocol = "first")
      BY <1>1, <3>3 DEF FreezerFits
    <3> QED
      BY <1>2, <1>3, <1>4, <3>3, <3>4
  <2> QED
    BY <2>1, <2>2
<1>7. ASSUME NEW d \in Commands
      PROVE  FreezerFits(d)'
  <2>1. CASE run'[d] = run[d]
    <3>1. PICK m \in Selection!Manifests : m = run[d].manifest
      BY <1>3
    <3>2. PICK step : step = run[d].step
      OBVIOUS
    <3>3. /\ step \in {"absent", "fit"} \cup FittingSteps \cup HashedSteps => CommitFits(m)
          /\ step \in FittingSteps \cup HashedSteps => RecipeFits(m)
          /\ step \in HashedSteps => SourceFits(m)
          /\ step \in {"inputs", "protocol"} => m.id <= freeze.id
                                                /\ (edits = 0 => m.protocol = "first")
      BY <1>1, <3>1, <3>2 DEF FreezerFits
    <3>4. /\ step \in {"absent", "fit"} \cup FittingSteps \cup HashedSteps => CommitFits(m)'
          /\ step \in FittingSteps \cup HashedSteps => RecipeFits(m)'
          /\ step \in HashedSteps => SourceFits(m)'
      BY <1>2, <3>3
    <3>5. m.id <= freeze.id => m.id <= freeze'.id
      BY <1>3, <1>4, <3>1
    <3> QED
      BY <1>2, <2>1, <3>1, <3>2, <3>3, <3>4, <3>5 DEF FreezerFits
  <2>2. CASE run'[d] # run[d]
    <3>1. Selection!Command(d) \/ Selection!Fails(d)
      BY <2>2, OneSelects, SelectionLeads
    <3> QED
      BY <1>4, <3>1, FreezerFitsStep
  <2> QED
    BY <2>1, <2>2
<1> QED
  BY <1>2, <1>5, <1>6, <1>7 DEF FreezesFit

LEMMA InitFreezesFit ==
  ASSUME Selection!Init
  PROVE  FreezesFit
<1>1. /\ head = 1 /\ tree = 1 /\ fitSource = "pinned" /\ edits = 0 /\ swaps = 0
      /\ bindings.freeze = 0 /\ bindings.protocol = "first"
      /\ freeze = Selection!NoManifest
  BY DEF Selection!Init
<1>2. \A e \in Commands : run[e].step = "idle"
  BY DEF Selection!Init, Selection!Rests
<1>3. /\ freeze.id = 0 /\ freeze.protocol = "first" /\ freeze.commit = 1
      /\ freeze.recipe = "first" /\ freeze.source = 1 /\ freeze.fit = "pinned"
  BY <1>1 DEF Selection!NoManifest
<1> QED
  BY <1>1, <1>2, <1>3 DEF FreezesFit, SelectionPlaced, CommitFits, RecipeFits, SourceFits,
         FreezerFits, FittingSteps, HashedSteps

-----------------------------------------------------------------------------
(* Selections: one command at a time *)

SelectsAlone == \A e, d \in Commands : Selection!Alive(e) /\ Selection!Alive(d) => e = d

(* What the preflight of prepare has found out about the freeze that it binds. *)
BoundLate == freeze.source # 1 /\ edits < 2
Judged ==
  /\ freeze.fit = "other" => swaps >= 2
  /\ BoundLate => tree = 2 /\ head = 2
  /\ freeze.source = 3 => edits >= 2 /\ (tree # head => edits >= 3)

(* What SelectionIsSealed says of the freeze. *)
FreezeHolds ==
  freeze.id = predictions.freeze =>
    /\ edits < 2 => freeze.recipe = freeze.protocol /\ freeze.protocol = bindings.protocol
    /\ edits < 3 => freeze.source = freeze.commit
    /\ swaps < 2 => freeze.fit = "pinned"

JudgedBy(e) ==
  LET E == run[e] IN
  /\ E.step \in {"bind", "inputs", "protocol"} => Judged
  /\ E.step \in {"inputs", "protocol"} => (BoundLate => E.manifest.protocol = "second")
  /\ E.step = "assessment" => FreezeHolds

AloneFits ==
  /\ SelectsAlone
  /\ \A e \in Commands : JudgedBy(e)
  /\ bindings.freeze = freeze.id => Judged /\ (BoundLate => bindings.protocol = "second")
  /\ "assessment" \in kept \ torn => FreezeHolds

LEMMA OnlyAliveSelects ==
  ASSUME NEW e \in Commands, Selection!Command(e) \/ Selection!Fails(e)
  PROVE  Selection!Start(e) \/ Selection!Alive(e)
<1> USE DEF Selection!Makes, Selection!Writes, Selection!At, Selection!Alive
<1>1. \/ Selection!Start(e)
      \/ Selection!Preflight(e) \/ Selection!ReadCommit(e) \/ Selection!CheckOutput(e)
      \/ Selection!ReadFit(e) \/ Selection!MakeStaging(e) \/ Selection!VerifyRestore(e)
      \/ Selection!HashSources(e) \/ Selection!Publish(e) \/ Selection!Bind(e)
      \/ Selection!MakeInputs(e) \/ Selection!WriteProtocol(e)
      \/ (\E name \in DOMAIN Selection!AfterStaged : Selection!WriteStaged(e, name))
      \/ (\E name \in DOMAIN Selection!AfterWrite : Selection!WriteFile(e, name))
      \/ Selection!Fails(e)
      \/ Selection!CheckUnclaimed(e) \/ Selection!MakeCaptures(e)
      \/ Selection!ReadProtocol(e) \/ Selection!AssessPairs(e) \/ Selection!HashCaptures(e)
      \/ Selection!Decide(e) \/ Selection!WriteQualified(e)
      \/ Selection!VerifySources(e) \/ Selection!CheckBound(e) \/ Selection!LoadCaptures(e)
      \/ Selection!Rollout(e) \/ Selection!MakePredictions(e) \/ Selection!WriteArrays(e)
      \/ Selection!WriteIdentities(e) \/ Selection!AssessCorpus(e)
      \/ Selection!AssessArtifacts(e)
  BY DEF Selection!Command
<1>2. ASSUME \/ Selection!Preflight(e) \/ Selection!ReadCommit(e) \/ Selection!CheckOutput(e)
             \/ Selection!ReadFit(e) \/ Selection!MakeStaging(e) \/ Selection!VerifyRestore(e)
             \/ Selection!HashSources(e) \/ Selection!Publish(e) \/ Selection!Bind(e)
             \/ Selection!MakeInputs(e) \/ Selection!WriteProtocol(e)
      PROVE  Selection!Alive(e)
  BY <1>2 DEF Selection!Preflight, Selection!ReadCommit, Selection!CheckOutput,
              Selection!ReadFit, Selection!MakeStaging, Selection!VerifyRestore,
              Selection!HashSources, Selection!Publish, Selection!Bind,
              Selection!MakeInputs, Selection!WriteProtocol
<1>3. ASSUME \/ \E name \in DOMAIN Selection!AfterStaged : Selection!WriteStaged(e, name)
             \/ \E name \in DOMAIN Selection!AfterWrite : Selection!WriteFile(e, name)
             \/ Selection!Fails(e)
      PROVE  Selection!Alive(e)
  BY <1>3 DEF Selection!WriteStaged, Selection!AfterStaged, Selection!WriteFile,
              Selection!AfterWrite, Selection!Fails
<1>4. ASSUME \/ Selection!CheckUnclaimed(e) \/ Selection!MakeCaptures(e)
             \/ Selection!ReadProtocol(e) \/ Selection!AssessPairs(e)
             \/ Selection!HashCaptures(e) \/ Selection!Decide(e) \/ Selection!WriteQualified(e)
      PROVE  Selection!Alive(e)
  BY <1>4 DEF Selection!CheckUnclaimed, Selection!MakeCaptures, Selection!ReadProtocol,
              Selection!AssessPairs, Selection!HashCaptures, Selection!Decide,
              Selection!WriteQualified
<1>5. ASSUME \/ Selection!VerifySources(e) \/ Selection!CheckBound(e)
             \/ Selection!LoadCaptures(e) \/ Selection!Rollout(e)
             \/ Selection!MakePredictions(e) \/ Selection!WriteArrays(e)
             \/ Selection!WriteIdentities(e) \/ Selection!AssessCorpus(e)
             \/ Selection!AssessArtifacts(e)
      PROVE  Selection!Alive(e)
  BY <1>5 DEF Selection!VerifySources, Selection!CheckBound, Selection!LoadCaptures,
              Selection!Rollout, Selection!MakePredictions, Selection!WriteArrays,
              Selection!WriteIdentities, Selection!AssessCorpus, Selection!AssessArtifacts
<1> QED
  BY <1>1, <1>2, <1>3, <1>4, <1>5

(* While an execution makes a step, no other is alive. *)
LEMMA OthersRest ==
  ASSUME CampaignBounds, MaxAlive = 1, Selection!TypeOK, SelectsAlone, NEW e \in Commands,
         Selection!Command(e) \/ Selection!Fails(e)
  PROVE  \A d \in Commands : d # e => run'[d] = run[d] /\ ~Selection!Alive(d)
<1>1. \A d \in Commands : d # e => run'[d] = run[d]
  BY SelectionLeads
<1>2. CASE Selection!Alive(e)
  BY <1>1, <1>2 DEF SelectsAlone
<1>3. CASE Selection!Start(e)
  <2> DEFINE Living == {d \in Commands : Selection!Alive(d)}
  <2>1. Cardinality(Living) < 1
    BY <1>3, SameCardinality DEF Selection!Start
  <2>2. IsFiniteSet(Living)
    BY FS_Subset DEF CampaignBounds
  <2>3. Living = {}
    BY <2>1, <2>2, FS_CardinalityType, FS_EmptySet
  <2> QED
    BY <1>1, <2>3
<1> QED
  BY <1>2, <1>3, OnlyAliveSelects

LEMMA SelectsAloneStep ==
  ASSUME CampaignBounds, MaxAlive = 1, Selection!TypeOK, SelectsAlone,
         [Selection!Next]_Selection!vars
  PROVE  SelectsAlone'
<1>1. CASE run' = run
  BY <1>1 DEF SelectsAlone, Selection!Alive
<1>2. ASSUME NEW e \in Commands, Selection!Command(e) \/ Selection!Fails(e)
      PROVE  SelectsAlone'
  BY <1>2, OthersRest DEF SelectsAlone, Selection!Alive
<1> QED
  BY <1>1, <1>2, OneSelects

(* What was found out about a freeze stays true of it under later changes. *)
LEMMA JudgementsStay ==
  ASSUME CampaignBounds, Selection!TypeOK, FreezesFit, [Selection!Next]_Selection!vars,
         freeze' = freeze
  PROVE  /\ BoundLate' => BoundLate
         /\ Judged => Judged'
         /\ UNCHANGED <<predictions, bindings>> /\ FreezeHolds => FreezeHolds'
<1>1. edits \in Nat /\ swaps \in Nat /\ (edits = 0 => freeze.source = 1)
  BY DEF Selection!TypeOK, CampaignBounds, FreezesFit, SourceFits
<1> USE DEF BoundLate, Judged, FreezeHolds
<1>2. CASE Selection!ChangeTree
  <2>1. edits' = edits + 1 /\ swaps' = swaps
    BY <1>2 DEF Selection!ChangeTree, Selection!ignored
  <2> QED
    BY <1>1, <2>1
<1>3. CASE Selection!ChangeIgnored
  <2>1. UNCHANGED <<head, tree, edits>> /\ swaps' = swaps + 1
    BY <1>3 DEF Selection!ChangeIgnored, Selection!repository
  <2> QED
    BY <1>1, <2>1
<1>4. CASE UNCHANGED <<head, tree, edits, swaps>>
  BY <1>4
<1>5. ASSUME NEW e \in Commands, Selection!Command(e) \/ Selection!Fails(e)
      PROVE  UNCHANGED <<head, tree, edits, swaps>>
  BY <1>5, SelectionFrames DEF SelectionFrame
<1>6. CASE Selection!DamageCaptures \/ UNCHANGED Selection!vars
  BY <1>4, <1>6 DEF Selection!DamageCaptures, Selection!vars, Selection!repository,
                    Selection!ignored
<1> QED
  BY <1>2, <1>3, <1>4, <1>5, <1>6, OneSelects

(* The assessor compares what is left to compare. *)
LEMMA AssessorCompares ==
  ASSUME Selection!TypeOK, CampaignBounds, FreezesFit, Judged,
         BoundLate => bindings.protocol = "second",
         tree = freeze.source, head = freeze.commit
  PROVE  FreezeHolds
<1>1. /\ SelectionPlaced /\ CommitFits(freeze) /\ RecipeFits(freeze)
      /\ edits = 0 => bindings.protocol = "first"
  BY DEF FreezesFit
<1>2. /\ edits \in Nat /\ swaps \in Nat /\ head \in {1, 2} /\ tree \in {1, 2, 3}
      /\ freeze.fit \in {"pinned", "other"} /\ freeze.protocol \in {"first", "second"}
  BY <1>1 DEF Selection!TypeOK, CampaignBounds, SelectionPlaced, Selection!Manifests,
              Selection!Protocols
<1>3. edits < 2 => freeze.recipe = freeze.protocol /\ freeze.protocol = bindings.protocol
  <2>1. CASE edits = 0
    BY <1>1, <2>1 DEF CommitFits, RecipeFits
  <2>2. CASE edits = 1
    <3>1. BoundLate /\ head = 2
      BY <1>1, <2>2 DEF SelectionPlaced, BoundLate, Judged
    <3> QED
      BY <1>1, <1>2, <2>2, <3>1 DEF CommitFits, RecipeFits
  <2> QED
    BY <1>2, <2>1, <2>2
<1>4. edits < 3 => freeze.source = freeze.commit
  BY <1>1, <1>2 DEF SelectionPlaced, Judged
<1>5. swaps < 2 => freeze.fit = "pinned"
  BY <1>2 DEF Judged
<1> QED
  BY <1>3, <1>4, <1>5 DEF FreezeHolds

(* The step of the only execution that is alive. *)
LEMMA JudgedStep ==
  ASSUME CampaignBounds, Selection!TypeOK, SelectionInv, FreezesFit, AloneFits,
         NEW e \in Commands, Selection!Command(e) \/ Selection!Fails(e), freeze' = freeze
  PROVE  JudgedBy(e)'
<1> DEFINE s == run[e].step
           t == run'[e].step
<1>1. /\ PrepareReads(e) /\ ScoreReads(e) /\ JudgedBy(e) /\ PredictionsFit(e)
      /\ SelectionPlaced /\ RecipeFits(freeze) /\ SourceFits(freeze)
      /\ bindings.freeze = freeze.id => Judged /\ (BoundLate => bindings.protocol = "second")
  BY PrepareLearns, ScoreLearns DEF AloneFits, FreezesFit, SelectionInv
<1>2. UNCHANGED <<freeze, head, tree, edits, swaps>>
  BY SelectionFrames DEF SelectionFrame
<1>3. edits \in Nat /\ swaps \in Nat
  BY DEF Selection!TypeOK, CampaignBounds
<1>4. (Judged' = Judged) /\ (BoundLate' = BoundLate)
  BY <1>2 DEF Judged, BoundLate
<1>5. t \in {"bind", "inputs", "protocol"} => Judged
  <2>1. CASE t = "bind"
    <3>1. fitSource = "pinned" /\ tree = head
      BY <1>1, <2>1 DEF PrepareReads
    <3> QED
      BY <1>1, <1>3, <3>1 DEF Judged, BoundLate, SelectionPlaced, RecipeFits, SourceFits
  <2>2. CASE t \in {"inputs", "protocol"}
    BY <1>1, <2>2 DEF PrepareReads, JudgedBy
  <2> QED
    BY <2>1, <2>2
<1>6. t \in {"inputs", "protocol"} => (BoundLate => run'[e].manifest.protocol = "second")
  <2>1. CASE t = "inputs"
    <3>1. run'[e].manifest.protocol = IF tree = 1 THEN "first" ELSE "second"
      BY <1>1, <2>1 DEF PrepareReads, Selection!Protocol
    <3>2. Judged
      BY <1>5, <2>1
    <3> QED
      BY <3>1, <3>2 DEF Judged
  <2>2. CASE t = "protocol"
    BY <1>1, <2>2 DEF PrepareReads, JudgedBy
  <2> QED
    BY <2>1, <2>2
<1>7. t = "assessment" => FreezeHolds'
  <2>1. SUFFICES ASSUME t = "assessment"
                 PROVE  FreezeHolds'
    OBVIOUS
  <2>2. /\ s = "artifacts" /\ predictions' = predictions /\ bindings' = bindings
        /\ tree = freeze.source /\ head = freeze.commit
    BY <1>1, <2>1 DEF ScoreReads
  <2>3. bindings.freeze = predictions.freeze
    BY <1>1, <2>2 DEF PredictionsFit
  <2>4. FreezeHolds
    <3>1. CASE freeze.id = predictions.freeze
      BY <1>1, <2>2, <2>3, <3>1, AssessorCompares
    <3>2. CASE freeze.id # predictions.freeze
      BY <3>2 DEF FreezeHolds
    <3> QED
      BY <3>1, <3>2
  <2> QED
    BY <1>2, <2>2, <2>4 DEF FreezeHolds
<1> QED
  BY <1>4, <1>5, <1>6, <1>7 DEF JudgedBy

LEMMA AloneFitsStep ==
  ASSUME CampaignBounds, MaxAlive = 1, Selection!TypeOK, OneStager, SelectionInv, FreezesFit,
         AloneFits, [Selection!Next]_Selection!vars
  PROVE  AloneFits'
<1>1. /\ SelectsAlone /\ (\A e \in Commands : JudgedBy(e)) /\ AssessmentFits
      /\ bindings.freeze = freeze.id => Judged /\ (BoundLate => bindings.protocol = "second")
      /\ "assessment" \in kept \ torn => FreezeHolds
      /\ bindings.freeze <= freeze.id
  BY DEF AloneFits, SelectionInv, FreezesFit
<1>2. SelectsAlone'
  BY <1>1, SelectsAloneStep
<1>3. CASE /\ \/ Selection!ChangeTree \/ Selection!ChangeIgnored \/ Selection!DamageCaptures
              \/ UNCHANGED Selection!vars
           /\ run' = run
  <2>1. UNCHANGED <<freeze, bindings, predictions, kept, torn>>
    BY <1>3 DEF Selection!ChangeTree, Selection!ChangeIgnored, Selection!DamageCaptures,
                Selection!vars, Selection!campaign, Selection!freezing
  <2>2. /\ BoundLate' => BoundLate
        /\ Judged => Judged'
        /\ FreezeHolds => FreezeHolds'
    BY <2>1, JudgementsStay
  <2>3. \A d \in Commands : JudgedBy(d)'
    BY <1>1, <1>3, <2>2 DEF JudgedBy
  <2> QED
    BY <1>1, <1>2, <2>1, <2>2, <2>3 DEF AloneFits
<1>4. ASSUME NEW e \in Commands, Selection!Command(e) \/ Selection!Fails(e)
      PROVE  AloneFits'
  <2>1. \A d \in Commands : d # e => run'[d] = run[d] /\ ~Selection!Alive(d)
    BY <1>1, <1>4, OthersRest
  <2>2. \A d \in Commands : d # e => JudgedBy(d)'
    <3>1. \A d \in Commands : d # e => run'[d].step \in {"idle", "ended"}
      BY <2>1 DEF Selection!Alive
    <3> QED
      BY <3>1 DEF JudgedBy
  <2>3. CASE freeze' = freeze
    <3>1. UNCHANGED <<head, tree, edits, swaps>>
      BY <1>4, SelectionFrames DEF SelectionFrame
    <3>2. (Judged' = Judged) /\ (BoundLate' = BoundLate)
      BY <2>3, <3>1 DEF Judged, BoundLate
    <3>3. JudgedBy(e)'
      BY <1>4, <2>3, JudgedStep
    <3>4. bindings'.freeze = freeze'.id
            => Judged' /\ (BoundLate' => bindings'.protocol = "second")
      <4>1. CASE bindings' = bindings
        BY <1>1, <2>3, <3>2, <4>1
      <4>2. CASE Selection!WriteProtocol(e)
        <5>1. /\ run[e].step = "protocol"
              /\ bindings'.protocol = run[e].manifest.protocol
          BY <1>4, <4>2, PrepareLearns DEF PrepareReads
        <5> QED
          BY <1>1, <3>2, <5>1 DEF JudgedBy
      <4> QED
        BY <1>4, <4>1, <4>2, SelectionFrames DEF SelectionFrame
    <3>5. "assessment" \in kept' \ torn' => FreezeHolds'
      <4>1. SUFFICES ASSUME "assessment" \in kept' \ torn'
                     PROVE  FreezeHolds'
        OBVIOUS
      <4>2. "assessment" \in kept \ torn \/ run[e].step = "assessment"
        BY <1>4, <4>1, SelectionKeeps
      <4>3. predictions' = predictions
        <5>1. "assessment" \in kept \/ run[e].step \notin {"arrays", "identities"}
          BY <4>2
        <5> QED
          BY <1>4, <5>1, PredictionsStay
      <4>4. bindings' = bindings
        <5>1. SUFFICES ASSUME bindings' # bindings
                       PROVE  FALSE
          OBVIOUS
        <5>2. Selection!WriteProtocol(e)
          BY <1>4, <5>1, SelectionFrames DEF SelectionFrame
        <5>3. run[e].step = "protocol" /\ "assessment" \in kept \ torn
          BY <4>2, <5>2 DEF Selection!WriteProtocol, Selection!Writes, Selection!At
        <5>4. Selection!Whole({"protocol"})
          BY <1>1, <5>3 DEF AssessmentFits, Selection!Whole
        <5> QED
          BY <1>4, <5>1, <5>4, BindingsStay
      <4>5. FreezeHolds
        BY <1>1, <4>2 DEF JudgedBy
      <4> QED
        BY <2>3, <3>1, <4>3, <4>4, <4>5 DEF FreezeHolds
    <3> QED
      BY <1>2, <2>2, <3>3, <3>4, <3>5 DEF AloneFits
  <2>4. CASE freeze' # freeze
    <3>1. Selection!Publish(e)
      BY <1>4, <2>4, SelectionFrames DEF SelectionFrame
    <3>2. /\ run[e].step = "rename" /\ run'[e].step = "ended"
          /\ freeze' = [run[e].manifest EXCEPT !.id = freeze.id + 1]
          /\ UNCHANGED <<kept, torn, bindings, predictions>>
      <4>1. Selection!Goto(e, "ended", run[e]) /\ "ended" \in Selection!Steps
        BY <3>1 DEF Selection!Publish, Selection!Steps
      <4>2. run'[e].step = "ended"
        BY <4>1, SelectionGoes, SelectionKnown
      <4> QED
        BY <2>4, <3>1, <4>2 DEF Selection!Publish, Selection!At, Selection!freezing,
                                Selection!campaign
    <3>3. freeze.id \in Nat /\ bindings.freeze \in Nat
      BY FreezeNumbers DEF Selection!TypeOK, Selection!Manifests
    <3>4. freeze'.id = freeze.id + 1
      BY <3>2, SelectionKnown DEF Selectors, Selection!Manifests
    <3>5. bindings'.freeze # freeze'.id
      BY <1>1, <3>2, <3>3, <3>4
    <3>6. JudgedBy(e)'
      BY <3>2 DEF JudgedBy
    <3>7. "assessment" \in kept' \ torn' => FreezeHolds'
      BY <1>1, <3>2, <3>5 DEF AssessmentFits, FreezeHolds
    <3> QED
      BY <1>2, <2>2, <3>5, <3>6, <3>7 DEF AloneFits
  <2> QED
    BY <2>3, <2>4
<1> QED
  BY <1>3, <1>4, OneSelects

LEMMA InitAloneFits ==
  ASSUME Selection!Init
  PROVE  AloneFits
<1>1. /\ \A e \in Commands : run[e].step = "idle"
      /\ kept = {} /\ freeze.source = 1 /\ freeze.fit = "pinned"
  BY DEF Selection!Init, Selection!Rests, Selection!NoManifest
<1> QED
  BY <1>1 DEF AloneFits, SelectsAlone, Selection!Alive, JudgedBy, Judged, BoundLate

(* A selection is sealed.  When score has written its assessment, the freeze it *)
(* judged was bound before the collection; while that freeze stands, its models *)
(* were fitted by the recipe that it names, on the evidence that the protocol   *)
(* pins, by committed sources (preflight_mprm_jepa, prepare_selection and       *)
(* assess_stored_mprm_selection); they are the ones that predicted, and they    *)
(* predicted captures that were collected and qualified.  That needs one        *)
(* command at a time, or a repository that nobody changes: another command may  *)
(* freeze or bind between two readings, and one change is enough then.          *)
THEOREM SelectionsAreSealed ==
  ASSUME CampaignBounds, MaxAlive = 1 \/ (MaxEdits = 0 /\ MaxSwaps = 0)
  PROVE  Selection!Spec => []Selection!SelectionIsSealed
<1> DEFINE Inv == /\ SelectionTyped /\ OneStager /\ SelectionInv /\ FreezesFit
                  /\ MaxAlive = 1 => AloneFits
<1>1. Selection!Init => Inv
  BY InitSelectionTyped, InitOneStager, InitSelectionInv, InitFreezesFit, InitAloneFits
<1>2. Inv /\ [Selection!Next]_Selection!vars => Inv'
  <2>1. SUFFICES ASSUME Inv, [Selection!Next]_Selection!vars
                 PROVE  Inv'
    OBVIOUS
  <2>2. Selection!TypeOK
    BY <2>1 DEF SelectionTyped
  <2>3. SelectionTyped' /\ OneStager' /\ SelectionInv' /\ FreezesFit'
    BY <2>1, <2>2, SelectionStays, OneStagerStep, SelectionInvStep, FreezesFitStep
  <2>4. MaxAlive = 1 => AloneFits'
    BY <2>1, <2>2, AloneFitsStep
  <2> QED
    BY <2>3, <2>4
<1>3. ASSUME Inv
      PROVE  Selection!SelectionIsSealed
  <2>1. AssessmentFits
    BY <1>3 DEF SelectionInv
  <2>2. "assessment" \in kept \ torn => FreezeHolds
    <3>1. CASE MaxAlive = 1
      BY <1>3, <3>1 DEF AloneFits
    <3>2. CASE MaxEdits = 0 /\ MaxSwaps = 0
      <4>1. edits = 0 /\ swaps = 0
        BY <1>3, <3>2 DEF SelectionTyped, Selection!TypeOK
      <4>2. /\ CommitFits(freeze) /\ RecipeFits(freeze) /\ SourceFits(freeze)
            /\ bindings.protocol = "first"
        BY <1>3, <4>1 DEF FreezesFit
      <4>3. freeze.fit \in {"pinned", "other"}
        BY <1>3 DEF SelectionTyped, Selection!TypeOK, Selection!Manifests
      <4> QED
        BY <4>1, <4>2, <4>3 DEF CommitFits, RecipeFits, SourceFits, FreezeHolds
    <3> QED
      BY <3>1, <3>2
  <2> QED
    BY <2>1, <2>2 DEF AssessmentFits, FreezeHolds, Selection!SelectionIsSealed
<1> QED
  BY <1>1, <1>2, <1>3, PTL DEF Selection!Spec
=============================================================================
