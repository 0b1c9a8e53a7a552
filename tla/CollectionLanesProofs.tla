------------------------- MODULE CollectionLanesProofs -------------------------
(***************************************************************************)
(* Theorems about the collection of prepared cases, for any number of      *)
(* pairs and lanes, any set of executions, and any number of failed        *)
(* commands and killed processes.                                          *)
(***************************************************************************)
EXTENDS CollectionLanes, FiniteSetTheorems, TLAPS

-----------------------------------------------------------------------------
(* The plan. *)

(* The wave of a case: the waves are numbered from 0. *)
Turn(c) == 2 * (Batch(c) - 1) + Order(c)

(* Quotient and remainder. *)
LEMMA Division ==
  ASSUME NEW p \in Nat
  PROVE  /\ p \div Jobs \in Nat /\ p % Jobs \in 0 .. Jobs - 1
         /\ p = Jobs * (p \div Jobs) + (p % Jobs)
BY LanesBounds

(* There is one multiple of Jobs below each number. *)
LEMMA OneQuotient ==
  ASSUME NEW p \in Nat, NEW q \in Nat, NEW r \in 0 .. Jobs - 1, p = Jobs * q + r
  PROVE  p \div Jobs = q
<1>1. p \div Jobs \in Nat /\ p % Jobs \in 0 .. Jobs - 1 /\ p = Jobs * (p \div Jobs) + (p % Jobs)
  BY Division
<1> DEFINE k == p \div Jobs
           s == p % Jobs
<1>2. Jobs \in Nat /\ Jobs > 0 /\ k \in Nat /\ s \in 0 .. Jobs - 1 /\ Jobs * k + s = Jobs * q + r
  BY <1>1, LanesBounds
<1> HIDE DEF k, s
<1>3. ASSUME NEW x \in Nat, NEW y \in Nat, x < y PROVE Jobs * x + Jobs <= Jobs * y
  <2>1. y = x + 1 + (y - x - 1) /\ y - x - 1 \in Nat
    BY <1>3
  <2>2. Jobs * y = Jobs * x + Jobs + Jobs * (y - x - 1)
    BY <1>2, <1>3, <2>1
  <2>3. /\ Jobs * (y - x - 1) >= 0 /\ Jobs * (y - x - 1) \in Nat
        /\ Jobs * x \in Nat /\ Jobs * y \in Nat
    BY <1>2, <1>3, <2>1
  <2> QED
    BY <1>2, <2>2, <2>3
<1>4. ~(k < q)
  BY <1>2, <1>3
<1>5. ~(q < k)
  BY <1>2, <1>3
<1> QED
  BY <1>2, <1>4, <1>5 DEF k

(* A case has a lane and a batch, which with its order tell it from others. *)
LEMMA CaseType ==
  ASSUME NEW c \in Cases
  PROVE  /\ c = <<c[1], c[2]>> /\ c[1] \in 0 .. PairCount - 1
         /\ Order(c) = c[2] /\ Order(c) \in {0, 1}
         /\ Batch(c) \in Nat \ {0} /\ Lane(c) \in Lanes /\ Turn(c) \in Nat
         /\ c[1] = Jobs * (Batch(c) - 1) + (Lane(c) - 1)
<1>1. c = <<c[1], c[2]>> /\ c[1] \in 0 .. PairCount - 1 /\ c[2] \in {0, 1}
  BY DEF Cases
<1>2. c[1] \in Nat
  BY <1>1, LanesBounds
<1>3. /\ c[1] \div Jobs \in Nat /\ c[1] % Jobs \in 0 .. Jobs - 1
      /\ c[1] = Jobs * (c[1] \div Jobs) + (c[1] % Jobs)
  BY <1>2, Division
<1> DEFINE q == c[1] \div Jobs
           r == c[1] % Jobs
<1>4. Batch(c) = q + 1 /\ Lane(c) = r + 1
  BY DEF Batch, Lane
<1>5. q \in Nat /\ r \in 0 .. Jobs - 1 /\ c[1] = Jobs * q + r
  BY <1>3
<1> HIDE DEF q, r
<1>6. Batch(c) - 1 = q /\ Lane(c) - 1 = r /\ Batch(c) \in Nat \ {0} /\ Lane(c) \in Lanes
  BY <1>4, <1>5, LanesBounds DEF Lanes
<1> QED
  BY <1>1, <1>5, <1>6 DEF Order, Turn

(* Turn and lane tell the cases of a plan apart. *)
LEMMA TurnAndLane ==
  ASSUME NEW a \in Cases, NEW b \in Cases, Turn(a) = Turn(b), Lane(a) = Lane(b)
  PROVE  a = b
<1>1. Batch(a) = Batch(b) /\ Order(a) = Order(b)
  BY CaseType DEF Turn
<1>2. a[1] = b[1] /\ a[2] = b[2]
  BY <1>1, CaseType
<1> QED
  BY <1>2, CaseType

(* The waves are enough for all cases. *)
LEMMA TurnsOfPlan ==
  ASSUME NEW c \in Cases
  PROVE  WaveCount \in Nat /\ Turn(c) < WaveCount
<1>1. IsFiniteSet(Batches)
  <2>1. \A b \in Cases : Batch(b) \in 1 .. PairCount
    <3> TAKE b \in Cases
    <3>1. /\ b[1] = Jobs * (Batch(b) - 1) + (Lane(b) - 1) /\ Batch(b) \in Nat \ {0}
          /\ Lane(b) \in Lanes /\ b[1] \in 0 .. PairCount - 1
      BY CaseType
    <3>2. Jobs * (Batch(b) - 1) >= Batch(b) - 1
      BY <3>1, LanesBounds
    <3>3. Jobs * (Batch(b) - 1) \in Int
      BY <3>1, LanesBounds
    <3> QED
      BY <3>1, <3>2, <3>3, LanesBounds DEF Lanes
  <2>2. Batches \subseteq 1 .. PairCount
    BY <2>1 DEF Batches
  <2>3. IsFiniteSet(1 .. PairCount)
    BY LanesBounds, FS_Interval
  <2> QED
    BY <2>2, <2>3, FS_Subset
<1>2. 1 .. Batch(c) \subseteq Batches
  <2> SUFFICES ASSUME NEW b \in 1 .. Batch(c) PROVE b \in Batches
    OBVIOUS
  <2> DEFINE first == <<Jobs * (b - 1), 0>>
  <2>1. Batch(c) \in Nat \ {0} /\ b - 1 \in Nat /\ Jobs \in Nat \ {0} /\ b \in Nat
    BY CaseType, LanesBounds
  <2>2. Jobs * (b - 1) \in Nat
    BY <2>1
  <2>3. Jobs * (b - 1) <= Jobs * (Batch(c) - 1)
    <3>1. Batch(c) - 1 = (b - 1) + (Batch(c) - b) /\ Batch(c) - b \in Nat
      BY <2>1
    <3>2. Jobs * (Batch(c) - 1) = Jobs * (b - 1) + Jobs * (Batch(c) - b)
      BY <2>1, <3>1
    <3>3. Jobs * (Batch(c) - b) \in Nat
      BY <2>1, <3>1
    <3> QED
      BY <2>2, <3>2, <3>3
  <2>4. Jobs * (b - 1) \in 0 .. PairCount - 1
    <3>1. /\ c[1] = Jobs * (Batch(c) - 1) + (Lane(c) - 1) /\ Lane(c) \in Lanes
          /\ c[1] \in 0 .. PairCount - 1
      BY CaseType
    <3>2. Jobs * (Batch(c) - 1) \in Int
      BY <2>1
    <3> QED
      BY <2>2, <2>3, <3>1, <3>2, LanesBounds DEF Lanes
  <2>5. first \in Cases
    BY <2>4 DEF Cases
  <2>6. (Jobs * (b - 1)) \div Jobs = b - 1
    <3>1. Jobs * (b - 1) = Jobs * (b - 1) + 0 /\ 0 \in 0 .. Jobs - 1
      BY <2>1, <2>2
    <3> QED
      BY <2>1, <2>2, <3>1, OneQuotient
  <2>7. Batch(first) = b
    BY <2>1, <2>6 DEF Batch
  <2> QED
    BY <2>5, <2>7 DEF Batches
<1>3. Batch(c) <= Cardinality(Batches) /\ Cardinality(Batches) \in Nat
  <2>1. Batch(c) \in Nat \ {0}
    BY CaseType
  <2>2. Cardinality(1 .. Batch(c)) = Batch(c)
    BY <2>1, FS_Interval
  <2>3. Cardinality(1 .. Batch(c)) <= Cardinality(Batches)
    BY <1>1, <1>2, FS_Subset
  <2> QED
    BY <1>1, <2>2, <2>3, FS_CardinalityType
<1> QED
  BY <1>3, CaseType DEF WaveCount, Turn

(* The plan uses every lane. *)
LEMMA LanesOfPlan == {Lane(c) : c \in Cases} = Lanes
<1>1. ASSUME NEW l \in Lanes PROVE \E c \in Cases : Lane(c) = l
  <2>1. <<l - 1, 0>> \in Cases /\ l - 1 \in Nat /\ l - 1 < Jobs
    BY <1>1, LanesBounds DEF Cases, Lanes
  <2>2. (l - 1) % Jobs = l - 1
    BY <2>1, LanesBounds
  <2>3. Lane(<<l - 1, 0>>) = l
    BY <2>2, <1>1, LanesBounds DEF Lane, Lanes
  <2> QED
    BY <2>1, <2>3
<1> QED
  BY <1>1, CaseType

-----------------------------------------------------------------------------
(* Types *)

(* What attestations can say. *)
Reports == UNION {[S -> SUBSET Cases] : S \in SUBSET Cases}

(* The type invariant, with the attestations as functions. *)
LanesTyped ==
  /\ phase \in [Executions -> Phases]
  /\ wave \in [Executions -> Nat]
  /\ failing \in [Executions -> BOOLEAN]
  /\ lane \in [Executions -> 1 .. Jobs + 1]
  /\ casePc \in [Executions -> [Cases -> CaseSteps]]
  /\ raising \in SUBSET (Executions \X Cases)
  /\ predecessors \in [Executions -> [Cases -> SUBSET Cases]]
  /\ captures \in [Directories -> [Cases -> SUBSET Files]]
  /\ existing \in SUBSET Directories
  /\ attestation \in [Directories -> {"none", "partial", "full"}]
  /\ attested \in [Directories -> Reports]
  /\ stack \in [Lanes -> SUBSET (Executions \X Cases)]
  /\ startedOn \in [Executions -> [Cases -> SUBSET (Executions \X Cases)]]
  /\ unclean \in SUBSET Lanes
  /\ faults \in 0 .. MaxFaults /\ kills \in 0 .. MaxKills

(* A thread that moves on leaves the others where they are. *)
LEMMA ThreadMoves ==
  ASSUME LanesTyped, NEW e \in Executions, NEW c \in Cases, NEW step \in CaseSteps,
         CaseGoto(e, c, step)
  PROVE  /\ casePc' \in [Executions -> [Cases -> CaseSteps]] /\ casePc'[e][c] = step
         /\ \A x \in Executions, y \in Cases : x # e \/ y # c => casePc'[x][y] = casePc[x][y]
BY DEF LanesTyped, CaseGoto

(* A main thread that moves on leaves the others where they are. *)
LEMMA MainMoves ==
  ASSUME LanesTyped, NEW e \in Executions, NEW step \in Phases, Goto(e, step)
  PROVE  /\ phase' \in [Executions -> Phases] /\ phase'[e] = step
         /\ \A x \in Executions : x # e => phase'[x] = phase[x]
BY DEF LanesTyped, Goto

(* A file that is written is added to those of its case. *)
LEMMA FilesGrow ==
  ASSUME LanesTyped, NEW e \in Executions, NEW c \in Cases, NEW file \in Files, Writes(e, c, file)
  PROVE  /\ captures' \in [Directories -> [Cases -> SUBSET Files]]
         /\ file \in captures'[Output[e]][c]
         /\ \A d \in Directories, y \in Cases : captures[d][y] \subseteq captures'[d][y]
<1>1. Output[e] \in Directories
  BY LanesBounds
<1> QED
  BY <1>1 DEF LanesTyped, Writes

(* A tear-down empties one lane. *)
LEMMA LaneEmptied ==
  ASSUME LanesTyped, NEW l \in Lanes, TearDown(l)
  PROVE  /\ stack' \in [Lanes -> SUBSET (Executions \X Cases)] /\ stack'[l] = {}
         /\ \A x \in Lanes : x # l => stack'[x] = stack[x]
BY DEF LanesTyped, TearDown

(* `up` adds its case to one lane. *)
LEMMA LaneFilled ==
  ASSUME LanesTyped, NEW e \in Executions, NEW c \in Cases, Launch(e, c)
  PROVE  /\ stack' \in [Lanes -> SUBSET (Executions \X Cases)]
         /\ stack'[Lane(c)] = stack[Lane(c)] \cup {<<e, c>>}
         /\ \A x \in Lanes : x # Lane(c) => stack'[x] = stack[x]
<1>1. Lane(c) \in Lanes
  BY CaseType
<1> QED
  BY <1>1 DEF LanesTyped, Launch

(* The budgets are never exceeded. *)
LEMMA FaultsStay ==
  ASSUME faults \in 0 .. MaxFaults, Works \/ Breaks
  PROVE  faults' \in 0 .. MaxFaults
BY LanesBounds DEF Works, Breaks

(* What a step of a thread does: it is one of a case under way, which moves  *)
(* on; the other threads and the main threads stay where they are.           *)
ThreadStep(e, c) ==
  /\ phase[e] \notin Ends
  /\ casePc[e][c] \notin {"none"} \cup CaseEnds /\ casePc'[e][c] \notin {"none", "mkdir"}
  /\ \A x \in Executions, y \in Cases : x # e \/ y # c => casePc'[x][y] = casePc[x][y]
  /\ UNCHANGED <<mainVars, existing, attestation, attested, kills>>
  /\ \A d \in Directories, y \in Cases : captures[d][y] \subseteq captures'[d][y]
  /\ raising \subseteq raising' /\ raising' \subseteq raising \cup {<<e, c>>}
  /\ unclean \subseteq unclean'

(* A step of a thread, put together from what it may do to each variable. *)
LEMMA ThreadFrame ==
  ASSUME LanesTyped, NEW e \in Executions, NEW c \in Cases,
         phase[e] \notin Ends, casePc[e][c] \notin {"none"} \cup CaseEnds,
         NEW step \in CaseSteps \ {"none", "mkdir"}, CaseGoto(e, c, step),
         captures' = captures \/ (\E file \in Files : Writes(e, c, file)),
         raising' = raising \/ raising' = raising \cup {<<e, c>>},
         predecessors' \in [Executions -> [Cases -> SUBSET Cases]],
         stack' \in [Lanes -> SUBSET (Executions \X Cases)],
         startedOn' \in [Executions -> [Cases -> SUBSET (Executions \X Cases)]],
         unclean \subseteq unclean', unclean' \in SUBSET Lanes, Works \/ Breaks,
         UNCHANGED <<mainVars, existing, attestation, attested, kills>>
  PROVE  LanesTyped' /\ ThreadStep(e, c)
<1>1. /\ captures' \in [Directories -> [Cases -> SUBSET Files]]
      /\ \A d \in Directories, y \in Cases : captures[d][y] \subseteq captures'[d][y]
  BY FilesGrow DEF LanesTyped
<1>2. faults' \in 0 .. MaxFaults
  BY FaultsStay DEF LanesTyped
<1>3. /\ casePc' \in [Executions -> [Cases -> CaseSteps]] /\ casePc'[e][c] = step
      /\ \A x \in Executions, y \in Cases : x # e \/ y # c => casePc'[x][y] = casePc[x][y]
  BY ThreadMoves
<1>4. raising' \in SUBSET (Executions \X Cases)
  BY DEF LanesTyped
<1> QED
  BY <1>1, <1>2, <1>3, <1>4 DEF LanesTyped, ThreadStep, mainVars

(* Every step of _collect_case is such a step. *)
LEMMA CollectType ==
  ASSUME LanesTyped, NEW e \in Executions, NEW c \in Cases, Collect(e, c)
  PROVE  LanesTyped' /\ ThreadStep(e, c)
<1>0. /\ predecessors \in [Executions -> [Cases -> SUBSET Cases]]
      /\ stack \in [Lanes -> SUBSET (Executions \X Cases)]
      /\ startedOn \in [Executions -> [Cases -> SUBSET (Executions \X Cases)]]
      /\ unclean \in SUBSET Lanes /\ Lane(c) \in Lanes
  BY CaseType DEF LanesTyped
<1>1. CASE MakeCaseDirectory(e, c)
  <2>1. PICK step \in {"copy", "failed"} : CaseGoto(e, c, step)
    BY <1>1 DEF MakeCaseDirectory, Dies
  <2>2. captures' = captures \/ (\E file \in Files : Writes(e, c, file))
    BY <1>1 DEF MakeCaseDirectory, Files
  <2> QED
    BY <1>0, <1>1, <2>1, <2>2, ThreadFrame
       DEF MakeCaseDirectory, Dies, At, dockerVars, CaseSteps, CaseEnds
<1>2. CASE CopyManifest(e, c)
  <2>1. PICK step \in {"up", "failed"} : CaseGoto(e, c, step)
    BY <1>2 DEF CopyManifest, Dies
  <2>2. captures' = captures \/ (\E file \in Files : Writes(e, c, file))
    BY <1>2 DEF CopyManifest, Files
  <2>3. predecessors' \in [Executions -> [Cases -> SUBSET Cases]]
    <3>1. PICK done \in SUBSET Cases : done = Completed(e)
      BY DEF Completed
    <3>2. CASE predecessors' = [predecessors EXCEPT ![e][c] = done]
      BY <1>0, <3>2
    <3>3. CASE predecessors' = predecessors
      BY <1>0, <3>3
    <3> QED
      BY <1>2, <3>1, <3>2, <3>3 DEF CopyManifest
  <2> QED
    BY <1>0, <1>2, <2>1, <2>2, <2>3, ThreadFrame
       DEF CopyManifest, Dies, At, dockerVars, CaseSteps, CaseEnds
<1>3. CASE Up(e, c)
  <2>1. PICK step \in {"runner", "log"} : CaseGoto(e, c, step)
    BY <1>3 DEF Up, CaseRaises
  <2>2. stack' \in [Lanes -> SUBSET (Executions \X Cases)]
    BY <1>0, <1>3, LaneFilled DEF Up
  <2>3. startedOn' \in [Executions -> [Cases -> SUBSET (Executions \X Cases)]]
    BY <1>0, <1>3 DEF Up
  <2> QED
    BY <1>0, <1>3, <2>1, <2>2, <2>3, ThreadFrame
       DEF Up, CaseRaises, At, outputVars, CaseSteps, CaseEnds
<1>4. CASE RunRunner(e, c)
  <2>1. PICK step \in {"stop", "log"} : CaseGoto(e, c, step)
    BY <1>4 DEF RunRunner, CaseRaises
  <2> QED
    BY <1>0, <1>4, <2>1, ThreadFrame
       DEF RunRunner, CaseRaises, At, outputVars, dockerVars, CaseSteps, CaseEnds
<1>5. CASE StopCollector(e, c)
  <2>1. PICK step \in {"log"} : CaseGoto(e, c, step)
    BY <1>5 DEF StopCollector, CaseRaises
  <2>2. captures' = captures \/ (\E file \in Files : Writes(e, c, file))
    BY <1>5 DEF StopCollector, Files
  <2> QED
    BY <1>0, <1>5, <2>1, <2>2, ThreadFrame
       DEF StopCollector, CaseRaises, At, dockerVars, CaseSteps, CaseEnds
<1>6. CASE WriteLog(e, c)
  <2>1. PICK step \in {"down", "failed"} : CaseGoto(e, c, step)
    BY <1>6 DEF WriteLog, Dies
  <2>2. captures' = captures \/ (\E file \in Files : Writes(e, c, file))
    BY <1>6 DEF WriteLog, Files
  <2> QED
    BY <1>0, <1>6, <2>1, <2>2, ThreadFrame
       DEF WriteLog, Dies, At, dockerVars, CaseSteps, CaseEnds
<1>7. CASE Down(e, c)
  <2>1. PICK step \in {"record", "failed"} : CaseGoto(e, c, step)
    BY <1>7 DEF Down, AfterDown
  <2>2. stack' \in [Lanes -> SUBSET (Executions \X Cases)]
    BY <1>0, <1>7, LaneEmptied DEF Down
  <2> QED
    BY <1>0, <1>7, <2>1, <2>2, ThreadFrame DEF Down, At, outputVars, CaseSteps, CaseEnds
<1>8. CASE Record(e, c)
  <2>1. PICK step \in {"completed", "failed"} : CaseGoto(e, c, step)
    BY <1>8 DEF Record
  <2> QED
    BY <1>0, <1>8, <2>1, ThreadFrame DEF Record, At, outputVars, dockerVars, CaseSteps, CaseEnds
<1> QED
  BY <1>1, <1>2, <1>3, <1>4, <1>5, <1>6, <1>7, <1>8 DEF Collect

(* What a step of a main thread leaves alone: the other executions, and the *)
(* cases that are complete.                                                 *)
MainStep(e) ==
  /\ \A x \in Executions : x # e =>
       /\ phase'[x] = phase[x] /\ wave'[x] = wave[x] /\ failing'[x] = failing[x]
       /\ lane'[x] = lane[x] /\ casePc'[x] = casePc[x]
  /\ \A x \in Executions, y \in Cases : casePc'[x][y] \in {casePc[x][y], "mkdir"}
  /\ UNCHANGED <<raising, predecessors, captures, startedOn>>
  /\ unclean \subseteq unclean'

(* Every step of collect_action_cases, of its start and of a kill is such a step. *)
LEMMA MainType ==
  ASSUME LanesTyped, NEW e \in Executions, Start(e) \/ Main(e) \/ Kill(e)
  PROVE  LanesTyped' /\ MainStep(e)
<1> USE DEF mainVars, caseVars, outputVars, dockerVars, MainStep
<1>0. Output[e] \in Directories /\ Jobs \in Nat \ {0}
  BY LanesBounds
<1>a. Works \/ Breaks \/ UNCHANGED faults => faults' \in 0 .. MaxFaults
  BY FaultsStay DEF LanesTyped
<1>1. CASE Start(e)
  BY <1>1, MainMoves DEF Start, LanesTyped, Phases
<1>2. CASE Check(e)
  <2>1. PICK step \in {"refused", "mkdir"} : Goto(e, step)
    BY <1>2 DEF Check
  <2> QED
    BY <1>2, <1>a, <2>1, MainMoves DEF Check, LanesTyped, Phases, Ends
<1>3. CASE MakeOutput(e)
  <2>1. PICK step \in {"refused", "wave"} : Goto(e, step)
    BY <1>3 DEF MakeOutput
  <2>2. existing' \in SUBSET Directories
    BY <1>0, <1>3 DEF MakeOutput, LanesTyped
  <2> QED
    BY <1>3, <1>a, <2>1, <2>2, MainMoves DEF MakeOutput, LanesTyped, Phases, Ends
<1>4. CASE SubmitWave(e)
  <2>1. /\ casePc' \in [Executions -> [Cases -> CaseSteps]]
        /\ \A x \in Executions : x # e => casePc'[x] = casePc[x]
        /\ \A x \in Executions, y \in Cases : casePc'[x][y] \in {casePc[x][y], "mkdir"}
    BY <1>4 DEF SubmitWave, LanesTyped, CaseSteps
  <2> QED
    BY <1>4, <2>1, MainMoves DEF SubmitWave, LanesTyped, Phases, Ends
<1>5. CASE GatherWave(e)
  <2>1. PICK step \in {"clean", "wave"} : Goto(e, step)
    BY <1>5 DEF GatherWave
  <2>2. /\ wave' \in [Executions -> Nat] /\ failing' \in [Executions -> BOOLEAN]
        /\ \A x \in Executions : x # e => wave'[x] = wave[x] /\ failing'[x] = failing[x]
    <3>1. CASE wave' = wave /\ failing' = [failing EXCEPT ![e] = TRUE]
      BY <3>1 DEF LanesTyped
    <3>2. CASE wave' = [wave EXCEPT ![e] = wave[e] + 1] /\ failing' = failing
      BY <3>2 DEF LanesTyped
    <3> QED
      BY <1>5, <3>1, <3>2 DEF GatherWave
  <2> QED
    BY <1>5, <2>1, <2>2, MainMoves DEF GatherWave, LanesTyped, Phases, Ends
<1>6. CASE CleanLane(e)
  <2>1. lane[e] \in Lanes
    BY <1>0, <1>6 DEF CleanLane, LanesTyped, Lanes
  <2>2. /\ lane' \in [Executions -> 1 .. Jobs + 1]
        /\ \A x \in Executions : x # e => lane'[x] = lane[x]
    <3>1. lane' = lane \/ lane' = [lane EXCEPT ![e] = lane[e] + 1]
      BY <1>6 DEF CleanLane
    <3>2. lane[e] + 1 \in 1 .. Jobs + 1 /\ lane \in [Executions -> 1 .. Jobs + 1]
      BY <1>0, <2>1 DEF Lanes, LanesTyped
    <3> QED
      BY <3>1, <3>2
  <2>3. stack' \in [Lanes -> SUBSET (Executions \X Cases)]
    BY <1>6, <2>1, LaneEmptied DEF CleanLane, LanesTyped
  <2>4. unclean \subseteq unclean' /\ unclean' \in SUBSET Lanes
    BY <1>6, <2>1 DEF CleanLane, LanesTyped
  <2>5. /\ phase' \in [Executions -> Phases]
        /\ \A x \in Executions : x # e => phase'[x] = phase[x]
    BY <1>6, MainMoves DEF CleanLane, LanesTyped, Phases, Ends
  <2> QED
    BY <1>6, <1>a, <2>2, <2>3, <2>4, <2>5 DEF CleanLane, LanesTyped
<1>7. CASE Cleaned(e)
  <2>1. PICK step \in {"failed", "open"} : Goto(e, step)
    BY <1>7 DEF Cleaned
  <2> QED
    BY <1>7, <2>1, MainMoves DEF Cleaned, LanesTyped, Phases, Ends
<1>8. CASE OpenAttestation(e)
  <2>1. PICK step \in {"failed", "write"} : Goto(e, step)
    BY <1>8 DEF OpenAttestation
  <2>2. attestation' \in [Directories -> {"none", "partial", "full"}]
    BY <1>0, <1>8 DEF OpenAttestation, LanesTyped
  <2> QED
    BY <1>8, <1>a, <2>1, <2>2, MainMoves DEF OpenAttestation, LanesTyped, Phases, Ends
<1>9. CASE WriteAttestation(e)
  <2>1. PICK step \in {"failed", "done"} : Goto(e, step)
    BY <1>9 DEF WriteAttestation
  <2>2. attestation' \in [Directories -> {"none", "partial", "full"}]
    BY <1>0, <1>9 DEF WriteAttestation, LanesTyped
  <2>3. attested' \in [Directories -> Reports]
    <3>1. [c \in Completed(e) |-> predecessors[e][c]] \in Reports
      <4>1. Completed(e) \in SUBSET Cases
        BY DEF Completed
      <4>2. [c \in Completed(e) |-> predecessors[e][c]] \in [Completed(e) -> SUBSET Cases]
        BY <4>1 DEF LanesTyped
      <4> QED
        BY <4>1, <4>2 DEF Reports
    <3> QED
      BY <1>0, <1>9, <3>1 DEF WriteAttestation, LanesTyped
  <2> QED
    BY <1>9, <1>a, <2>1, <2>2, <2>3, MainMoves DEF WriteAttestation, LanesTyped, Phases, Ends
<1>10. CASE Kill(e)
  <2>1. kills' \in 0 .. MaxKills
    BY <1>10, LanesBounds DEF Kill, LanesTyped
  <2>2. PICK ups \in SUBSET {c \in Cases : casePc[e][c] = "up"},
             downs \in SUBSET {Lane(c) : c \in {b \in Cases : casePc[e][b] = "down"}} :
          stack' = [l \in Lanes |->
                      IF l \in downs THEN {}
                      ELSE stack[l] \cup {<<e, c>> : c \in {u \in ups : Lane(u) = l}}]
    BY <1>10 DEF Kill
  <2>3. stack' \in [Lanes -> SUBSET (Executions \X Cases)]
    BY <2>2 DEF LanesTyped
  <2>4. unclean \subseteq unclean' /\ unclean' \in SUBSET Lanes
    BY <1>10 DEF Kill, LanesTyped
  <2> QED
    BY <1>10, <2>1, <2>3, <2>4, MainMoves DEF Kill, LanesTyped, Phases, Ends
<1> QED
  BY <1>1, <1>2, <1>3, <1>4, <1>5, <1>6, <1>7, <1>8, <1>9, <1>10 DEF Main

(* Every step keeps the types. *)
LEMMA TypedStep ==
  ASSUME LanesTyped, [Next]_vars
  PROVE  LanesTyped'
<1>1. CASE UNCHANGED vars
  BY <1>1 DEF LanesTyped, vars, mainVars, caseVars, outputVars, dockerVars
<1> QED
  BY <1>1, CollectType, MainType DEF Next

(* So does the initial state. *)
LEMMA InitTyped ==
  ASSUME Init
  PROVE  LanesTyped
<1>1. Nothing \in Reports
  BY DEF Nothing, Reports
<1> QED
  BY <1>1, LanesBounds DEF Init, LanesTyped, Phases, CaseSteps

(* Every variable of a collection keeps its type, and a report names cases   *)
(* of the plan only (collect_pilot.py).                                      *)
THEOREM TypeCorrect == Spec => []TypeOK
<1>1. LanesTyped => TypeOK
  BY DEF LanesTyped, TypeOK, Reports
<1> QED
  BY <1>1, InitTyped, TypedStep, PTL DEF Spec

-----------------------------------------------------------------------------
(* The waves. *)

(* One wave after the other: the cases of the earlier ones are completed,    *)
(* those of the later ones have not begun; main leaves the loop when all are *)
(* completed, or with an exception when no thread is left.                   *)
Waves(e) ==
  /\ phase[e] \in {"idle", "check", "mkdir"} =>
       wave[e] = 0 /\ \A c \in Cases : casePc[e][c] = "none"
  /\ phase[e] \in {"wave", "gather"} =>
       \A c \in Cases :
         /\ Turn(c) < wave[e] => casePc[e][c] = "completed"
         /\ Turn(c) > wave[e] => casePc[e][c] = "none"
         /\ Turn(c) = wave[e] => (casePc[e][c] = "none" <=> phase[e] = "wave")
  /\ phase[e] = "clean" => \A c \in Cases : casePc[e][c] \in CaseEnds \cup {"none"}
  /\ phase[e] \in {"open", "write"} \/ (phase[e] = "clean" /\ ~failing[e]) =>
       \A c \in Cases : casePc[e][c] = "completed"
  /\ failing[e] => phase[e] \in {"clean"} \cup Ends
  /\ phase[e] \notin {"clean", "open", "write"} \cup Ends => lane[e] = 1

WavesFit == \A e \in Executions : Waves(e)

(* A thread that is under way belongs to the wave that main waits for. *)
LEMMA ThreadsOfWave ==
  ASSUME LanesTyped, WavesFit, NEW e \in Executions, NEW c \in Cases,
         phase[e] \notin Ends, casePc[e][c] \notin {"none"} \cup CaseEnds
  PROVE  phase[e] = "gather" /\ Turn(c) = wave[e]
<1>1. phase[e] \in Phases /\ wave[e] \in Nat /\ Turn(c) \in Nat /\ Waves(e)
  BY CaseType DEF LanesTyped, WavesFit
<1>2. phase[e] \notin {"idle", "check", "mkdir", "clean", "open", "write"}
  BY <1>1 DEF Waves, CaseEnds
<1>3. phase[e] \in {"wave", "gather"}
  BY <1>1, <1>2 DEF Phases
<1>4. ~(Turn(c) < wave[e]) /\ ~(Turn(c) > wave[e])
  BY <1>1, <1>3 DEF Waves, CaseEnds
<1> QED
  BY <1>1, <1>3, <1>4 DEF Waves

(* Every step keeps the order of the waves. *)
LEMMA WavesStep ==
  ASSUME LanesTyped, WavesFit, [Next]_vars
  PROVE  WavesFit'
<1>1. CASE UNCHANGED vars
  BY <1>1 DEF WavesFit, Waves, vars, mainVars, caseVars
<1>2. ASSUME NEW e \in Executions, NEW c \in Cases, Collect(e, c)
      PROVE  WavesFit'
  <2>1. ThreadStep(e, c)
    BY <1>2, CollectType
  <2>2. phase[e] = "gather" /\ Turn(c) = wave[e] /\ casePc[e][c] # "none" /\ casePc'[e][c] # "none"
    BY <2>1, ThreadsOfWave DEF ThreadStep
  <2>3. UNCHANGED <<phase, wave, failing, lane>>
    BY <2>1 DEF ThreadStep, mainVars
  <2>4. ASSUME NEW x \in Executions PROVE Waves(x)'
    <3>1. CASE x # e
      <4>1. \A y \in Cases : casePc'[x][y] = casePc[x][y]
        BY <2>1, <3>1 DEF ThreadStep
      <4> QED
        BY <2>3, <4>1 DEF WavesFit, Waves
    <3>2. CASE x = e
      <4>1. \A y \in Cases : y # c => casePc'[x][y] = casePc[x][y]
        BY <2>1, <3>2 DEF ThreadStep
      <4>2. wave[e] \in Nat
        BY DEF LanesTyped
      <4> QED
        BY <2>2, <2>3, <3>2, <4>1, <4>2 DEF WavesFit, Waves, Ends
    <3> QED
      BY <3>1, <3>2
  <2> QED
    BY <2>4 DEF WavesFit
<1>3. ASSUME NEW e \in Executions, Start(e) \/ Main(e) \/ Kill(e)
      PROVE  WavesFit'
  <2>1. \A x \in Executions : x # e =>
          /\ phase'[x] = phase[x] /\ wave'[x] = wave[x] /\ failing'[x] = failing[x]
          /\ lane'[x] = lane[x] /\ casePc'[x] = casePc[x]
    BY <1>3, MainType DEF MainStep
  <2>2. ASSUME NEW x \in Executions, x # e PROVE Waves(x)'
    BY <2>1, <2>2 DEF WavesFit, Waves
  <2>3. Waves(e) /\ wave[e] \in Nat /\ phase[e] \in Phases /\ lane[e] \in 1 .. Jobs + 1
    BY DEF LanesTyped, WavesFit
  <2>4. Waves(e)'
    <3> USE DEF Waves, Ends, mainVars, caseVars
    <3>1. CASE Start(e)
      BY <2>3, <3>1, MainMoves DEF Start, Phases
    <3>2. CASE Check(e)
      <4>1. PICK step \in {"refused", "mkdir"} : Goto(e, step)
        BY <3>2 DEF Check
      <4> QED
        BY <2>3, <3>2, <4>1, MainMoves DEF Check, Phases
    <3>3. CASE MakeOutput(e)
      <4>1. PICK step \in {"refused", "wave"} : Goto(e, step)
        BY <3>3 DEF MakeOutput
      <4>2. \A c \in Cases : Turn(c) \in Nat
        BY CaseType
      <4> QED
        BY <2>3, <3>3, <4>1, <4>2, MainMoves DEF MakeOutput, Phases
    <3>4. CASE SubmitWave(e)
      <4>1. phase'[e] = "gather" /\ phase[e] = "wave" /\ UNCHANGED <<wave, failing, lane>>
        BY <3>4, MainMoves DEF SubmitWave, Phases
      <4>2. \A c \in Cases : casePc'[e][c] = IF Turn(c) = wave[e] THEN "mkdir" ELSE casePc[e][c]
        BY <3>4 DEF SubmitWave, LanesTyped, Wave, Turn
      <4>3. \A c \in Cases : Turn(c) \in Nat
        BY CaseType
      <4> QED
        BY <2>3, <4>1, <4>2, <4>3
    <3>5. CASE GatherWave(e)
      <4>1. /\ phase[e] = "gather" /\ UNCHANGED <<lane, casePc>>
            /\ \A c \in Cases : Turn(c) = wave[e] => casePc[e][c] \in CaseEnds
        BY <3>5 DEF GatherWave, Wave, Turn
      <4>2. \A c \in Cases : Turn(c) \in Nat /\ Turn(c) < WaveCount
        BY CaseType, TurnsOfPlan
      <4>3. CASE \A c \in Wave(e) : casePc[e][c] = "completed"
        <5>1. /\ wave'[e] = wave[e] + 1 /\ failing' = failing
              /\ phase'[e] = IF wave'[e] = WaveCount THEN "clean" ELSE "wave"
          BY <2>3, <3>5, <4>3, MainMoves DEF GatherWave, LanesTyped, Phases
        <5>2. \A c \in Cases : Turn(c) = wave[e] => casePc[e][c] = "completed"
          BY <4>3 DEF Wave, Turn
        <5>3. \A c \in Cases : Turn(c) < wave'[e] => casePc[e][c] = "completed"
          BY <2>3, <4>1, <4>2, <5>1, <5>2
        <5>4. CASE wave'[e] = WaveCount
          BY <2>3, <4>1, <4>2, <5>1, <5>3, <5>4 DEF CaseEnds
        <5>5. CASE wave'[e] # WaveCount
          BY <2>3, <4>1, <4>2, <5>1, <5>3, <5>5 DEF CaseEnds
        <5> QED
          BY <5>4, <5>5
      <4>4. CASE ~(\A c \in Wave(e) : casePc[e][c] = "completed")
        <5>1. failing'[e] = TRUE /\ phase'[e] = "clean" /\ wave' = wave
          BY <3>5, <4>4, MainMoves DEF GatherWave, LanesTyped, Phases
        <5> QED
          BY <2>3, <4>1, <4>2, <5>1 DEF CaseEnds
      <4> QED
        BY <4>3, <4>4
    <3>6. CASE CleanLane(e)
      <4>1. phase[e] = "clean" /\ phase'[e] \in {"clean", "failed"}
            /\ UNCHANGED <<wave, failing, casePc>>
        BY <3>6, MainMoves DEF CleanLane, Phases
      <4> QED
        BY <2>3, <4>1
    <3>7. CASE Cleaned(e)
      <4>1. phase[e] = "clean" /\ phase'[e] = (IF failing[e] THEN "failed" ELSE "open")
            /\ UNCHANGED <<wave, failing, lane, casePc>>
        BY <3>7, MainMoves DEF Cleaned, Phases
      <4> QED
        BY <2>3, <4>1
    <3>8. CASE OpenAttestation(e) \/ WriteAttestation(e)
      <4>1. /\ phase[e] \in {"open", "write"} /\ phase'[e] \in {"write", "done", "failed"}
            /\ UNCHANGED <<wave, failing, lane, casePc>>
        BY <3>8, MainMoves DEF OpenAttestation, WriteAttestation, Phases
      <4> QED
        BY <2>3, <4>1
    <3>9. CASE Kill(e)
      BY <2>3, <3>9, MainMoves DEF Kill, Phases
    <3> QED
      BY <1>3, <3>1, <3>2, <3>3, <3>4, <3>5, <3>6, <3>7, <3>8, <3>9 DEF Main
  <2> QED
    BY <2>2, <2>4 DEF WavesFit
<1> QED
  BY <1>1, <1>2, <1>3 DEF Next

(* It holds before the first step. *)
LEMMA WavesInit ==
  ASSUME Init
  PROVE  WavesFit
BY DEF Init, WavesFit, Waves, Ends

-----------------------------------------------------------------------------
(* What an attestation says. *)

(* The files a thread has written when it reaches its next step. *)
FilesOf(e, c) ==
  LET files == captures[Output[e]][c]
      step == casePc[e][c]
  IN  /\ step \notin {"none", "mkdir", "failed"} => "directory" \in files
      /\ step \notin {"none", "mkdir", "copy", "failed"} => "manifest" \in files
      /\ step \in {"log", "down", "record", "completed"} /\ <<e, c>> \notin raising =>
           "telemetry" \in files
      /\ step \in {"down", "record", "completed"} => "log" \in files
      /\ step \in {"record", "completed"} => <<e, c>> \notin raising

FilesFit == \A e \in Executions, c \in Cases : FilesOf(e, c)

(* A case that has its manifest knows all cases of the earlier waves as *)
(* completed before it.                                                 *)
PredecessorsOf(e, c) ==
  casePc[e][c] \notin {"none", "mkdir", "copy", "failed"} =>
    \A b \in Cases : Turn(b) < Turn(c) => b \in predecessors[e][c]

PredecessorsFit == \A e \in Executions, c \in Cases : PredecessorsOf(e, c)

(* Each step of a thread writes its file before it moves on. *)
LEMMA FilesOfThread ==
  ASSUME LanesTyped, NEW e \in Executions, NEW c \in Cases, FilesOf(e, c), Collect(e, c)
  PROVE  FilesOf(e, c)'
<1> DEFINE old == captures[Output[e]][c]
           files == captures'[Output[e]][c]
           before == casePc[e][c]
           step == casePc'[e][c]
<1>0. /\ before \notin {"none", "mkdir", "failed"} => "directory" \in old
      /\ before \notin {"none", "mkdir", "copy", "failed"} => "manifest" \in old
      /\ before \in {"log", "down", "record", "completed"} /\ <<e, c>> \notin raising =>
           "telemetry" \in old
      /\ before \in {"down", "record", "completed"} => "log" \in old
      /\ before \in {"record", "completed"} => <<e, c>> \notin raising
  BY DEF FilesOf
<1>a. \A s \in CaseSteps : CaseGoto(e, c, s) => step = s
  BY ThreadMoves
<1>b. \A f \in Files : Writes(e, c, f) => f \in files
  BY FilesGrow
<1>c. old \subseteq files
  BY CollectType, LanesBounds DEF ThreadStep
<1>q. /\ step \notin {"none", "mkdir", "failed"} => "directory" \in files
      /\ step \notin {"none", "mkdir", "copy", "failed"} => "manifest" \in files
      /\ step \in {"log", "down", "record", "completed"} /\ <<e, c>> \notin raising' =>
           "telemetry" \in files
      /\ step \in {"down", "record", "completed"} => "log" \in files
      /\ step \in {"record", "completed"} => <<e, c>> \notin raising'
  <2> HIDE DEF files, step, old, before
  <2>1. CASE MakeCaseDirectory(e, c)
    <3>1. \/ step = "failed"
          \/ step = "copy" /\ "directory" \in files
      BY <2>1, <1>a, <1>b DEF MakeCaseDirectory, Dies, Files, CaseSteps, CaseEnds
    <3> QED
      BY <3>1
  <2>2. CASE CopyManifest(e, c)
    <3>1. /\ before = "copy"
          /\ \/ step = "failed"
             \/ step = "up" /\ "manifest" \in files
      BY <2>2, <1>a, <1>b DEF CopyManifest, Dies, Files, CaseSteps, CaseEnds, At, before
    <3> QED
      BY <1>0, <1>c, <3>1
  <2>3. CASE Up(e, c) \/ RunRunner(e, c)
    <3>1. /\ before \in {"up", "runner"}
          /\ \/ step \in {"runner", "stop"}
             \/ step = "log" /\ <<e, c>> \in raising'
      BY <2>3, <1>a DEF Up, RunRunner, CaseRaises, CaseSteps, CaseEnds, At, before
    <3> QED
      BY <1>0, <1>c, <3>1
  <2>4. CASE StopCollector(e, c)
    <3>1. /\ before = "stop" /\ step = "log"
          /\ "telemetry" \in files \/ <<e, c>> \in raising'
      BY <2>4, <1>a, <1>b DEF StopCollector, CaseRaises, Files, CaseSteps, CaseEnds, At, before
    <3> QED
      BY <1>0, <1>c, <3>1
  <2>5. CASE WriteLog(e, c)
    <3>1. /\ before = "log" /\ raising' = raising
          /\ \/ step = "failed"
             \/ step = "down" /\ "log" \in files
      BY <2>5, <1>a, <1>b DEF WriteLog, Dies, Files, CaseSteps, CaseEnds, At, before
    <3> QED
      BY <1>0, <1>c, <3>1
  <2>6. CASE Down(e, c)
    <3>1. /\ before = "down" /\ raising' = raising
          /\ \/ step = "failed"
             \/ step = "record" /\ <<e, c>> \notin raising
      BY <2>6, <1>a DEF Down, AfterDown, CaseSteps, CaseEnds, At, before
    <3> QED
      BY <1>0, <1>c, <3>1
  <2>7. CASE Record(e, c)
    <3>1. before = "record" /\ raising' = raising /\ step \in {"completed", "failed"}
      BY <2>7, <1>a DEF Record, CaseSteps, CaseEnds, At, before
    <3> QED
      BY <1>0, <1>c, <3>1
  <2> QED
    BY <2>1, <2>2, <2>3, <2>4, <2>5, <2>6, <2>7 DEF Collect
<1> QED
  BY <1>q DEF FilesOf

(* The files of a case are there, whatever other threads and executions do. *)
LEMMA FilesStep ==
  ASSUME LanesTyped, FilesFit, [Next]_vars
  PROVE  FilesFit'
<1>1. CASE UNCHANGED vars
  BY <1>1 DEF FilesFit, FilesOf, vars, caseVars, outputVars
<1>2. ASSUME NEW e \in Executions, NEW c \in Cases, Collect(e, c),
             NEW x \in Executions, NEW y \in Cases
      PROVE  FilesOf(x, y)'
  <2>1. CASE x = e /\ y = c
    BY <1>2, <2>1, FilesOfThread DEF FilesFit
  <2>2. CASE x # e \/ y # c
    <3>1. /\ casePc'[x][y] = casePc[x][y]
          /\ captures[Output[x]][y] \subseteq captures'[Output[x]][y]
          /\ <<x, y>> \in raising' <=> <<x, y>> \in raising
      BY <1>2, <2>2, CollectType, LanesBounds DEF ThreadStep
    <3> QED
      BY <3>1 DEF FilesFit, FilesOf
  <2> QED
    BY <2>1, <2>2
<1>3. ASSUME NEW e \in Executions, Start(e) \/ Main(e) \/ Kill(e),
             NEW x \in Executions, NEW y \in Cases
      PROVE  FilesOf(x, y)'
  <2>1. casePc'[x][y] \in {casePc[x][y], "mkdir"} /\ UNCHANGED <<raising, captures>>
    BY <1>3, MainType DEF MainStep
  <2> QED
    BY <2>1 DEF FilesFit, FilesOf
<1> QED
  BY <1>1, <1>2, <1>3 DEF Next, FilesFit

(* A thread is started when the earlier waves are completed, and takes note of them. *)
LEMMA PredecessorsStep ==
  ASSUME LanesTyped, WavesFit, PredecessorsFit, [Next]_vars
  PROVE  PredecessorsFit'
<1>1. CASE UNCHANGED vars
  BY <1>1 DEF PredecessorsFit, PredecessorsOf, vars, caseVars
<1>2. ASSUME NEW e \in Executions, NEW c \in Cases, Collect(e, c),
             NEW x \in Executions, NEW y \in Cases
      PROVE  PredecessorsOf(x, y)'
  <2>0. ThreadStep(e, c)
    BY <1>2, CollectType
  <2>1. CASE CopyManifest(e, c) /\ predecessors' = [predecessors EXCEPT ![e][c] = Completed(e)]
    <3>1. /\ predecessors'[e][c] = Completed(e)
          /\ x # e \/ y # c => predecessors'[x][y] = predecessors[x][y]
      BY <2>1 DEF LanesTyped
    <3>2. phase[e] = "gather" /\ Turn(c) = wave[e]
      BY <2>0, ThreadsOfWave DEF ThreadStep
    <3>3. \A b \in Cases : Turn(b) < Turn(c) => b \in Completed(e)
      BY <3>2 DEF WavesFit, Waves, Completed
    <3> QED
      BY <2>0, <3>1, <3>3 DEF PredecessorsFit, PredecessorsOf, ThreadStep
  <2>2. CASE /\ UNCHANGED predecessors
             /\ ~(/\ CopyManifest(e, c)
                  /\ predecessors' = [predecessors EXCEPT ![e][c] = Completed(e)])
    <3>1. CASE x # e \/ y # c
      BY <2>0, <2>2, <3>1 DEF PredecessorsFit, PredecessorsOf, ThreadStep
    <3>2. CASE x = e /\ y = c
      <4>1. CASE MakeCaseDirectory(e, c) \/ CopyManifest(e, c)
        <5>1. casePc'[e][c] \in {"copy", "failed"}
          BY <2>2, <4>1, ThreadMoves DEF MakeCaseDirectory, CopyManifest, Dies, CaseSteps, CaseEnds
        <5> QED
          BY <3>2, <5>1 DEF PredecessorsOf
      <4>2. CASE casePc[e][c] \notin {"none", "mkdir", "copy", "failed"}
        BY <2>2, <3>2, <4>2 DEF PredecessorsFit, PredecessorsOf
      <4> QED
        BY <1>2, <4>1, <4>2
           DEF Collect, Up, RunRunner, StopCollector, WriteLog, Down, Record, At
    <3> QED
      BY <3>1, <3>2
  <2> QED
    BY <1>2, <2>1, <2>2
       DEF Collect, MakeCaseDirectory, CopyManifest, Up, RunRunner, StopCollector, WriteLog, Down,
           Record
<1>3. ASSUME NEW e \in Executions, Start(e) \/ Main(e) \/ Kill(e),
             NEW x \in Executions, NEW y \in Cases
      PROVE  PredecessorsOf(x, y)'
  <2>1. casePc'[x][y] \in {casePc[x][y], "mkdir"} /\ UNCHANGED predecessors
    BY <1>3, MainType DEF MainStep
  <2> QED
    BY <2>1 DEF PredecessorsFit, PredecessorsOf
<1> QED
  BY <1>1, <1>2, <1>3 DEF Next, PredecessorsFit

(* The report of a whole plan, in the order of its waves, passes. *)
LEMMA WholePlanPasses ==
  ASSUME NEW report, DOMAIN report = Cases,
         \A b, c \in Cases : Turn(b) < Turn(c) => b \in report[c]
  PROVE  TwinWaveBarrier(report) /\ LaneIsolation(report)
<1>1. Cases # {}
  <2>1. <<0, 0>> \in Cases
    BY LanesBounds DEF Cases
  <2> QED
    BY <2>1
<1>2. ASSUME NEW c \in Cases, NEW o \in {0, 1}
      PROVE  \E twin \in Cases : Batch(twin) = Batch(c) /\ Order(twin) = o
  <2>1. <<c[1], o>> \in Cases /\ Batch(<<c[1], o>>) = Batch(c) /\ Order(<<c[1], o>>) = o
    BY CaseType DEF Cases, Batch, Order
  <2> QED
    BY <2>1
<1>3. ASSUME NEW b \in {Batch(c) : c \in Cases}
      PROVE  LET twins(order) == {c \in Cases : Batch(c) = b /\ Order(c) = order}
             IN  /\ twins(0) # {} /\ twins(1) # {}
                 /\ \A first \in twins(0), second \in twins(1) : first \in report[second]
  <2>1. PICK c \in Cases : Batch(c) = b
    OBVIOUS
  <2>2. \E twin \in Cases : Batch(twin) = b /\ Order(twin) = 0
    BY <1>2, <2>1
  <2>3. \E twin \in Cases : Batch(twin) = b /\ Order(twin) = 1
    BY <1>2, <2>1
  <2>4. ASSUME NEW first \in Cases, NEW second \in Cases,
               Batch(first) = b, Order(first) = 0, Batch(second) = b, Order(second) = 1
        PROVE  first \in report[second]
    <3>1. Turn(first) < Turn(second)
      BY <2>4, CaseType DEF Turn
    <3> QED
      BY <3>1
  <2> QED
    BY <2>2, <2>3, <2>4
<1> QED
  BY <1>1, <1>3, LanesOfPlan DEF TwinWaveBarrier, LaneIsolation

(* An attestation is written once all of it is true, and stays true. *)
LEMMA AttestationStep ==
  ASSUME LanesTyped, WavesFit, FilesFit, PredecessorsFit, AttestationIsSound, [Next]_vars
  PROVE  AttestationIsSound'
<1> DEFINE Sound(d) == /\ DOMAIN attested[d] = Cases
                       /\ TwinWaveBarrier(attested[d]) /\ LaneIsolation(attested[d])
                       /\ \A c \in Cases : captures[d][c] = Files
<1>1. ASSUME NEW d \in Directories, attestation'[d] = attestation[d], attested'[d] = attested[d],
             \A c \in Cases : captures[d][c] \subseteq captures'[d][c],
             \A c \in Cases : captures'[d][c] \subseteq Files, attestation'[d] = "full"
      PROVE  Sound(d)'
  <2>1. Sound(d)
    BY <1>1 DEF AttestationIsSound
  <2>2. \A c \in Cases : captures'[d][c] = Files
    BY <1>1, <2>1
  <2>3. DOMAIN attested'[d] = Cases /\ TwinWaveBarrier(attested'[d]) /\ LaneIsolation(attested'[d])
    BY <1>1, <2>1
  <2> QED
    BY <2>2, <2>3
<1>2. LanesTyped'
  BY TypedStep
<1>3. ASSUME NEW d \in Directories, UNCHANGED <<attestation, attested>>, attestation'[d] = "full",
             \A c \in Cases : captures[d][c] \subseteq captures'[d][c]
      PROVE  Sound(d)'
  <2>1. \A c \in Cases : captures'[d][c] \subseteq Files
    BY <1>2 DEF LanesTyped
  <2> QED
    BY <1>1, <1>3, <2>1
<1>4. CASE UNCHANGED vars
  BY <1>3, <1>4 DEF AttestationIsSound, vars, outputVars
<1>5. CASE \E e \in Executions, c \in Cases : Collect(e, c)
  <2>1. /\ UNCHANGED <<attestation, attested>>
        /\ \A d \in Directories, y \in Cases : captures[d][y] \subseteq captures'[d][y]
    BY <1>5, CollectType DEF ThreadStep
  <2> QED
    BY <1>3, <2>1 DEF AttestationIsSound
<1>6. ASSUME NEW e \in Executions, Start(e) \/ Main(e) \/ Kill(e)
      PROVE  AttestationIsSound'
  <2>0. UNCHANGED captures
    BY <1>6, MainType DEF MainStep
  <2>1. CASE UNCHANGED <<attestation, attested>>
    BY <1>3, <2>0, <2>1 DEF AttestationIsSound
  <2>2. CASE OpenAttestation(e) /\ attestation' = [attestation EXCEPT ![Output[e]] = "partial"]
    <3>1. \A d \in Directories : attestation'[d] = "full" => attestation'[d] = attestation[d]
      BY <2>2, LanesBounds DEF LanesTyped
    <3>2. attested' = attested
      BY <2>2 DEF OpenAttestation
    <3>3. \A d \in Directories, c \in Cases : captures'[d][c] \subseteq Files
      BY <1>2 DEF LanesTyped
    <3> QED
      BY <1>1, <2>0, <3>1, <3>2, <3>3 DEF AttestationIsSound
  <2>3. CASE WriteAttestation(e) /\ ~UNCHANGED <<attestation, attested>>
    <3>1. /\ phase[e] = "write" /\ Output[e] \in Directories
          /\ attestation' = [attestation EXCEPT ![Output[e]] = "full"]
          /\ attested' = [attested EXCEPT ![Output[e]] =
                            [c \in Completed(e) |-> predecessors[e][c]]]
      BY <2>3, LanesBounds DEF WriteAttestation
    <3>2. \A c \in Cases : casePc[e][c] = "completed"
      BY <3>1 DEF WavesFit, Waves
    <3>3. PICK report : report = [c \in Completed(e) |-> predecessors[e][c]]
      OBVIOUS
    <3>4. Completed(e) = Cases
      BY <3>2 DEF Completed
    <3>5. /\ DOMAIN report = Cases
          /\ \A b, c \in Cases : Turn(b) < Turn(c) => b \in report[c]
      BY <3>2, <3>3, <3>4 DEF PredecessorsFit, PredecessorsOf
    <3>6. TwinWaveBarrier(report) /\ LaneIsolation(report)
      BY <3>5, WholePlanPasses
    <3>7. \A c \in Cases : captures[Output[e]][c] = Files
      BY <3>1, <3>2 DEF FilesFit, FilesOf, LanesTyped, Files
    <3>8. attested'[Output[e]] = report
      BY <3>1, <3>3 DEF LanesTyped
    <3>9. Sound(Output[e])'
      <4>1. PICK o \in Directories : o = Output[e]
        BY <3>1
      <4>2. /\ DOMAIN attested'[o] = Cases
            /\ TwinWaveBarrier(attested'[o]) /\ LaneIsolation(attested'[o])
            /\ \A c \in Cases : captures'[o][c] = Files
        BY <2>0, <3>5, <3>6, <3>7, <3>8, <4>1
      <4> QED
        BY <4>1, <4>2
    <3>10. ASSUME NEW d \in Directories, d # Output[e], attestation'[d] = "full" PROVE Sound(d)'
      <4>1. attestation'[d] = attestation[d] /\ attested'[d] = attested[d]
        BY <3>1, <3>10 DEF LanesTyped
      <4>2. \A c \in Cases : captures'[d][c] \subseteq Files
        BY <1>2 DEF LanesTyped
      <4> QED
        BY <1>1, <2>0, <3>10, <4>1, <4>2
    <3> QED
      BY <3>9, <3>10 DEF AttestationIsSound
  <2> QED
    BY <1>6, <2>1, <2>2, <2>3
       DEF Start, Main, Kill, Check, MakeOutput, SubmitWave, GatherWave, CleanLane, Cleaned,
           OpenAttestation, WriteAttestation, outputVars
<1> QED
  BY <1>4, <1>5, <1>6 DEF Next

(* What an attestation says is true and passes the assessor: the whole plan  *)
(* was collected, every capture has its files, and the second twins of a     *)
(* batch were started after all of its first ones, whatever other executions *)
(* were started for the same directory, whatever failed and whoever was      *)
(* killed (collect_pilot.py; _twin_wave_barrier and _lane_isolation of       *)
(* action_dynamics_lab.py).                                                  *)
THEOREM AttestationsAreSound == Spec => []AttestationIsSound
<1>1. Init => FilesFit /\ PredecessorsFit /\ AttestationIsSound
  BY DEF Init, FilesFit, FilesOf, PredecessorsFit, PredecessorsOf, AttestationIsSound
<1> QED
  BY <1>1, InitTyped, TypedStep, WavesInit, WavesStep, FilesStep, PredecessorsStep,
     AttestationStep, PTL DEF Spec

-----------------------------------------------------------------------------
(* The lanes. *)

(* An execution whose mkdir of the output directory succeeded. *)
Owns(e) == phase[e] \in {"wave", "gather", "clean", "open", "write"}

(* Executions that overlap have the same output directory, which one of them *)
(* owns at most.                                                             *)
OneOwner ==
  /\ \A x, y \in Executions : Alive(x) /\ Alive(y) => Output[x] = Output[y]
  /\ \A e \in Executions : Owns(e) => Output[e] \in existing
  /\ \A x, y \in Executions : Owns(x) /\ Owns(y) => x = y

(* An execution is alive from its start to its end, and owns its directory *)
(* from its mkdir on.                                                      *)
LEMMA MainLives ==
  ASSUME LanesTyped, NEW e \in Executions, Main(e) \/ Kill(e)
  PROVE  /\ Alive(e) /\ existing \subseteq existing'
         /\ Owns(e)' => \/ Owns(e)
                        \/ Output[e] \notin existing /\ Output[e] \in existing'
<1>1. Alive(e)
  BY DEF Main, Check, MakeOutput, SubmitWave, GatherWave, CleanLane, Cleaned, OpenAttestation,
         WriteAttestation, Kill, Alive, Ends
<1>2. CASE MakeOutput(e)
  BY <1>1, <1>2, MainMoves DEF MakeOutput, Owns, Phases, Ends
<1>3. CASE Check(e) \/ Kill(e)
  BY <1>1, <1>3, MainMoves DEF Check, Kill, Owns, Phases, Ends, outputVars
<1>4. CASE SubmitWave(e) \/ GatherWave(e) \/ CleanLane(e) \/ Cleaned(e) \/ OpenAttestation(e)
           \/ WriteAttestation(e)
  BY <1>1, <1>4
     DEF SubmitWave, GatherWave, CleanLane, Cleaned, OpenAttestation, WriteAttestation, Owns,
         outputVars
<1> QED
  BY <1>2, <1>3, <1>4 DEF Main

(* No step makes a second owner. *)
LEMMA OwnerStep ==
  ASSUME LanesTyped, OneOwner, [Next]_vars
  PROVE  OneOwner'
<1>1. CASE UNCHANGED <<phase, existing>>
  BY <1>1 DEF OneOwner, Alive, Owns
<1>2. CASE UNCHANGED vars
  BY <1>1, <1>2 DEF vars, mainVars, outputVars
<1>3. CASE \E e \in Executions, c \in Cases : Collect(e, c)
  BY <1>1, <1>3, CollectType DEF ThreadStep, mainVars
<1>4. ASSUME NEW e \in Executions, Start(e) PROVE OneOwner'
  <2>1. /\ existing' = existing /\ phase'[e] = "check"
        /\ \A x \in Executions : x # e => phase'[x] = phase[x]
        /\ \A x \in Executions : Alive(x) => Output[x] = Output[e]
    BY <1>4, MainMoves DEF Start, Phases, outputVars
  <2> QED
    BY <2>1 DEF OneOwner, Alive, Owns
<1>5. ASSUME NEW e \in Executions, Main(e) \/ Kill(e) PROVE OneOwner'
  <2>1. /\ Alive(e) /\ existing \subseteq existing'
        /\ Owns(e)' => \/ Owns(e)
                       \/ Output[e] \notin existing /\ Output[e] \in existing'
        /\ \A x \in Executions : x # e => phase'[x] = phase[x]
    BY <1>5, MainLives, MainType DEF MainStep
  <2>2. \A x \in Executions : x # e => (Alive(x)' <=> Alive(x)) /\ (Owns(x)' <=> Owns(x))
    BY <2>1 DEF Alive, Owns
  <2>3. \A x \in Executions : Owns(x) => Alive(x)
    BY DEF Owns, Alive, Ends
  <2> QED
    BY <2>1, <2>2, <2>3 DEF OneOwner
<1> QED
  BY <1>2, <1>3, <1>4, <1>5 DEF Next

(* Two threads that are under way are in different lanes. *)
LEMMA OneThreadPerLane ==
  ASSUME LanesTyped, WavesFit, OneOwner, NEW e \in Executions, NEW c \in Cases,
         NEW x \in Executions, NEW y \in Cases, Lane(c) = Lane(y),
         phase[e] \notin Ends, casePc[e][c] \notin {"none"} \cup CaseEnds,
         phase[x] \notin Ends, casePc[x][y] \notin {"none"} \cup CaseEnds
  PROVE  e = x /\ c = y
<1>1. phase[e] = "gather" /\ Turn(c) = wave[e] /\ phase[x] = "gather" /\ Turn(y) = wave[x]
  BY ThreadsOfWave
<1>2. e = x
  BY <1>1 DEF OneOwner, Owns
<1> QED
  BY <1>1, <1>2, TurnAndLane

(* Two cases never use the project of a lane at once, whichever executions   *)
(* they belong to (the lanes of collect_pilot.py).                           *)
THEOREM LanesStayExclusive == Spec => []LanesAreExclusive
<1>1. LanesTyped /\ WavesFit /\ OneOwner => LanesAreExclusive
  <2> SUFFICES ASSUME LanesTyped, WavesFit, OneOwner, NEW a \in Active, NEW b \in Active,
                      Lane(a[2]) = Lane(b[2])
               PROVE  a = b
    BY DEF LanesAreExclusive
  <2>1. /\ a[1] \in Executions /\ a[2] \in Cases /\ a = <<a[1], a[2]>>
        /\ b[1] \in Executions /\ b[2] \in Cases /\ b = <<b[1], b[2]>>
        /\ phase[a[1]] \notin Ends /\ casePc[a[1]][a[2]] \notin {"none"} \cup CaseEnds
        /\ phase[b[1]] \notin Ends /\ casePc[b[1]][b[2]] \notin {"none"} \cup CaseEnds
    BY DEF Active, Alive, CaseEnds
  <2> QED
    BY <2>1, OneThreadPerLane
<1>2. Init => OneOwner
  BY DEF Init, OneOwner, Alive, Owns
<1> QED
  BY <1>1, <1>2, InitTyped, TypedStep, WavesInit, WavesStep, OwnerStep, PTL DEF Spec

-----------------------------------------------------------------------------
(* The projects. *)

(* Of a thread's steps `up` and `down` change a project, each the one of its lane. *)
LEMMA StackOfThread ==
  ASSUME LanesTyped, NEW e \in Executions, NEW c \in Cases, Collect(e, c)
  PROVE  \/ stack' = stack
         \/ Up(e, c) /\ stack'[Lane(c)] = stack[Lane(c)] \cup {<<e, c>>}
            /\ \A l \in Lanes : l # Lane(c) => stack'[l] = stack[l]
         \/ Down(e, c) /\ stack'[Lane(c)] = {}
            /\ \A l \in Lanes : l # Lane(c) => stack'[l] = stack[l]
<1>1. Lane(c) \in Lanes
  BY CaseType
<1>2. CASE Up(e, c)
  BY <1>2, LaneFilled DEF Up
<1>3. CASE Down(e, c)
  BY <1>1, <1>3, LaneEmptied DEF Down
<1>4. CASE MakeCaseDirectory(e, c) \/ CopyManifest(e, c) \/ RunRunner(e, c)
           \/ StopCollector(e, c) \/ WriteLog(e, c) \/ Record(e, c)
  BY <1>4
     DEF MakeCaseDirectory, CopyManifest, RunRunner, StopCollector, WriteLog, Record,
         dockerVars
<1> QED
  BY <1>2, <1>3, <1>4 DEF Collect

(* Of the main thread's steps the clean-up and a kill change a project. *)
LEMMA StackOfMain ==
  ASSUME NEW e \in Executions, Start(e) \/ Main(e) \/ Kill(e)
  PROVE  UNCHANGED stack \/ CleanLane(e) \/ Kill(e)
BY DEF Start, Main, Check, MakeOutput, SubmitWave, GatherWave, Cleaned, OpenAttestation,
       WriteAttestation, dockerVars

(* No step takes the project of a case away under its runner. *)
LEMMA KeepStep ==
  ASSUME LanesTyped, WavesFit, OneOwner, CasesKeepTheirProject, [Next]_vars
  PROVE  CasesKeepTheirProject'
<1> USE DEF CasesKeepTheirProject
<1>1. CASE UNCHANGED vars
  BY <1>1 DEF vars, mainVars, caseVars, dockerVars, Alive
<1>2. ASSUME NEW e \in Executions, NEW c \in Cases, Collect(e, c),
             NEW x \in Executions, NEW y \in Cases,
             Alive(x)', casePc'[x][y] \in {"runner", "stop"}
      PROVE  <<x, y>> \in stack'[Lane(y)]
  <2>0. ThreadStep(e, c) /\ Lane(y) \in Lanes /\ Lane(c) \in Lanes
    BY <1>2, CollectType, CaseType
  <2>1. phase' = phase /\ Alive(x)
    BY <1>2, <2>0 DEF ThreadStep, mainVars, Alive
  <2>2. CASE x # e \/ y # c
    <3>1. casePc[x][y] \in {"runner", "stop"} /\ <<x, y>> \in stack[Lane(y)]
      BY <1>2, <2>0, <2>1, <2>2 DEF ThreadStep
    <3>2. Lane(y) # Lane(c)
      BY <2>0, <2>1, <2>2, <3>1, OneThreadPerLane DEF ThreadStep, Alive, CaseEnds
    <3> QED
      BY <1>2, <2>0, <3>1, <3>2, StackOfThread
  <2>3. CASE x = e /\ y = c
    <3>1. CASE Up(e, c)
      <4>1. ~CaseRaises(e, c)
        BY <1>2, <2>3, ThreadMoves DEF CaseRaises, CaseSteps, CaseEnds
      <4> QED
        BY <2>3, <3>1, <4>1, LaneFilled DEF Up
    <3>2. CASE RunRunner(e, c)
      BY <1>2, <2>1, <2>3, <3>2 DEF RunRunner, At, dockerVars
    <3>3. CASE ~Up(e, c) /\ ~RunRunner(e, c)
      <4>1. casePc'[e][c] \notin {"runner", "stop"}
        BY <1>2, <3>3, ThreadMoves
           DEF Collect, MakeCaseDirectory, CopyManifest, StopCollector, WriteLog, Down, Record,
               AfterDown, Dies, CaseRaises, CaseSteps, CaseEnds
      <4> QED
        BY <1>2, <2>3, <4>1
    <3> QED
      BY <3>1, <3>2, <3>3
  <2> QED
    BY <2>2, <2>3
<1>3. ASSUME NEW e \in Executions, Start(e) \/ Main(e) \/ Kill(e),
             NEW x \in Executions, NEW y \in Cases,
             Alive(x)', casePc'[x][y] \in {"runner", "stop"}
      PROVE  <<x, y>> \in stack'[Lane(y)]
  <2>1. MainStep(e) /\ Lane(y) \in Lanes
    BY <1>3, MainType, CaseType
  <2>2. casePc[x][y] \in {"runner", "stop"}
    BY <1>3, <2>1 DEF MainStep
  <2>3. phase[x] # "idle"
    BY <2>2 DEF WavesFit, Waves
  <2>4. Alive(x)
    <3>1. CASE x # e
      BY <1>3, <2>1, <3>1 DEF MainStep, Alive
    <3>2. CASE x = e
      BY <1>3, <2>3, <3>2, MainLives DEF Start
    <3> QED
      BY <3>1, <3>2
  <2>5. phase[x] = "gather" /\ <<x, y>> \in stack[Lane(y)]
    BY <2>2, <2>4, ThreadsOfWave DEF Alive, CaseEnds
  <2>6. CASE CleanLane(e)
    BY <2>5, <2>6 DEF CleanLane, OneOwner, Owns
  <2>7. CASE Kill(e)
    <3>1. x # e
      BY <1>3, <2>7, MainMoves DEF Kill, Alive, Ends, Phases
    <3>2. PICK ups \in SUBSET {c \in Cases : casePc[e][c] = "up"},
               downs \in SUBSET {Lane(c) : c \in {b \in Cases : casePc[e][b] = "down"}} :
            stack' = [l \in Lanes |->
                        IF l \in downs THEN {}
                        ELSE stack[l] \cup {<<e, c>> : c \in {u \in ups : Lane(u) = l}}]
      BY <2>7 DEF Kill
    <3>3. Lane(y) \notin downs
      <4> SUFFICES ASSUME NEW c \in Cases, casePc[e][c] = "down", Lane(c) = Lane(y) PROVE FALSE
        BY <3>2
      <4>1. phase[e] \notin Ends /\ phase[x] \notin Ends
        BY <2>4, <2>7 DEF Kill, Alive
      <4> QED
        BY <2>2, <3>1, <4>1, OneThreadPerLane DEF CaseEnds
    <3> QED
      BY <2>1, <2>5, <3>2, <3>3
  <2> QED
    BY <1>3, <2>5, <2>6, <2>7, StackOfMain
<1> QED
  BY <1>1, <1>2, <1>3 DEF Next

(* Nobody takes the project of a case away while its runner works in it: no  *)
(* twin, no clean-up of another execution, no execution that is refused or   *)
(* killed.                                                                   *)
THEOREM CasesKeepProjects == Spec => []CasesKeepTheirProject
<1>1. Init => OneOwner /\ CasesKeepTheirProject
  BY DEF Init, OneOwner, Alive, Owns, CasesKeepTheirProject
<1> QED
  BY <1>1, InitTyped, TypedStep, WavesInit, WavesStep, OwnerStep, KeepStep, PTL DEF Spec

-----------------------------------------------------------------------------
(* What a case leaves in its project, somebody is still going to tear down: *)
(* the case itself, or the clean-up of its execution.                       *)
Leaves(x, y) ==
  \/ phase[x] = "gather" /\ casePc[x][y] \in {"runner", "stop", "log", "down", "failed"}
  \/ phase[x] = "clean" /\ lane[x] <= Lane(y)

LanesTidy ==
  \A l \in Lanes \ unclean, x \in Executions, y \in Cases :
    <<x, y>> \in stack[l] => Lane(y) = l /\ Leaves(x, y)

(* A step of a thread keeps what is left in the projects on somebody's list. *)
LEMMA ThreadKeepsTidy ==
  ASSUME LanesTyped, WavesFit, LanesTidy, NEW e \in Executions, NEW c \in Cases, Collect(e, c),
         NEW l \in Lanes \ unclean', NEW x \in Executions, NEW y \in Cases, <<x, y>> \in stack'[l]
  PROVE  Lane(y) = l /\ Leaves(x, y)'
<1>0. /\ ThreadStep(e, c) /\ l \in Lanes \ unclean /\ Lane(c) \in Lanes
      /\ phase[e] = "gather" /\ UNCHANGED <<phase, lane>>
  BY CollectType, CaseType, ThreadsOfWave DEF ThreadStep, mainVars
<1>1. CASE x # e \/ y # c
  <2>1. <<x, y>> \in stack[l] /\ casePc'[x][y] = casePc[x][y]
    BY <1>0, <1>1, StackOfThread DEF ThreadStep
  <2> QED
    BY <1>0, <2>1 DEF LanesTidy, Leaves
<1>2. CASE x = e /\ y = c
  <2>1. CASE Up(e, c)
    <3>1. casePc'[e][c] \in {"runner", "log"}
      BY <2>1, ThreadMoves DEF Up, CaseRaises, CaseSteps, CaseEnds
    <3>2. <<e, c>> \in stack[l] => Lane(c) = l
      BY <1>0 DEF LanesTidy
    <3>3. Lane(c) = l
      BY <1>0, <1>2, <2>1, <3>2, StackOfThread DEF Up, Down, At
    <3> QED
      BY <1>0, <1>2, <3>1, <3>3 DEF Leaves
  <2>2. CASE Down(e, c)
    <3>1. Lane(c) # l
      BY <1>0, <1>2, <2>2, LaneEmptied DEF Down
    <3>2. <<e, c>> \in stack[l]
      BY <1>0, <1>2, <2>2, <3>1, StackOfThread
    <3> QED
      BY <1>0, <3>1, <3>2 DEF LanesTidy
  <2>3. CASE ~Up(e, c) /\ ~Down(e, c)
    <3>1. <<e, c>> \in stack[l]
      BY <1>2, <2>3, StackOfThread
    <3>2. Lane(c) = l /\ casePc[e][c] \in {"runner", "stop", "log", "down", "failed"}
      BY <1>0, <3>1 DEF LanesTidy, Leaves
    <3>3. casePc'[e][c] \in {"stop", "log", "down", "failed"}
      BY <2>3, <3>2, ThreadMoves
         DEF Collect, MakeCaseDirectory, CopyManifest, RunRunner, StopCollector, WriteLog, Record,
             Dies, CaseRaises, CaseSteps, CaseEnds, At
    <3> QED
      BY <1>0, <1>2, <3>2, <3>3 DEF Leaves
  <2> QED
    BY <2>1, <2>2, <2>3
<1> QED
  BY <1>1, <1>2

(* So does a step of a main thread. *)
LEMMA MainKeepsTidy ==
  ASSUME LanesTyped, WavesFit, LanesTidy, NEW e \in Executions, Start(e) \/ Main(e) \/ Kill(e),
         NEW l \in Lanes \ unclean', NEW x \in Executions, NEW y \in Cases, <<x, y>> \in stack'[l]
  PROVE  Lane(y) = l /\ Leaves(x, y)'
<1>0. MainStep(e) /\ l \in Lanes \ unclean
  BY MainType DEF MainStep
<1>1. ~Kill(e)
  BY <1>0 DEF Kill
<1>2. <<x, y>> \in stack[l]
  <2>1. CASE CleanLane(e)
    <3>1. lane[e] \in Lanes
      BY <2>1, LanesBounds DEF CleanLane, LanesTyped, Lanes
    <3> QED
      BY <1>0, <2>1, <3>1, LaneEmptied DEF CleanLane
  <2> QED
    BY <1>1, <2>1, StackOfMain
<1>3. Lane(y) = l /\ Leaves(x, y)
  BY <1>0, <1>2 DEF LanesTidy
<1>4. CASE x # e
  BY <1>0, <1>3, <1>4 DEF MainStep, Leaves
<1>5. CASE x = e
  <2>1. /\ Waves(e) /\ wave[e] \in Nat /\ Turn(y) \in Nat
        /\ Jobs \in Nat /\ l \in 1 .. Jobs /\ lane[e] \in 1 .. Jobs + 1
    BY <1>0, CaseType, LanesBounds DEF WavesFit, LanesTyped, Lanes
  <2>2. CASE GatherWave(e)
    <3>1. phase[e] = "gather" /\ casePc[e][y] \in {"runner", "stop", "log", "down", "failed"}
      BY <1>3, <1>5, <2>2 DEF GatherWave, Leaves
    <3>2. Turn(y) = wave[e]
      BY <2>1, <3>1 DEF Waves
    <3>3. ~(\A c \in Wave(e) : casePc[e][c] = "completed")
      BY <3>1, <3>2 DEF Wave, Turn
    <3>4. phase'[e] = "clean" /\ lane' = lane
      BY <2>2, <3>3, MainMoves DEF GatherWave, Phases
    <3>5. lane[e] = 1
      BY <2>1, <3>1 DEF Waves, Ends
    <3> QED
      BY <1>3, <1>5, <2>1, <3>4, <3>5 DEF Leaves
  <2>3. CASE CleanLane(e)
    <3>1. phase[e] = "clean" /\ lane[e] <= l /\ lane[e] \in Lanes
      BY <1>3, <1>5, <2>1, <2>3 DEF CleanLane, Leaves, Lanes
    <3>2. l # lane[e] /\ phase' = phase /\ lane'[e] = lane[e] + 1
      <4>1. TearDown(lane[e]) => l # lane[e]
        BY <1>5, <3>1, LaneEmptied
      <4>2. \/ /\ phase' = phase /\ lane' = [lane EXCEPT ![e] = @ + 1]
               /\ TearDown(lane[e]) \/ unclean' = unclean \cup {lane[e]}
            \/ unclean' = unclean \cup {k \in Lanes : k >= lane[e]}
        BY <2>3 DEF CleanLane
      <4>3. unclean' # unclean \cup {k \in Lanes : k >= lane[e]}
        BY <1>0, <2>1, <3>1 DEF Lanes
      <4>4. unclean' = unclean \cup {lane[e]} => l # lane[e]
        OBVIOUS
      <4> QED
        BY <4>1, <4>2, <4>3, <4>4 DEF LanesTyped
    <3> QED
      BY <1>3, <1>5, <2>1, <3>1, <3>2 DEF Leaves, Lanes
  <2>4. CASE Cleaned(e)
    BY <1>3, <1>5, <2>1, <2>4 DEF Cleaned, Leaves
  <2> QED
    BY <1>1, <1>3, <1>5, <2>2, <2>3, <2>4
       DEF Start, Main, Check, MakeOutput, SubmitWave, OpenAttestation, WriteAttestation, Leaves
<1> QED
  BY <1>4, <1>5

(* Every step keeps what is left in the projects on somebody's list. *)
LEMMA TidyStep ==
  ASSUME LanesTyped, WavesFit, LanesTidy, [Next]_vars
  PROVE  LanesTidy'
<1>1. CASE UNCHANGED vars
  BY <1>1 DEF LanesTidy, Leaves, vars, mainVars, caseVars, dockerVars
<1> QED
  BY <1>1, ThreadKeepsTidy, MainKeepsTidy DEF Next, LanesTidy

(* An execution's own thread finds a lane that is not unclean empty. *)
LEMMA FreshStep ==
  ASSUME LanesTyped, WavesFit, OneOwner, LanesTidy, FreshUnlessTearDownFailed, [Next]_vars
  PROVE  FreshUnlessTearDownFailed'
<1> USE DEF FreshUnlessTearDownFailed
<1>1. CASE UNCHANGED vars
  BY <1>1 DEF vars, dockerVars
<1>2. ASSUME NEW e \in Executions, NEW c \in Cases, Collect(e, c)
      PROVE  FreshUnlessTearDownFailed'
  <2>0. ThreadStep(e, c) /\ Lane(c) \in Lanes
    BY <1>2, CollectType, CaseType
  <2>1. CASE UNCHANGED startedOn
    BY <2>0, <2>1 DEF ThreadStep
  <2>2. CASE Up(e, c)
    <3>1. phase[e] = "gather" /\ Turn(c) = wave[e] /\ casePc[e][c] = "up"
      BY <2>0, <2>2, ThreadsOfWave DEF ThreadStep, Up, At
    <3>2. ASSUME Lane(c) \notin unclean, NEW x \in Executions, NEW y \in Cases,
                 <<x, y>> \in stack[Lane(c)]
          PROVE  FALSE
      <4>1. Lane(y) = Lane(c) /\ Leaves(x, y)
        BY <2>0, <3>2 DEF LanesTidy
      <4>2. x = e
        BY <3>1, <4>1 DEF Leaves, OneOwner, Owns
      <4>3. casePc[e][y] \in {"runner", "stop", "log", "down", "failed"}
        BY <3>1, <4>1, <4>2 DEF Leaves
      <4>4. wave[e] \in Nat /\ Turn(y) \in Nat /\ Waves(e)
        BY CaseType DEF LanesTyped, WavesFit
      <4>5. Turn(y) = wave[e]
        BY <3>1, <4>3, <4>4 DEF Waves
      <4> QED
        BY <3>1, <4>1, <4>3, <4>5, TurnAndLane
    <3>3. stack[Lane(c)] # {} => Lane(c) \in unclean
      BY <2>0, <3>2 DEF LanesTyped
    <3>4. /\ startedOn'[e][c] = stack[Lane(c)]
          /\ \A x \in Executions, y \in Cases : x # e \/ y # c => startedOn'[x][y] = startedOn[x][y]
      BY <2>2 DEF Up, LanesTyped
    <3> QED
      BY <2>0, <3>3, <3>4 DEF ThreadStep
  <2> QED
    BY <1>2, <2>1, <2>2
       DEF Collect, MakeCaseDirectory, CopyManifest, RunRunner, StopCollector, WriteLog, Down,
           Record, dockerVars
<1>3. ASSUME NEW e \in Executions, Start(e) \/ Main(e) \/ Kill(e)
      PROVE  FreshUnlessTearDownFailed'
  BY <1>3, MainType DEF MainStep
<1> QED
  BY <1>1, <1>2, <1>3 DEF Next

(* No path through exceptions reuses a lane without tearing it down: a case  *)
(* finds containers in its project only where a tear-down failed or a        *)
(* process was killed.                                                       *)
THEOREM ProjectsAreFresh == Spec => []FreshUnlessTearDownFailed
<1>1. Init => OneOwner /\ LanesTidy /\ FreshUnlessTearDownFailed
  BY DEF Init, OneOwner, Alive, Owns, LanesTidy, FreshUnlessTearDownFailed
<1> QED
  BY <1>1, InitTyped, TypedStep, WavesInit, WavesStep, OwnerStep, TidyStep, FreshStep, PTL DEF Spec

(* When no execution runs, every project is gone, with the same exceptions.  *)
THEOREM ProjectsAreTornDown == Spec => []NothingLeftRunning
<1>1. Init => LanesTidy
  BY DEF Init, LanesTidy
<1>2. LanesTyped /\ LanesTidy => NothingLeftRunning
  <2> SUFFICES ASSUME LanesTyped, LanesTidy, \A e \in Executions : ~Alive(e),
                      NEW l \in Lanes \ unclean, NEW s \in stack[l]
               PROVE  FALSE
    BY DEF NothingLeftRunning
  <2>1. PICK x \in Executions, y \in Cases : s = <<x, y>>
    BY DEF LanesTyped
  <2>2. Leaves(x, y)
    BY <2>1 DEF LanesTidy
  <2> QED
    BY <2>2 DEF Leaves, Alive, Ends
<1> QED
  BY <1>1, <1>2, InitTyped, TypedStep, WavesInit, WavesStep, TidyStep, PTL DEF Spec
=============================================================================
