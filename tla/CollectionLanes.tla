---------------------------- MODULE CollectionLanes ----------------------------
(***************************************************************************)
(* Collection of prepared cases (src/lab/action_dynamics/collect_pilot.py) *)
(* in concurrent lanes, each a Docker Compose project, and the conditions  *)
(* the assessor puts on the attestation it leaves (_twin_wave_barrier,     *)
(* _lane_isolation in src/src/quantis_core/action_dynamics_lab.py).        *)
(*                                                                         *)
(* An execution is one call of collect_action_cases: a main thread and one *)
(* thread per case of the current wave.  Several executions may be started *)
(* for one output directory, at once or after one of them failed or was    *)
(* killed; for different directories they are started one after the other. *)
(* A step is one file operation or one subprocess; docker may report       *)
(* failure having done its work or not.  Projects outlive a process.       *)
(*                                                                         *)
(* The clock is the order of steps: it does not go back.                   *)
(***************************************************************************)
EXTENDS Integers, FiniteSets

CONSTANTS
  Executions,   \* calls of collect_action_cases
  Directories,  \* output directories: captures and attestation
  Output,       \* the output directory of each execution
  Jobs,         \* parallel_jobs: lanes 1 .. Jobs
  PairCount,    \* matched pairs of the plan
  MaxFaults,    \* bound: operations and commands that fail
  MaxKills      \* bound: executions whose process is killed

ASSUME LanesBounds ==
  /\ Jobs \in Nat \ {0} /\ PairCount \in Nat /\ PairCount >= Jobs
  /\ MaxFaults \in Nat /\ MaxKills \in Nat
  /\ Output \in [Executions -> Directories]

(* The plan: pairs fill the lanes of one batch after the other; the two     *)
(* twins of a pair have the orders 0 and 1.                                 *)
Cases == (0 .. PairCount - 1) \X {0, 1}
Lanes == 1 .. Jobs
Lane(c) == (c[1] % Jobs) + 1
Batch(c) == (c[1] \div Jobs) + 1
Order(c) == c[2]
Batches == {Batch(c) : c \in Cases}

VARIABLES
  phase,        \* each execution: the next step of its main thread
  wave,         \* how many waves (batch, order) it has completed
  failing,      \* an exception is on its way through the finally clause
  lane,         \* the lane its final clean-up tears down next
  casePc,       \* each execution and case: the next step of its thread
  raising,      \* the threads an exception is on its way through
  predecessors, \* the cases that were completed when a case was started
  captures,     \* each directory and case: the files that are complete
  existing,     \* the directories that exist
  attestation,  \* each directory: "none", "partial" or "full"
  attested,     \* what it says: the predecessors of each attested case
  stack,        \* each lane: the cases whose containers its project has
  startedOn,    \* history: what `up` found in its project
  unclean,      \* history: lanes whose tear-down failed, or that a kill left
  faults, kills

mainVars == <<phase, wave, failing, lane>>
caseVars == <<casePc, raising, predecessors>>
outputVars == <<captures, existing, attestation, attested>>
dockerVars == <<stack, startedOn, unclean>>
vars == <<mainVars, caseVars, outputVars, dockerVars, faults, kills>>

Files == {"directory", "manifest", "telemetry", "log"}

Ends == {"done", "failed", "refused", "killed"}
Phases == {"idle", "check", "mkdir", "wave", "gather", "clean", "open", "write"} \cup Ends

CaseEnds == {"completed", "failed"}
CaseSteps == {"none", "mkdir", "copy", "up", "runner", "stop", "log", "down", "record"}
             \cup CaseEnds

TypeOK ==
  /\ phase \in [Executions -> Phases]
  /\ wave \in [Executions -> Nat]
  /\ failing \in [Executions -> BOOLEAN]
  /\ lane \in [Executions -> 1 .. Jobs + 1]
  /\ casePc \in [Executions -> [Cases -> CaseSteps]]
  /\ raising \in SUBSET (Executions \X Cases)
  /\ predecessors \in [Executions -> [Cases -> SUBSET Cases]]
  /\ captures \in [Directories -> [Cases -> SUBSET Files]]
  /\ existing \in SUBSET Directories
  /\ attestation \in [Directories -> {"none", "partial", "full"}]
  /\ \A d \in Directories :
       DOMAIN attested[d] \in SUBSET Cases
       /\ \A c \in DOMAIN attested[d] : attested[d][c] \in SUBSET Cases
  /\ stack \in [Lanes -> SUBSET (Executions \X Cases)]
  /\ startedOn \in [Executions -> [Cases -> SUBSET (Executions \X Cases)]]
  /\ unclean \in SUBSET Lanes
  /\ faults \in 0 .. MaxFaults /\ kills \in 0 .. MaxKills

Nothing == [c \in {} |-> {}]

Init ==
  /\ phase = [e \in Executions |-> "idle"]
  /\ wave = [e \in Executions |-> 0]
  /\ failing = [e \in Executions |-> FALSE]
  /\ lane = [e \in Executions |-> 1]
  /\ casePc = [e \in Executions |-> [c \in Cases |-> "none"]]
  /\ raising = {}
  /\ predecessors = [e \in Executions |-> [c \in Cases |-> {}]]
  /\ captures = [d \in Directories |-> [c \in Cases |-> {}]]
  /\ existing = {}
  /\ attestation = [d \in Directories |-> "none"]
  /\ attested = [d \in Directories |-> Nothing]
  /\ stack = [l \in Lanes |-> {}]
  /\ startedOn = [e \in Executions |-> [c \in Cases |-> {}]]
  /\ unclean = {}
  /\ faults = 0 /\ kills = 0

-----------------------------------------------------------------------------
Works == UNCHANGED faults
Breaks == faults < MaxFaults /\ faults' = faults + 1

Alive(e) == phase[e] \notin Ends \cup {"idle"}

Goto(e, step) == phase' = [phase EXCEPT ![e] = step]
CaseGoto(e, c, step) == casePc' = [casePc EXCEPT ![e][c] = step]

(* A file of case c in the output of e is complete. *)
Writes(e, c, file) == captures' = [captures EXCEPT ![Output[e]][c] = @ \cup {file}]

(* The exception of a thread before its try, or in its finally. *)
Dies(e, c) == CaseGoto(e, c, "failed") /\ UNCHANGED raising

(* An exception inside the try: the finally clause comes next. *)
CaseRaises(e, c) ==
  CaseGoto(e, c, "log") /\ raising' = raising \cup {<<e, c>>}

At(e, c, step) == phase[e] \notin Ends /\ casePc[e][c] = step

-----------------------------------------------------------------------------
(* A case: _collect_case *)

MakeCaseDirectory(e, c) ==
  /\ At(e, c, "mkdir")
  /\ \/ /\ Works /\ "directory" \notin captures[Output[e]][c]
        /\ Writes(e, c, "directory") /\ CaseGoto(e, c, "copy") /\ UNCHANGED raising
     \/ /\ Works /\ "directory" \in captures[Output[e]][c]
        /\ Dies(e, c) /\ UNCHANGED captures
     \/ Breaks /\ Dies(e, c) /\ UNCHANGED captures
  /\ UNCHANGED <<mainVars, predecessors, existing, attestation, attested, dockerVars, kills>>

Completed(e) == {c \in Cases : casePc[e][c] = "completed"}

(* copyfile of the manifest; then `started` is taken. *)
CopyManifest(e, c) ==
  /\ At(e, c, "copy")
  /\ \/ /\ Works /\ Writes(e, c, "manifest") /\ CaseGoto(e, c, "up") /\ UNCHANGED raising
        /\ predecessors' = [predecessors EXCEPT ![e][c] = Completed(e)]
     \/ Breaks /\ Dies(e, c) /\ UNCHANGED <<captures, predecessors>>
  /\ UNCHANGED <<mainVars, existing, attestation, attested, dockerVars, kills>>

Launch(e, c) == stack' = [stack EXCEPT ![Lane(c)] = @ \cup {<<e, c>>}]

(* docker compose up *)
Up(e, c) ==
  /\ At(e, c, "up")
  /\ startedOn' = [startedOn EXCEPT ![e][c] = stack[Lane(c)]]
  /\ \/ Works /\ Launch(e, c) /\ CaseGoto(e, c, "runner") /\ UNCHANGED raising
     \/ Breaks /\ (Launch(e, c) \/ UNCHANGED stack) /\ CaseRaises(e, c)
  /\ UNCHANGED <<mainVars, predecessors, outputVars, unclean, kills>>

(* docker compose run runner: module CaptureRun. *)
RunRunner(e, c) ==
  /\ At(e, c, "runner")
  /\ \/ Works /\ CaseGoto(e, c, "stop") /\ UNCHANGED raising
     \/ Breaks /\ CaseRaises(e, c)
  /\ UNCHANGED <<mainVars, predecessors, outputVars, dockerVars, kills>>

(* docker compose stop collector: what it exported is on disk. *)
StopCollector(e, c) ==
  /\ At(e, c, "stop")
  /\ \/ Works /\ Writes(e, c, "telemetry") /\ CaseGoto(e, c, "log") /\ UNCHANGED raising
     \/ Breaks /\ CaseRaises(e, c) /\ UNCHANGED captures
  /\ UNCHANGED <<mainVars, predecessors, existing, attestation, attested, dockerVars, kills>>

(* The finally clause: runner.log; when this raises there is no tear-down. *)
WriteLog(e, c) ==
  /\ At(e, c, "log")
  /\ \/ Works /\ Writes(e, c, "log") /\ CaseGoto(e, c, "down") /\ UNCHANGED raising
     \/ Breaks /\ Dies(e, c) /\ UNCHANGED captures
  /\ UNCHANGED <<mainVars, predecessors, existing, attestation, attested, dockerVars, kills>>

AfterDown(e, c) ==
  CaseGoto(e, c, IF <<e, c>> \in raising THEN "failed" ELSE "record")

TearDown(l) == stack' = [stack EXCEPT ![l] = {}]

(* docker compose down, check=False: a failure it reports is ignored, one    *)
(* to run it at all raises.                                                  *)
Down(e, c) ==
  /\ At(e, c, "down")
  /\ \/ Works /\ TearDown(Lane(c)) /\ AfterDown(e, c) /\ UNCHANGED unclean
     \/ /\ Breaks /\ (AfterDown(e, c) \/ CaseGoto(e, c, "failed"))
        /\ (TearDown(Lane(c)) \/ UNCHANGED stack)
        /\ unclean' = unclean \cup {Lane(c)}
  /\ UNCHANGED <<mainVars, raising, predecessors, outputVars, startedOn, kills>>

(* The manifest's hash is taken, then `completed`; the record is returned. *)
Record(e, c) ==
  /\ At(e, c, "record")
  /\ \/ Works /\ CaseGoto(e, c, "completed")
     \/ Breaks /\ CaseGoto(e, c, "failed")
  /\ UNCHANGED <<mainVars, raising, predecessors, outputVars, dockerVars, kills>>

Collect(e, c) ==
  \/ MakeCaseDirectory(e, c) \/ CopyManifest(e, c) \/ Up(e, c) \/ RunRunner(e, c)
  \/ StopCollector(e, c) \/ WriteLog(e, c) \/ Down(e, c) \/ Record(e, c)

-----------------------------------------------------------------------------
(* The main thread: collect_action_cases *)

(* Executions for other directories do not overlap: their projects have the *)
(* same names.                                                              *)
Start(e) ==
  /\ phase[e] = "idle"
  /\ \A other \in Executions : Alive(other) => Output[other] = Output[e]
  /\ Goto(e, "check")
  /\ UNCHANGED <<wave, failing, lane, caseVars, outputVars, dockerVars, faults, kills>>

(* Nothing is overwritten; plan and manifests agree. *)
Check(e) ==
  LET taken == Output[e] \in existing \/ attestation[Output[e]] # "none"
  IN  /\ phase[e] = "check"
      /\ \/ Works /\ Goto(e, IF taken THEN "refused" ELSE "mkdir")
         \/ Breaks /\ Goto(e, "refused")
      /\ UNCHANGED <<wave, failing, lane, caseVars, outputVars, dockerVars, kills>>

(* Faulty MakeOutput: a directory that exists by now will do. *)
MakeOutputIfMissing(e) ==
  /\ phase[e] = "mkdir" /\ Works
  /\ existing' = existing \cup {Output[e]} /\ Goto(e, "wave")
  /\ UNCHANGED <<wave, failing, lane, caseVars, captures, attestation, attested, dockerVars,
                 kills>>

(* mkdir without exist_ok: it raises when the directory exists by now. *)
MakeOutput(e) ==
  /\ phase[e] = "mkdir"
  /\ \/ /\ Works /\ Output[e] \notin existing
        /\ existing' = existing \cup {Output[e]} /\ Goto(e, "wave")
     \/ /\ Output[e] \in existing /\ Works
        /\ Goto(e, "refused") /\ UNCHANGED existing
     \/ Breaks /\ Goto(e, "refused") /\ UNCHANGED existing
  /\ UNCHANGED <<wave, failing, lane, caseVars, captures, attestation, attested, dockerVars,
                 kills>>

WaveCount == 2 * Cardinality(Batches)

(* The cases of the next wave: one order of one batch. *)
Wave(e) == {c \in Cases : 2 * (Batch(c) - 1) + Order(c) = wave[e]}

(* Faulty SubmitWave: both twins of every pair of the batch are submitted. *)
SubmitBatch(e) ==
  /\ phase[e] = "wave" /\ wave[e] < WaveCount
  /\ casePc' = [casePc EXCEPT ![e] =
       [c \in Cases |-> IF Batch(c) = (wave[e] \div 2) + 1 /\ @[c] = "none" THEN "mkdir"
                                                                        ELSE @[c]]]
  /\ Goto(e, "gather")
  /\ UNCHANGED <<wave, failing, lane, raising, predecessors, outputVars, dockerVars, faults,
                 kills>>

(* One executor with a thread for every case of the wave. *)
SubmitWave(e) ==
  /\ phase[e] = "wave" /\ wave[e] < WaveCount
  /\ casePc' = [casePc EXCEPT ![e] =
       [c \in Cases |-> IF c \in Wave(e) THEN "mkdir" ELSE @[c]]]
  /\ Goto(e, "gather")
  /\ UNCHANGED <<wave, failing, lane, raising, predecessors, outputVars, dockerVars, faults,
                 kills>>

(* Faulty GatherWave: a failed case is skipped. *)
GatherIgnoringFailures(e) ==
  /\ phase[e] = "gather" /\ \A c \in Wave(e) : casePc[e][c] \in CaseEnds
  /\ wave' = [wave EXCEPT ![e] = @ + 1]
  /\ Goto(e, IF wave'[e] = WaveCount THEN "clean" ELSE "wave")
  /\ UNCHANGED <<failing, lane, caseVars, outputVars, dockerVars, faults, kills>>

(* Faulty GatherWave: the first failure leaves before the others are done. *)
GatherWithoutWaiting(e) ==
  /\ phase[e] = "gather"
  /\ \E c \in Wave(e) : casePc[e][c] = "failed"
  /\ failing' = [failing EXCEPT ![e] = TRUE] /\ Goto(e, "clean")
  /\ UNCHANGED <<wave, lane, caseVars, outputVars, dockerVars, faults, kills>>

(* as_completed raises at the first failure, but leaving the executor waits *)
(* for all of its threads.                                                  *)
GatherWave(e) ==
  /\ phase[e] = "gather"
  /\ \A c \in Wave(e) : casePc[e][c] \in CaseEnds
  /\ IF \A c \in Wave(e) : casePc[e][c] = "completed"
     THEN /\ wave' = [wave EXCEPT ![e] = @ + 1]
          /\ Goto(e, IF wave'[e] = WaveCount THEN "clean" ELSE "wave")
          /\ UNCHANGED failing
     ELSE /\ failing' = [failing EXCEPT ![e] = TRUE]
          /\ Goto(e, "clean") /\ UNCHANGED wave
  /\ UNCHANGED <<lane, caseVars, outputVars, dockerVars, faults, kills>>

(* Faulty CleanLane: the same lane over and over. *)
CleanFirstLane(e) ==
  /\ phase[e] = "clean" /\ lane[e] <= Jobs
  /\ Works /\ TearDown(lane[e])
  /\ UNCHANGED <<mainVars, caseVars, outputVars, startedOn, unclean, kills>>

(* _clean_all_lanes, in the finally clause. *)
CleanLane(e) ==
  /\ phase[e] = "clean" /\ lane[e] <= Jobs
  /\ \/ /\ Works /\ TearDown(lane[e]) /\ UNCHANGED <<phase, unclean>>
        /\ lane' = [lane EXCEPT ![e] = @ + 1]
     \/ /\ Breaks /\ UNCHANGED <<phase, stack>>
        /\ unclean' = unclean \cup {lane[e]}
        /\ lane' = [lane EXCEPT ![e] = @ + 1]
     \/ /\ Breaks /\ Goto(e, "failed") /\ UNCHANGED <<lane, stack>>
        /\ unclean' = unclean \cup {l \in Lanes : l >= lane[e]}
  /\ UNCHANGED <<wave, failing, caseVars, outputVars, startedOn, kills>>

Cleaned(e) ==
  /\ phase[e] = "clean" /\ lane[e] > Jobs
  /\ Goto(e, IF failing[e] THEN "failed" ELSE "open")
  /\ UNCHANGED <<wave, failing, lane, caseVars, outputVars, dockerVars, faults, kills>>

(* write_text opens the file, then writes it. *)
OpenAttestation(e) ==
  /\ phase[e] = "open"
  /\ \/ /\ Works /\ Goto(e, "write")
        /\ attestation' = [attestation EXCEPT ![Output[e]] = "partial"]
     \/ Breaks /\ Goto(e, "failed") /\ UNCHANGED attestation
  /\ UNCHANGED <<wave, failing, lane, caseVars, captures, existing, attested, dockerVars,
                 kills>>

WriteAttestation(e) ==
  /\ phase[e] = "write"
  /\ \/ /\ Works /\ Goto(e, "done")
        /\ attestation' = [attestation EXCEPT ![Output[e]] = "full"]
        /\ attested' = [attested EXCEPT ![Output[e]] =
                          [c \in Completed(e) |-> predecessors[e][c]]]
     \/ Breaks /\ Goto(e, "failed") /\ UNCHANGED <<attestation, attested>>
  /\ UNCHANGED <<wave, failing, lane, caseVars, captures, existing, dockerVars, kills>>

Main(e) ==
  \/ Check(e) \/ MakeOutput(e) \/ SubmitWave(e) \/ GatherWave(e) \/ CleanLane(e)
  \/ Cleaned(e) \/ OpenAttestation(e) \/ WriteAttestation(e)

(* The process is killed with all its threads; docker completes commands it *)
(* was given, or not, and the projects stay.                                *)
Kill(e) ==
  /\ Alive(e) /\ kills < MaxKills /\ kills' = kills + 1
  /\ Goto(e, "killed")
  /\ \E ups \in SUBSET {c \in Cases : casePc[e][c] = "up"},
        downs \in SUBSET {Lane(c) : c \in {b \in Cases : casePc[e][b] = "down"}} :
       stack' = [l \in Lanes |->
                   IF l \in downs THEN {}
                   ELSE stack[l] \cup {<<e, c>> : c \in {u \in ups : Lane(u) = l}}]
  /\ unclean' = unclean \cup {l \in Lanes : stack'[l] # {}}
  /\ UNCHANGED <<wave, failing, lane, caseVars, outputVars, startedOn, faults>>

Next ==
  \E e \in Executions :
    \/ Start(e) \/ Main(e) \/ Kill(e)
    \/ \E c \in Cases : Collect(e, c)

Spec == Init /\ [][Next]_vars

(* The threads are scheduled, and every command ends. *)
FairSpec ==
  /\ Spec
  /\ \A e \in Executions :
       WF_vars(Main(e)) /\ \A c \in Cases : WF_vars(Collect(e, c))

-----------------------------------------------------------------------------
(* The assessor *)

(* _twin_wave_barrier: in every batch the last completion of a first twin   *)
(* is not after the first start of a second one.                            *)
TwinWaveBarrier(report) ==
  /\ DOMAIN report # {}
  /\ \A b \in {Batch(c) : c \in DOMAIN report} :
       LET twins(order) == {c \in DOMAIN report : Batch(c) = b /\ Order(c) = order}
       IN  /\ twins(0) # {} /\ twins(1) # {}
           /\ \A first \in twins(0), second \in twins(1) : first \in report[second]

(* _lane_isolation: every lane was used, each under a project of its own. *)
LaneIsolation(report) == {Lane(c) : c \in DOMAIN report} = Lanes

-----------------------------------------------------------------------------
(* What an attestation says is true and passes the assessor: the whole plan *)
(* was collected, every capture is complete, the waves were apart.          *)
AttestationIsSound ==
  \A d \in Directories :
    attestation[d] = "full" =>
      /\ DOMAIN attested[d] = Cases
      /\ TwinWaveBarrier(attested[d]) /\ LaneIsolation(attested[d])
      /\ \A c \in Cases : captures[d][c] = Files

(* Cases between `up` and the end of `down`. *)
Active == {a \in Executions \X Cases :
             Alive(a[1]) /\ casePc[a[1]][a[2]] \in {"up", "runner", "stop", "log", "down"}}

(* Two cases never use the project of a lane at once. *)
LanesAreExclusive ==
  \A a, b \in Active : Lane(a[2]) = Lane(b[2]) => a = b

(* A case finds containers of another one in its project only if an earlier *)
(* tear-down of that lane failed or its process was killed: no path through *)
(* exceptions reuses a lane without tearing it down.                        *)
FreshUnlessTearDownFailed ==
  \A e \in Executions, c \in Cases : startedOn[e][c] # {} => Lane(c) \in unclean

(* When no execution runs, every project is gone, with the same exceptions. *)
NothingLeftRunning ==
  (\A e \in Executions : ~Alive(e)) =>
    \A l \in Lanes \ unclean : stack[l] = {}

(* Nobody takes the project of a case away while its runner works in it: no *)
(* twin, no clean-up, and no execution that is refused.                     *)
CasesKeepTheirProject ==
  \A e \in Executions, c \in Cases :
    Alive(e) /\ casePc[e][c] \in {"runner", "stop"} => <<e, c>> \in stack[Lane(c)]

(* Each capture is torn down before its twin starts.                        *)
TwinStartsOnFreshProject ==
  \A e \in Executions, p \in 0 .. PairCount - 1, o \in {0, 1} :
    <<e, <<p, 1 - o>>>> \notin startedOn[e][<<p, o>>]

(* Every execution that is started ends, or is killed. *)
ExecutionsEnd == \A e \in Executions : phase[e] = "check" ~> phase[e] \in Ends
=============================================================================
