------------------------------- MODULE MCDriver --------------------------------
(* Instances of the lab's driver for TLC, side by side: collections of cases  *)
(* (CollectionLanes, with the constants of the cfg and two more instances),   *)
(* chains of collections (QualificationChain), sealed confirmations           *)
(* (SealedCampaign) and selections by frozen models (FrozenSelection).  The   *)
(* variable part says which one a behaviour is of; the state of the others    *)
(* stays as it began.                                                        *)
EXTENDS CollectionLanes, TLC

CONSTANT Parts   \* the instances to check

VARIABLES
  part,
  pc, stage, image, context, source, tagged, files, writers, plan, ran, chainAttested,
  status, damaged, chainFaults,
  run, head, tree, weights, kept, torn, evidence, grade, predictions, edits, swaps,
  commandFaults,                                       \* of both kinds of campaigns,
  protocol, quality, recorded, identities, result,     \* of confirmations,
  fitSource, staging, frozen, freeze, bindings, qualified, disturbed  \* of selections

campaignVars == <<run, head, tree, weights, kept, torn, evidence, grade, predictions, edits,
                  swaps, commandFaults>>
confirmationVars == <<protocol, quality, recorded, identities, result>>
selectionVars == <<fitSource, staging, frozen, freeze, bindings, qualified, disturbed>>
sealedVars == <<campaignVars, confirmationVars, selectionVars>>
chainVars == <<pc, stage, image, context, source, tagged, files, writers, plan, ran,
               chainAttested, status, damaged, chainFaults>>

OneOutput == [e \in Executions |-> CHOOSE d \in Directories : TRUE]

(* Two executions for one output directory. *)
Rerun == INSTANCE CollectionLanes WITH
  Executions <- {"e1", "e2"}, Directories <- {"d1"}, Output <- [e1 |-> "d1", e2 |-> "d1"],
  Jobs <- 2, PairCount <- 2, MaxFaults <- 1, MaxKills <- 0

(* Two executions for directories of their own, of which one may be killed. *)
Leftovers == INSTANCE CollectionLanes WITH
  Executions <- {"e1", "e2"}, Directories <- {"d1", "d2"},
  Output <- [e1 |-> "d1", e2 |-> "d2"],
  Jobs <- 1, PairCount <- 2, MaxFaults <- 1, MaxKills <- 1

(* Two lab executions with a smoke output each and one pilot output, and a    *)
(* development execution whose protocol was frozen with the evidence of the   *)
(* first.                                                                     *)
FrozenProtocol == [smoke |-> "s1", pilot |-> "p1", context |-> 0]

Overlapping == INSTANCE QualificationChain WITH
  Labs <- {"l1", "l2"}, Developments <- {"v1"}, Directories <- {"s1", "s2", "p1", "d1"},
  SmokeDir <- [l1 |-> "s1", l2 |-> "s2", v1 |-> "s1"],
  PilotDir <- [l1 |-> "p1", l2 |-> "p1", v1 |-> "p1"],
  DevelopmentDir <- [v1 |-> "d1"], Authorized <- FrozenProtocol, None <- "no directory",
  Overlap <- TRUE, MaxEdits <- 1, MaxFaults <- 1, MaxDamage <- 1,
  attested <- chainAttested, faults <- chainFaults

Serial == INSTANCE QualificationChain WITH
  Labs <- {"l1", "l2"}, Developments <- {"v1"}, Directories <- {"s1", "s2", "p1", "d1"},
  SmokeDir <- [l1 |-> "s1", l2 |-> "s2", v1 |-> "s1"],
  PilotDir <- [l1 |-> "p1", l2 |-> "p1", v1 |-> "p1"],
  DevelopmentDir <- [v1 |-> "d1"], Authorized <- FrozenProtocol, None <- "no directory",
  Overlap <- FALSE, MaxEdits <- 1, MaxFaults <- 2, MaxDamage <- 1,
  attested <- chainAttested, faults <- chainFaults

lanesInstances == {"own", "rerun", "leftovers"}
chainInstances == {"overlapping", "serial"}
confirmationInstances == {"changing", "commanded"}
selectionInstances == {"selecting", "freezing"}

(* One command after the other, while the repository and the model change. *)
Changing == INSTANCE SealedCampaign WITH
  Commands <- 1 .. 4, MaxAlive <- 1, MaxEdits <- 3, MaxSwaps <- 2, MaxDamage <- 1,
  MaxFaults <- 1, MaxTrouble <- 3, faults <- commandFaults

(* Two commands at once, of which one may fail. *)
Commanded == INSTANCE SealedCampaign WITH
  Commands <- 1 .. 5, MaxAlive <- 2, MaxEdits <- 0, MaxSwaps <- 0, MaxDamage <- 0,
  MaxFaults <- 1, MaxTrouble <- 1, faults <- commandFaults

(* The same for selections: fit-and-freeze and the four commands. *)
Selecting == INSTANCE FrozenSelection WITH
  Commands <- 1 .. 6, MaxAlive <- 1, MaxEdits <- 2, MaxSwaps <- 1, MaxDamage <- 1,
  MaxFaults <- 1, MaxTrouble <- 2, faults <- commandFaults

Freezing == INSTANCE FrozenSelection WITH
  Commands <- 1 .. 5, MaxAlive <- 2, MaxEdits <- 0, MaxSwaps <- 0, MaxDamage <- 0,
  MaxFaults <- 1, MaxTrouble <- 1, faults <- commandFaults

NoCampaign ==
  /\ run = 0 /\ head = 0 /\ tree = 0 /\ weights = 0 /\ kept = 0 /\ torn = 0
  /\ evidence = 0 /\ grade = 0 /\ predictions = 0 /\ edits = 0 /\ swaps = 0
  /\ commandFaults = 0

NoConfirmation ==
  protocol = 0 /\ quality = 0 /\ recorded = 0 /\ identities = 0 /\ result = 0

NoSelection ==
  /\ fitSource = 0 /\ staging = 0 /\ frozen = 0 /\ freeze = 0 /\ bindings = 0
  /\ qualified = 0 /\ disturbed = 0

DriverInit ==
  /\ part \in Parts
  /\ Serial!Init
  /\ CASE part = "changing" -> Changing!Init
       [] part = "commanded" -> Commanded!Init
       [] part = "selecting" -> Selecting!Init
       [] part = "freezing" -> Freezing!Init
       [] OTHER -> NoCampaign
  /\ part \notin confirmationInstances => NoConfirmation
  /\ part \notin selectionInstances => NoSelection
  /\ CASE part = "rerun" -> Rerun!Init
       [] part = "leftovers" -> Leftovers!Init
       [] OTHER -> Init

DriverNext ==
  /\ UNCHANGED part
  /\ \/ part \in lanesInstances /\ UNCHANGED <<chainVars, sealedVars>>
        /\ \/ part = "own" /\ Next
           \/ part = "rerun" /\ Rerun!Next
           \/ part = "leftovers" /\ Leftovers!Next
     \/ part \in chainInstances /\ UNCHANGED <<vars, sealedVars>>
        /\ \/ part = "overlapping" /\ Overlapping!Next
           \/ part = "serial" /\ Serial!Next
     \/ part \in confirmationInstances /\ UNCHANGED <<vars, chainVars, selectionVars>>
        /\ \/ part = "changing" /\ Changing!Next
           \/ part = "commanded" /\ Commanded!Next
     \/ part \in selectionInstances /\ UNCHANGED <<vars, chainVars, confirmationVars>>
        /\ \/ part = "selecting" /\ Selecting!Next
           \/ part = "freezing" /\ Freezing!Next

driverVars == <<vars, chainVars, sealedVars, part>>

(* The fairness of CollectionLanes, for the module's own instance. *)
OwnFairness ==
  \A e \in Executions :
    /\ WF_driverVars(part = "own" /\ Main(e) /\ UNCHANGED <<chainVars, sealedVars, part>>)
    /\ \A c \in Cases :
         WF_driverVars(part = "own" /\ Collect(e, c) /\ UNCHANGED <<chainVars, sealedVars, part>>)

DriverSpec == DriverInit /\ [][DriverNext]_driverVars /\ OwnFairness

-----------------------------------------------------------------------------
(* The properties, of the instance a behaviour is of. *)

(* In every collection: the state has its type, what an attestation says is   *)
(* true, two cases never share a project, and no project is left behind,      *)
(* found used or taken away, unless a tear-down failed (see CollectionLanes). *)
CollectionsAreSound ==
  CASE part = "own" ->
         /\ TypeOK /\ AttestationIsSound /\ LanesAreExclusive /\ NothingLeftRunning
         /\ FreshUnlessTearDownFailed /\ CasesKeepTheirProject
    [] part = "rerun" ->
         /\ Rerun!TypeOK /\ Rerun!AttestationIsSound /\ Rerun!LanesAreExclusive
         /\ Rerun!NothingLeftRunning /\ Rerun!FreshUnlessTearDownFailed
         /\ Rerun!CasesKeepTheirProject
    [] part = "leftovers" ->
         /\ Leftovers!TypeOK /\ Leftovers!AttestationIsSound
         /\ Leftovers!LanesAreExclusive /\ Leftovers!NothingLeftRunning
         /\ Leftovers!FreshUnlessTearDownFailed /\ Leftovers!CasesKeepTheirProject
    [] OTHER -> TRUE

(* Every execution of a collection ends: see CollectionLanes. *)
CollectionsEnd == part = "own" => ExecutionsEnd

(* In every chain: the state has its type, an output directory has one        *)
(* writer, and a stage captures only on evidence that qualified; of           *)
(* executions one after the other, twins run the image that the attestation   *)
(* names (see QualificationChain).                                            *)
ChainsAreSound ==
  CASE part = "overlapping" ->
         Overlapping!TypeOK /\ Overlapping!OneWriter /\ Overlapping!ChainIsSound
    [] part = "serial" ->
         /\ Serial!TypeOK /\ Serial!OneWriter /\ Serial!ChainIsSound
         /\ Serial!AttestedImageRuns
    [] OTHER -> TRUE

(* In every sealed confirmation and every selection: the state has its type,   *)
(* its result is sealed, nothing of it is written twice, and what is frozen is *)
(* frozen whole (see SealedCampaign and FrozenSelection).                     *)
CampaignsAreSealed ==
  CASE part = "changing" ->
         /\ Changing!TypeOK /\ Changing!ResultIsSealed /\ Changing!NothingIsWrittenTwice
    [] part = "commanded" ->
         /\ Commanded!TypeOK /\ Commanded!ResultIsSealed
         /\ Commanded!NothingIsWrittenTwice
    [] part = "selecting" ->
         /\ Selecting!TypeOK /\ Selecting!SelectionIsSealed
         /\ Selecting!FreezesAreWhole /\ Selecting!NothingIsWrittenTwice
    [] part = "freezing" ->
         /\ Freezing!TypeOK /\ Freezing!SelectionIsSealed
         /\ Freezing!FreezesAreWhole /\ Freezing!NothingIsWrittenTwice
    [] OTHER -> TRUE
=============================================================================
