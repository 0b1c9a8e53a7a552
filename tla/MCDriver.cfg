SPECIFICATION DriverSpec
CONSTANTS
  Executions = {"e1"}
  Directories = {"d1"}
  Output <- OneOutput
  Jobs = 2
  PairCount = 3
  MaxFaults = 2
  MaxKills = 0
  Parts = {"own", "rerun", "leftovers", "overlapping", "serial", "changing", "commanded", "selecting", "freezing"}
INVARIANTS
  CollectionsAreSound
  ChainsAreSound
  CampaignsAreSealed
PROPERTIES
  CollectionsEnd
CHECK_DEADLOCK FALSE
