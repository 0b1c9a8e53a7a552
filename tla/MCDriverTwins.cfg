SPECIFICATION DriverSpec
CONSTANTS
  Executions = {"e1"}
  Directories = {"d1"}
  Output <- OneOutput
  Jobs = 2
  PairCount = 2
  MaxFaults = 1
  MaxKills = 0
  Parts = {"own"}
INVARIANT TwinStartsOnFreshProject
CHECK_DEADLOCK FALSE
