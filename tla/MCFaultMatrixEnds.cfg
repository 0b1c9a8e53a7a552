SPECIFICATION FairCaseSpec
CONSTANTS
  r1 = r1
  r2 = r2
  Requests = {r1, r2}
  Workers = {w1}
  Runner = runner
  Nobody = nobody
  LowMax = 0
  ElevatedMax = 1
  MaxFaults = 1
  MaxControls = 0
  Kinds = {"worker_crash", "cache_outage", "database_lock", "none"}
  PointCount = 2
  FaultStart = 1
  FaultStop = 2
  Window <- InTurn
  MaxPolls = 2
PROPERTIES
  RunsEndAndServe
CHECK_DEADLOCK FALSE
