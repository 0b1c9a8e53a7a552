SPECIFICATION CaseSpec
CONSTANTS
  r1 = r1
  r2 = r2
  Requests = {r1, r2}
  Workers = {w1, w2}
  Runner = runner
  Nobody = nobody
  LowMax = 1
  ElevatedMax = 2
  MaxFaults = 1
  MaxControls = 0
  Kinds = {"worker_crash", "cache_outage", "database_lock", "none"}
  PointCount = 3
  FaultStart = 1
  FaultStop = 2
  Window <- Together
  MaxPolls = 2
SYMMETRY ActorSymmetry
INVARIANTS
  WindowsAreTrue
  RunsEndClean
CHECK_DEADLOCK FALSE
