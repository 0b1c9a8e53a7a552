SPECIFICATION DisturbedSpec
CONSTANTS
  Requests = {r1, r2}
  Workers = {w1, w2}
  Runner = runner
  Nobody = nobody
  LowMax = 0
  ElevatedMax = 1
  MaxFaults = 2
  MaxControls = 1
SYMMETRY ActorSymmetry
INVARIANTS
  TypeOK
  BacklogFollowsQueue
  CrossingsAreReported
  CountersTrailTheLogs
PROPERTIES
  ImplementsPromise
CHECK_DEADLOCK FALSE
