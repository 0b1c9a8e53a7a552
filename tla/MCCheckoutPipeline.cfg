SPECIFICATION DisturbedSpec
CONSTANTS
  Requests = {r1, r2}
  Workers = {w1, w2}
  Controller = controller
  Nobody = nobody
  MaxFaults = 2
  MaxInterventions = 1
SYMMETRY ActorSymmetry
INVARIANTS
  TypeOK
  ExclusiveCustody
  InflightCoversHandlers
  BusyMarksWork
  CountersTrailTheWork
  PauseAllowsOneTake
PROPERTIES
  LockFreezesTable
  ImplementsPromise
CHECK_DEADLOCK FALSE
