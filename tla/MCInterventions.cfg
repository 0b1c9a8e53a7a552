SPECIFICATION PairSpec
CONSTANTS
  Actions = {1, 2, 3, 4}
  Kind <- KindOf
  PauseFraction <- Half
  Start <- StartOf
  Stop <- StopOf
  Workers = {w1, w2}
  Controller = controller
  Nobody = nobody
  NoAction = none
  MaxFaults = 1
SYMMETRY WorkerSymmetry
INVARIANTS
  ReturnedCloseIsClean
  LockIsRecoverable
  EvidenceExplainsMemory
  PausedWorkersAreNamed
PROPERTIES
  EvidenceFollowsEffect
CHECK_DEADLOCK FALSE
