SPECIFICATION Spec
CONSTANTS
  Actions = {1, 2}
  Kind <- OneKey
  PauseFraction <- Half
  Start <- StartOf
  Stop <- StopOf
  Workers = {w1}
  Controller = controller
  Nobody = nobody
  NoAction = none
  MaxFaults = 1
INVARIANTS
  CloseStopsEveryAction
CHECK_DEADLOCK FALSE
