SPECIFICATION CaseSpec
CONSTANTS
  Requests = {1, 2, 3}
  Workers = {w1, w2}
  Second = w2
  Controller = controller
  Nobody = nobody
  MaxFaults = 1
  MaxInterventions = 0
  Actions = {1, 2, 3, 4, 5, 6, 7, 8}
  Kind <- KindOf
  PauseFraction <- All
  NoAction = none
  PointCount = 4
  Plans <- CasePlans
  Start <- StartOf
  Stop <- StopOf
  RejectedTokens = {1, 3}
  MaxScheduled = 2
INVARIANTS
  CaptureTypeOK
  WindowAccountsForSchedule
  RowsCoverWrites
  SuccessfulRunPassesTheGate
  SampleSeesItsWindowOnly
  CommandsBracketWindows
CHECK_DEADLOCK FALSE
