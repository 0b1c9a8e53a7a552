SPECIFICATION FairSpec
CONSTANTS
  Requests = {1}
  Workers = {w1}
  Second = w1
  Controller = controller
  Nobody = nobody
  MaxFaults = 1
  MaxInterventions = 0
  Actions = {1, 2}
  Kind <- KindOf
  PauseFraction <- All
  NoAction = none
  PointCount = 3
  Plans <- OneOnly
  Start <- StartOf
  Stop <- StopOf
  RejectedTokens = {1}
  MaxScheduled = 1
PROPERTIES
  RunEnds
  RequestsAreServed
CHECK_DEADLOCK FALSE
