SPECIFICATION ReleaseSpec
CONSTANTS
  Fetches = {"f1", "f2", "f3"}
  Downloads = {"f3"}
  MaxFaults = 1
  MaxKills = 1
  MaxChanges = 1
INVARIANTS
  BundlesAreWhole
PROPERTIES
  PublishKeepsPromise
  ReleasesEnd
CHECK_DEADLOCK FALSE
