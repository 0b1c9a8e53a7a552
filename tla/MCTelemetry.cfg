SPECIFICATION TelemetrySpec
CONSTANTS
  Requests = {r1, r2}
  Workers = {w3}
  w1 = w1
  w2 = w2
  Nobody = Nobody
  MaxFaults = 2
SYMMETRY TraceSymmetry
INVARIANTS
  TracesAreSound
  SeriesAreSound
  GaugesAreSound
CHECK_DEADLOCK FALSE
