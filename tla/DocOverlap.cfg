CONSTANTS
  r1 = r1
  r2 = r2
  Run = {r1, r2}
  Device = {1, 2}
  Boards <- MCGpus
  Readings <- MCReadings
  Requests <- MCTwoModes
SPECIFICATION OverlapSpec
CHECK_DEADLOCK FALSE
INVARIANT EndsInOneMode
