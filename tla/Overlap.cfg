CONSTANTS
  r1 = r1
  r2 = r2
  Run = {r1, r2}
  Device = {1, 2}
  Boards <- MCBoards
  Readings <- MCReadings
  Requests <- MCRequests
SPECIFICATION OverlapSpec
SYMMETRY Swaps
CHECK_DEADLOCK FALSE
INVARIANTS
  NoResetOwed
  OverlapInvariant
  AgreedRunsStand
