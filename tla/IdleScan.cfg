CONSTANTS
  Device = {1, 2, 3}
  Group <- MCGroup
  Cdevs = {1}
  Process = {1, 2}
  Fd = {3, 4}
  MaxBlind = 1
SPECIFICATION ScanFairSpec
INVARIANTS
  ScanInvariant
  PassedStayIdle
PROPERTIES
  SteadyHolderIsFound
  ScanIsCheck
  ScanEnds
