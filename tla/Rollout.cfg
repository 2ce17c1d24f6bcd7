CONSTANTS
  n1 = n1
  n2 = n2
  Node = {n1, n2}
  Fleets <- MCFleets
  Releases <- MCReleases
  Parallelism = 1
  Asks = {"ppcie"}
  MaxUpgrades = 2
  MaxGivenUp = 1
  MaxMoves = 1
SPECIFICATION FairRollout
CHECK_DEADLOCK FALSE
INVARIANTS
  RolloutTypeOK
  DeployedMeansProvisioned
  SteadyNodeRunsOnce
  UninstallLeavesOnlyStrays
  RolloutInvariant
PROPERTY RolloutEnds
