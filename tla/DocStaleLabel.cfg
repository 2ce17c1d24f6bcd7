CONSTANTS
  n1 = n1
  n2 = n2
  Node = {n1, n2}
  Fleets <- MCFleets
  Releases <- MCReleases
  Parallelism = 1
  Asks = {"ppcie"}
  MaxUpgrades = 2
  MaxGivenUp = 0
  MaxMoves = 0
SPECIFICATION RolloutSpec
CHECK_DEADLOCK FALSE
INVARIANTS
  LabelIsTrue
