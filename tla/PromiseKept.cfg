CONSTANTS
  Device = {1, 2}
  Boards <- MCBoards
  Readings <- MCReadings
  MaxFaults = 1
  MaxLost = 0
  Hosts <- MCHosts
  AdmitDuringRun = FALSE
SPECIFICATION ProvisionerFairSpec
PROPERTIES
  PromiseIsKept
  ApplyEnds
