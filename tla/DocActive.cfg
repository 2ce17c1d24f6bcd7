CONSTANTS
  Device = {1, 2}
  Boards <- HopperBoards
  Readings <- KnobReading
  MaxFaults = 1
  MaxLost = 0
  Hosts <- QuietHosts
  AdmitDuringRun = FALSE
SPECIFICATION ProvisionerSpec
INVARIANT SuccessMeansActive
