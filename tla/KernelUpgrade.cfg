CONSTANTS
  Device = {1, 2}
  Boards <- MCBoards
  Readings <- MCReadings
  MaxFaults = 1
  MaxLost = 1
  Hosts <- MCKernels
  AdmitDuringRun = FALSE
SPECIFICATION KernelSpec
INVARIANTS
  CoherentNeverGeneric
  ComesBackOnThisKernel
  UpgradeInvariant
