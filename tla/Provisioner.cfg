CONSTANTS
  Device = {1, 2}
  Boards <- MCBoards
  Readings <- MCKnobReading
  MaxFaults = 1
  MaxLost = 1
  Hosts <- MCHosts
  AdmitDuringRun = FALSE
SPECIFICATION ProvisionerSpec
INVARIANTS
  ProvisionerTypeOK
  ResetOnlyIdle
  SuccessIsWhole
  ComesBackBound
  RefusedWhole
  ConvergedRunIsHarmless
  LabelsNameTheMode
  UninstallHandsBack
  RunInvariant
  StatusAgreesWithRun
