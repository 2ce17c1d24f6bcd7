CONSTANTS
  Device = {1, 2, 3}
  Boards <- MCBoards
  Readings <- MCReadings
  MaxFaults = 1
  MaxLost = 1
SPECIFICATION Spec
INVARIANTS
  TypeOK
  SuccessIsReported
  KnobsBeforeResets
  TornOnlyByFault
  SuccessIsActive
  ResetIsNeeded
  NoFalseAlarm
  InductiveInvariant
