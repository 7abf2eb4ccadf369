SPECIFICATION Spec
CONSTANTS
  DeviceUnit = 1
  Devices <- MCDevices
  Garbage <- MCGarbage
  Rounds <- DiagnosticRounds
  Told <- MCTold
  Registers = 128
INVARIANT OutcomeArrives
CHECK_DEADLOCK FALSE
