SPECIFICATION Spec
CONSTANTS
  DeviceUnit = 1
  Devices <- MCDevices
  Garbage <- MCGarbage
  Rounds <- RefutedRounds
  Told <- MCTold
  Registers = 128
INVARIANT Understood
PROPERTY WorksOnMemory
CHECK_DEADLOCK FALSE
