SPECIFICATION Spec
CONSTANTS
  DeviceUnit = 1
  Devices <- MCDevices
  Garbage <- MCGarbage
  Rounds <- MCRounds
  Told <- MCTold
  Registers = 128
INVARIANTS Understood OutcomeArrives InformationArrives
PROPERTY WorksOnMemory
CHECK_DEADLOCK FALSE
