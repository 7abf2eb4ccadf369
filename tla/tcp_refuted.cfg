CONSTANTS
  None = None
  Unit <- MCUnit
  MaxConn = 2
  Device <- MCDevice
  AcceptErrors = FALSE
  Management = {"open", "device"}
SPECIFICATION Spec
INVARIANTS DeviceAgrees OpenAnnounced
