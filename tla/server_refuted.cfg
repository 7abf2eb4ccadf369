CONSTANTS
  None = None
  LastUnit = 15
  Unit <- MCUnit
  UnitMap <- MCUnitMap
  UnitText <- MCUnitText
  Request <- MCReadable
  Blocking = FALSE
  Settled = FALSE
  Oversize = FALSE
  Management = {}
SPECIFICATION Spec
INVARIANTS BroadcastSilent ExceptionReturned OpenedThenClosed
