CONSTANTS
  None = None
  LastUnit = 15
  Unit <- MCUnit
  UnitMap <- MCUnitMap
  UnitText <- MCUnitText
  Request <- MCRequest
  Blocking = FALSE
  Settled = FALSE
  Oversize = FALSE
  Management = {}
SPECIFICATION Spec
INVARIANTS CompletedStatus ErrorTextFits
