CONSTANTS
  None = None
  LastUnit = 15
  Unit <- MCUnit
  UnitMap <- MCUnitMap
  UnitText <- MCUnitText
  Request <- MCReadable
  Blocking = TRUE
  Settled = FALSE
  Oversize = FALSE
  Management = {"open", "close", "broadcast", "unitmap", "change"}
SPECIFICATION Spec
INVARIANTS ErrorTextFits ExceptionReturned
