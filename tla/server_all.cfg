CONSTANTS
  None = None
  LastUnit = 15
  Unit <- MCUnit
  UnitMap <- MCUnitMap
  UnitText <- MCWideText
  Request <- MCRequest
  Blocking = FALSE
  Settled = FALSE
  Oversize = FALSE
  Management = {"open", "close", "broadcast", "unitmap"}
SPECIFICATION Spec
INVARIANTS TypeOK TextKeepsUnits
PROPERTIES AnswersOnce CallsAreSteps
