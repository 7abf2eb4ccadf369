CONSTANTS
  None = None
  LastUnit = 15
  Unit <- MCUnit
  UnitMap <- MCUnitMap
  UnitText <- MCUnitText
  Request <- MCReadable
  Blocking = FALSE
  Settled = TRUE
  Oversize = FALSE
  Management = {"open", "close", "broadcast", "unitmap", "change"}
SPECIFICATION FairSpec
INVARIANT OnlyOwnUnits
PROPERTIES RequestEnds CloseCompletes
