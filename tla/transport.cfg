SPECIFICATION Spec
CONSTANTS
  Types <- MCTypes
  Tries <- MCTries
  Ids <- MCIds
  Requests = 2
  Disturbances = 1
  Changes = 1
INVARIANTS
  OwnAnswer
  Genuine
  FlushedIsGone
  WireCarriesRequest
PROPERTIES
  PortContract
  RequestEnds
CHECK_DEADLOCK FALSE
