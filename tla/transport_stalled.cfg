SPECIFICATION Spec
CONSTANTS
  Types <- MCTypes
  Tries <- MCTries
  Ids <- MCIds
  Requests = 2
  Disturbances = 1
  Changes = 1
PROPERTY RequestEndsAlways
CHECK_DEADLOCK FALSE
