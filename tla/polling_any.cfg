CONSTANTS
  c1 = c1
  c2 = c2
  c3 = c3
  None = None
  Client <- MCThreeClients
  NextClient <- MCThreeInCircle
  Self = c1
  Request <- MCOne
  MaxTries = 2
  Blocking = FALSE
  Management = {"tries"}
SPECIFICATION AnyOrderSpec
PROPERTY EveryRequestEnds
