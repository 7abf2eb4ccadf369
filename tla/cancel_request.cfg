CONSTANTS
  c1 = c1
  c2 = c2
  None = None
  Client <- MCClient
  Self = c1
  Request <- MCOne
  MaxTries = 1
  Blocking = FALSE
  Management = {"cancel"}
SPECIFICATION Spec
INVARIANT OwnAnswer
