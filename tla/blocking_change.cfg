CONSTANTS
  c1 = c1
  c2 = c2
  None = None
  Client <- MCAlone
  Self = c1
  Request <- MCOne
  MaxTries = 2
  Blocking = TRUE
  Management = {"change"}
SPECIFICATION Spec
INVARIANT BlockingCompletes
