CONSTANTS
  c1 = c1
  c2 = c2
  None = None
  Client <- MCClient
  Self = c1
  Request <- MCAll
  MaxTries = 3
  Blocking = TRUE
  Management = {"close", "tries", "broadcast"}
SPECIFICATION Spec
INVARIANTS BlockingReleases BlockingCompletes
