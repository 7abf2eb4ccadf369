CONSTANTS
  c1 = c1
  c2 = c2
  None = None
  Client <- MCClient
  Self = c1
  Request <- MCTwo
  MaxTries = 2
  Blocking = FALSE
  Management = {"cancel", "close", "setPort", "change", "tries", "broadcast"}
SPECIFICATION Spec
INVARIANTS TypeOK OwnerHasFilledBuffer OwnerPolls RetryBookkeeping GoodWasSent StatusReported
