CONSTANTS
  None = None
  Unit <- MCUnit
  MaxConn = 2
  Device <- MCDevice
  AcceptErrors = TRUE
  Management = {"open", "close", "maxconn", "broadcast", "unitmap", "device"}
SPECIFICATION FairSpec
INVARIANTS NeverDials SignalsPair SettingsAgree
PROPERTIES AcceptBounded CloseCompletes
