CONSTANTS
  None = None
  Unit <- MCUnit
  MaxConn = 2
  Device <- MCOneDevice
  AcceptErrors = TRUE
  Management = {"close"}
SPECIFICATION FairSpec
PROPERTY CloseAlwaysCompletes
