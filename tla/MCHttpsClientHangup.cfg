CONSTANTS
  nixie = nixie
  fetch = fetch
  Nobody = Nobody
  Client <- MCClient
  Url <- MCUrl
  IpModeConfig = {"IPV4"}
  Regimes <- OnlyHangup
  MaxSockets = 2
  MaxRx = 2
SPECIFICATION Spec
PROPERTIES
  AlwaysAnswered
CHECK_DEADLOCK FALSE
