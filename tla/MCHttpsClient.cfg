CONSTANTS
  nixie = nixie
  fetch = fetch
  Nobody = Nobody
  Client <- MCClient
  Url <- MCUrl
  IpModeConfig = {"IPV4", "IPV6"}
  Regimes <- MCRegimes
  MaxSockets = 2
  MaxRx = 2
SPECIFICATION Spec
INVARIANTS
  NoSocketLeak
  NoClearTextForHttps
PROPERTIES
  CallbacksReachWaiter
  HandledAfterLastBuffer
  RequestAnswered
CHECK_DEADLOCK FALSE
