CONSTANTS
  open_tasks = open_tasks
  typed = typed
  Nobody = Nobody
  Zeros = Zeros
  Garbled = Garbled
  Url <- NumericUrl
  ServerUrl <- Numeric
  IpModeConfig = {"IPV4"}
  Regimes <- NoneOrMany
  MaxSockets = 1
  MaxRx = 1
  ServerValue <- MCServerValue
  UserValue <- MCUserValue
  Usable = {TRUE, FALSE}
  Commands = {"display", "nixie_fetch", "fetch", "send", "enable", "disable",
              "periodic_enable", "periodic_disable"}
  Fast = 1
  Normal = 2
SPECIFICATION Safety
INVARIANTS
  OwnerWaits
  FetchGoesToRequester
  DisplayValueKept
PROPERTIES
  ShiftRegisterProtocol
  RetrySoon
