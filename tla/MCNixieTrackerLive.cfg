CONSTANTS
  open_tasks = open_tasks
  typed = typed
  Nobody = Nobody
  Zeros = Zeros
  Garbled = Garbled
  Url <- NumericUrl
  ServerUrl <- Numeric
  IpModeConfig = {"IPV4"}
  Regimes <- OneAtATime
  MaxSockets = 1
  MaxRx = 1
  ServerValue <- MCServerValue
  UserValue <- MCUserValue
  Usable = {TRUE}
  Commands = {"nixie_fetch", "fetch"}
  Fast = 1
  Normal = 2
SPECIFICATION Spec
PROPERTIES
  CommandEnds
  ReachesTubes
  KeepsRefreshing
