CONSTANTS
  QueueDepth = 2
  IdleRates <- MCIdleRates
  Typed <- MCTyped
SPECIFICATION LiveSpec
INVARIANTS
  HandlersFindDrivers
  UsbListens
PROPERTIES
  HighVoltageIsAskedFor
  FilesAreSafe
  FlashSettles
  CommandEnds
