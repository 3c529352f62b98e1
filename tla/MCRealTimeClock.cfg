CONSTANTS
  NumRegisters = 8
  InitialRegisters <- MCInitialRegisters
  Dates <- MCDates
  Addresses <- MCAddresses
  Values <- MCValues
  Pointer <- MCPointer
  MaxCommands = 3
  TickingSeconds = {59}
  Partial = {0, 4}
SPECIFICATION Spec
INVARIANTS
  CommandsTakeEffect
PROPERTIES
  TransfersDoNotOverlap
  WritesAreOwn
  CommandsEnd
