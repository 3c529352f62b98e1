CONSTANTS
  MaxData = 2
  Payloads <- MCPayloads
  PowerOn <- MCPowerOn
SPECIFICATION Spec
PROPERTIES
  PinDiscipline
  ImplementsLatch
  JobEnds
CHECK_DEADLOCK TRUE
