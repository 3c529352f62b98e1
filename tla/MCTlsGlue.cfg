CONSTANTS
  Messages = 2
  RecordSize = 2
  MaxRecords = 2
SPECIFICATION Spec
INVARIANTS
  SessionHasLibrary
PROPERTIES
  NothingIsLeft
  HandshakeEnds
