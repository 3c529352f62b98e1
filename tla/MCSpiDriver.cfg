CONSTANTS
  FifoSize = 4
  HwMark = 2
  QueueSize = 2
  NoJob = NoJob
  Jobs <- MCJobs
SPECIFICATION Spec
INVARIANTS
  NothingIsLost
  BusIsAsAsked
PROPERTIES
  EveryJobEnds
