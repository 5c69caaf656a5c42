SPECIFICATION Spec
CONSTANTS
  N = 2
  MaxRounds = 2
  Plans <- MCSessions
  LogCap = 1
  TaskFaults = {"panic"}
  Requests <- MCRequests
  MaxEvents = 2
  QueueCap = 1
  RowGroup = 3
  Faults = {}
PROPERTIES
  RunEnds
