SPECIFICATION Spec
CONSTANTS
  N = 2
  MaxRounds = 2
  Plans <- MCPlans
  LogCap = 1
  TaskFaults = {"panic", "log_open"}
  Requests <- MCRequests
  MaxEvents = 2
  QueueCap = 1
  RowGroup = 3
  Faults = {"open", "write", "close"}
INVARIANTS
  TypeOK
  EveryRoundRecordedOnce
  SummaryIsComplete
  WritersOutliveExecutors
  SessionsStopWhereTheyShould
  NoRoundLeftOut
  StatusExitsLast
  DroppedCountIsFinal
  NothingLostInSilence
PROPERTIES
  ImplementsContract
  RunEndsIfItsUnitsDo
  WriterKeepsReceiving
