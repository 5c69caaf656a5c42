SPECIFICATION Spec
CONSTANTS
  Traces <- MCTraces
  Launches <- MCLaunches
INVARIANTS
  ShardsPartitionTheTrace
  ReportsAgreeWithRecords
  AggregateIsTheSum
