SPECIFICATION Spec
CONSTANTS
  Token = {1, 2, 3, 9}
  Pool <- MCPool
  Seeds <- MCSeeds
  Deltas <- MCDeltas
  Plans <- MCPlans
  Servers <- MCServers
  Merged = 9
  EventMax = 3
  TotalMax = 4
  MinDrop = 2
  ProbeTokens = 4
  Recordings <- MCRecordings
  Replayed <- MCReplayed
INVARIANTS
  TypeOK
  PromptIsAsTraced
  CountedPrefixIsHeld
  TimelineAddsUp
  RecordedShapeIsReplayed
PROPERTY
  SessionEnds
