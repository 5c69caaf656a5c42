SPECIFICATION Spec
CONSTANTS
  Token = {1, 2, 3, 9}
  Pool <- MCPool
  Seeds <- MCSeeds
  Deltas <- MCDeltas
  Plans <- MCPlans
  Servers <- MCServersDelta
  Merged = 9
  EventMax = 3
  TotalMax = 4
  MinDrop = 2
  ProbeTokens = 4
  Recordings <- MCRecordings
  Replayed <- MCReplayed
INVARIANT DisjointDeltasAreNotRestated
