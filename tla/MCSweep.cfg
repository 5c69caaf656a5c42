SPECIFICATION Spec
CONSTANTS
  Configs <- MCConfigs
  Servers <- MCServers
  MaxStarts = 3
  Grain = 1
  Noise = {0}
INVARIANTS
  TypeOK
  BracketIsEvidence
  RatesStayInRange
  LocatedIsNarrow
  KneeIsTrue
  SearchMakesProgress
  ResumeRepeatsTheSearch
  ContaminationIsReported
PROPERTIES
  CompletedPointsAreKept
  SweepEnds
