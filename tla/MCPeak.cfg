SPECIFICATION Spec
CONSTANTS
  Configs <- MCConfigs
  Throughputs = {0, 80, 100, 102}
  MaxStarts = 2
INVARIANTS
  PeakIsTheBest
  LocatedIsEvidence
