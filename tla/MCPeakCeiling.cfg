SPECIFICATION Spec
CONSTANTS
  Configs <- MCConfigs
  Throughputs = {80, 100, 102}
  MaxStarts = 1
INVARIANT
  LocatedIsOutOfPatience
