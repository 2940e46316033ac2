SPECIFICATION UnattendedSpec
CONSTANTS
  None = None
  CounterMax = 3
  MaxTries = 2
  MaxFailures = 1
  Default = "mid"
  Name <- MCName
  Kernels <- MCName
  Rank <- MCRank
  Loads <- MCLoads
  Completes <- MCComplete
PROPERTIES FallsBack
