SPECIFICATION Spec
CONSTANTS
  None = None
  CounterMax = 4
  MaxTries = 3
  MaxFailures = 2
  Default = "old"
  Name <- MCName
  Kernels <- MCName
  Rank <- MCRank
  Loads <- MCLoads
  Completes <- MCComplete
INVARIANTS TypeOK TriesAccounting StaleIsPaid DoneCoversStarts OneFilePerName
PROPERTIES GoodStaysGood ImplementsLedger
