CONSTANTS
  Word = 16
  Windows <- MCWindows
  Delays = {0, 1}
  SetValues <- MCSetValues
  EnergyValues <- MCEnergyValues
  Budgets <- MCBudgets
  DiagRanges <- MCRanges
  Block = 2
  NChanges = 2
  Junk = 9
  Writes <- MCWrites
SPECIFICATION FairSpec
INVARIANTS TypeOK WritesLandInOrder WindowFollows NewestFirst ChangesLink
PROPERTIES CatchesUp
CHECK_DEADLOCK FALSE
