SPECIFICATION Spec
CONSTANTS
  r1 = r1
  r2 = r2
  Runners <- TwoRunners
  InitiallyUp <- Both
  ConfigFirst = FALSE
  MaxAttempts = 2
  MaxFaults = 1
  MaxCrashes = 2
  MaxOthers = 1
  MaxQueries = 1
INVARIANT TypeOK
INVARIANT CompleteMeansStopped
INVARIANT NoneForgotten
INVARIANT NoneLeftInProgress
SYMMETRY Symmetry
