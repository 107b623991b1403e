SPECIFICATION FairSpec
CONSTANTS
  r1 = r1
  r2 = r2
  h1 = h1
  h2 = h2
  Steps <- AllSteps
  Runners <- TwoRunners
  Hosts <- TwoHosts
  KnownHosts <- TwoHosts
  ClientsAtStart <- TwoHosts
  PingTries = 2
  Overlap = TRUE
  MaxAttempts = 3
  MaxFaults = 1
  MaxCrashes = 1
INVARIANT MarkersEarned
PROPERTY EveryRequestEnds
