SPECIFICATION FairSpec
CONSTANTS
  p1 = p1
  p2 = p2
  b1 = b1
  b2 = b2
  b3 = b3
  h1 = h1
  h2 = h2
  d1 = d1
  d2 = d2
  Procs <- TwoProcs
  Hubs <- ThreeHubs
  ByHand <- LastHub
  Hosts <- TwoHosts
  Databases <- TwoDatabases
  Usages <- AroundTheLimit
  Names <- OneOfEachKind
  Attempts = 1
  MaxFaults = 1
INVARIANT TypeOK
INVARIANT ExitZeroIsEarned
INVARIANT StartedHubServes
INVARIANT InitOnce
INVARIANT ChecksAreComplete
PROPERTY EveryCommandEnds
