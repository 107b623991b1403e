SPECIFICATION FairSpec
CONSTANTS
  r1 = r1
  r2 = r2
  h1 = h1
  h2 = h2
  Steps <- AllSteps
  Runners <- OneRunner
  Hosts <- TwoHosts
  KnownHosts <- TwoHosts
  ClientsAtStart <- TwoHosts
  PingTries = 2
  Overlap = FALSE
  MaxAttempts = 3
  MaxFaults = 0
  MaxCrashes = 2
INVARIANT TypeOK
INVARIANT OneMarker
INVARIANT ReportIsTrue
INVARIANT RunningIsTrue
INVARIANT ResultKept
PROPERTY OnlyResetErases
PROPERTY ImplementsLifecycle
PROPERTY Settles
