SPECIFICATION Spec
CONSTANTS
  r1 = r1
  r2 = r2
  h1 = h1
  h2 = h2
  Steps <- StartAgents
  Runners <- OneRunner
  Hosts <- TwoHosts
  KnownHosts <- TwoHosts
  ClientsAtStart <- NoHosts
  PingTries = 2
  Overlap = FALSE
  MaxAttempts = 1
  MaxFaults = 0
  MaxCrashes = 0
INVARIANT AgentsChecked
