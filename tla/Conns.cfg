SPECIFICATION ConnFairSpec
CONSTANTS
  c1 = c1
  c2 = c2
  h1 = h1
  h2 = h2
  Callers <- TwoCallers
  Hosts <- TwoHosts
  Overlap = TRUE
  Passes = 2
  MaxOutages = 2
INVARIANT ConnTypeOK
INVARIANT OneConnPerHost
INVARIANT AllHostsConnected
INVARIANT NobodyOnlyIfBare
PROPERTY CallsReturn
