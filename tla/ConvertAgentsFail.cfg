SPECIFICATION FairSpec
CONSTANTS
  c1 = c1
  c2 = c2
  h1 = h1
  h2 = h2
  s1 = s1
  s2 = s2
  f1 = f1
  f2 = f2
  Callers <- TwoCallers
  Converters <- OnlyConverter
  Hosts <- TwoHosts
  Segments <- TwoSegments
  HostOf <- OnSecond
  OidFiles <- OneFile
  MasterHost = h1
  Overlap = FALSE
  Passes = 1
  MaxOutages = 1
  MaxConverts = 1
  MaxProcs = 0
INVARIANT OkMeansStarted
PROPERTY ConvertAnswered
