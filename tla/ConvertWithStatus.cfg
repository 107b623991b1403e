SPECIFICATION Spec
CONSTANTS
  c1 = c1
  c2 = c2
  h1 = h1
  h2 = h2
  s1 = s1
  s2 = s2
  f1 = f1
  f2 = f2
  Callers <- TwoCallers
  Converters <- OnlyConverter
  Hosts <- OneHost
  Segments <- TwoSegments
  HostOf <- OnFirst
  OidFiles <- TwoFiles
  MasterHost = h1
  Overlap = FALSE
  Passes = 1
  MaxOutages = 1
  MaxConverts = 2
  MaxProcs = 2
SYMMETRY Alike
INVARIANT TypeOK
INVARIANT OidsInPlace
INVARIANT TrustedAnswer
