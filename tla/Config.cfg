SPECIFICATION Spec
CONSTANTS
  c1 = c1
  c2 = c2
  h1 = h1
  h2 = h2
  Callers <- TwoCallers
  Segment <- AllSegments
  Answers <- AllAnswers
  Size <- Length
  MaxWrites = 2
  MaxReads = 3
  MaxChanges = 1
  MaxCrashes = 1
SYMMETRY Alike
INVARIANT TypeOK
INVARIANT FailureKeepsConfig
INVARIANT FreshHubSeesConfig
INVARIANT OneViewPerLife
