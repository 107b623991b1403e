SPECIFICATION Spec
CONSTANTS
  c1 = c1
  c2 = c2
  h1 = h1
  h2 = h2
  Callers <- OneCaller
  Segment <- AllSegments
  Answers <- AllAnswers
  Size <- Length
  MaxWrites = 2
  MaxReads = 1
  MaxChanges = 0
  MaxCrashes = 1
INVARIANT PairedWithNew
