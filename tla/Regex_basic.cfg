SPECIFICATION Spec
CONSTANTS
  Code <- MCCode
  IntBits = 32
  LongBits = 32
  MaxText = 3
  Exprs <- MCExprs
  Searches <- MCSearches
  RawPatterns <- MCRaw
INVARIANT LeftmostLongest
INVARIANT GroupsTogether
INVARIANT ParserExact
INVARIANT StripLinked
