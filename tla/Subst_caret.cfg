SPECIFICATION Spec
CONSTANTS
  Code <- MCCode
  Chars <- MCChars
  Regcomp <- regcomp
  Regexec <- regexec
  ToLower <- MCToLower
  ToUpper <- MCToUpper
  IntBits = 32
  LongBits = 32
  MaxText = 4
  Jobs <- MCCaret
INVARIANT FitsBuffer
