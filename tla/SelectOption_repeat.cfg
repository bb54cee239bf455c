SPECIFICATION Spec
CONSTANTS
  NumOptions = 3
  IntMax = 63
  Modes = {"plain"}
  MaxCalls = 2
PROPERTY NeverTwice
