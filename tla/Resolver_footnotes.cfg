SPECIFICATION Spec
CONSTANTS
  Scripts <- Footnotes
  StackSize = 4
  MaxDepth = 16
  MaxReps = 1
INVARIANT VariablesReadable
