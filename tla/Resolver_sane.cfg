SPECIFICATION Spec
CONSTANTS
  Scripts <- AllScripts
  StackSize = 4
  MaxDepth = 11
  MaxReps = 2
INVARIANT NoFault
INVARIANT NoSharedText
INVARIANT HeldTextsLive
INVARIANT StackBalanced
INVARIANT TextInv
INVARIANT OutputAsDocumented
PROPERTY OuterOperandsKept
PROPERTY ImplementsDerivation
