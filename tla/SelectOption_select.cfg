SPECIFICATION FairSpec
CONSTANTS
  NumOptions = 3
  IntMax = 63
  Modes = {"plain", "unique"}
  MaxCalls = 6
INVARIANT TypeOK
INVARIANT WalkStaysInList
INVARIANT EveryOtherSelectable
INVARIANT TakesDrawnOption
PROPERTY AntiSeriality
PROPERTY CallReturns
