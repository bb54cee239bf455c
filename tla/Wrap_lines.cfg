SPECIFICATION FairSpec
CONSTANTS
  Texts <- ShortTexts
  Cols = 4
  MaxItems = 6
  Lengths = {1, 2, 3, 5}
INVARIANT TypeOK
INVARIANT LineFits
INVARIANT TextKept
PROPERTY BreaksOnlyFullLines
PROPERTY Ends
