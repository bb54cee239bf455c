SPECIFICATION Spec
CONSTANTS
  None = None
  Names <- MCNames
  Scripts <- MCScripts
INVARIANT TypeOK
 
INVARIANT NoFalseAlarm
INVARIANT AtomsDefined
PROPERTY ImplementsMeaning
