SPECIFICATION Spec
CONSTANTS
  NIL = NIL
  Tabsize = 3
  Colmax = 11
  COLMAX = 12
  FillWidth = 4
  SpaceTab = FALSE
  Access <- MCAccess
  Texts <- MCTexts
  Junk <- MCJunk
  MaxSteps <- MCSteps
CHECK_DEADLOCK FALSE
INVARIANT HomeAgain
INVARIANT YankRestores
 
PROPERTY WordsKept
PROPERTY FillFits
PROPERTY BraceAligned
