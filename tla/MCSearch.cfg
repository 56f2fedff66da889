SPECIFICATION Spec
CONSTANTS
  NIL = NIL
  Tabsize = 8
  Colmax = 80
  COLMAX = 100
  LINE = 6
  STRMAX = 3
  Parts <- MCParts
  Starts <- MCStarts
  Strings <- MCStrings
  News <- MCNews
  Junk <- MCJunk
  MaxSteps <- MCSteps
  MaxKeys = 4
  MaxText = 6
CHECK_DEADLOCK FALSE
 
 
PROPERTY AgainComesRound
 
 
