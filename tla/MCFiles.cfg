SPECIFICATION Spec
CONSTANTS
  Bufflist <- MCBufflist
  SYSBUFF = {}
  f = f
  g = g
  File = {f, g}
  Fname <- MCFname
  Had <- MCHad
  Linked <- MCLinked
  NIL = NIL
  NONE = NONE
  MaxTexts = 4
  MaxTime = 2
  MaxCalls = 2
CHECK_DEADLOCK FALSE
INVARIANT CleanOnDisk
 
PROPERTY WarnedBeforeLoss
PROPERTY CallEnds
