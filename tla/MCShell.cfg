SPECIFICATION FairSpec
CONSTANTS
  Zbuff = {z1, z2}
  Pid = {c1, c2}
  NIL = NIL
  CHUNK = 2
  MaxFill = 2
  MaxOut = 3
  MaxHits = 1
  MaxHeirs = 1
  MaxAhead = 1
CHECK_DEADLOCK FALSE
INVARIANT NoLostChild
 
 
PROPERTY AllOutput
PROPERTY Reaped
