SPECIFICATION Spec
CONSTANTS
  NIL = NIL
  Tabsize = 8
  Colmax = 80
  COLMAX = 100
  W = 16
  MAX_OPS = 4
  PAWMAX = 8
  Parts <- MCParts
  Arrays <- MCArrays
  Defaults <- MCDefaults
  Keys <- MCKeys
  Yanks <- MCYanks
  Exprs <- MCExprs
  Cwds <- MCCwds
  MaxKeys <- MCMaxKeys
  Tree <- MCTree
  Users <- MCUsers
  Home <- MCHome
  Env <- MCEnv
CHECK_DEADLOCK FALSE
INVARIANT PickedIsNamed
 
INVARIANT PathFixed
INVARIANT CalcRight
