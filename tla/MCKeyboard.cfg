SPECIFICATION FairSpec
CONSTANTS
  Byte = {"ESC", "[", "O", "A", "P"}
  ESC = "ESC"
  CapO = "O"
  NUL = "NUL"
  Special = {"up", "delete"}
  Tkeys0 <- MCTkeys
  Rewrite <- MCRewrite
  CSTACK = 4
  Burst = 2
INVARIANT NothingLost
PROPERTY InOrder
PROPERTY SpecialsEnd
