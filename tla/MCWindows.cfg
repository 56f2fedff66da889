SPECIFICATION Spec
CONSTANTS
  NIL = NIL
  Buffer <- MCBuffer
  MAINBUFF = "Main"
  LISTBUFF = "*list*"
  PAW = "*paw*"
  Rank <- MCRank
  Place = {1, 2}
  MINWDO = 5
  BOOKMARKS = 2
  Rows = {14, 18}
  Args <- MCArgs
  GrowBy = {1}
  MaxWindows = 4
  MaxSteps = 6
CHECK_DEADLOCK FALSE
 
 
PROPERTY ReturnsToPlace
