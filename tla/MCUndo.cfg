SPECIFICATION Spec
CONSTANTS
  Page = {p1, p2, p3}
  Mark = {t}
  Tmark = t
  Byte = {a, nl}
  NL = nl
  NIL = NIL
  PGSIZE = 2
  MaxText = 4
  MaxDelete = 1
  MaxUndo = 4
  Plain = TRUE
  NoMemory = TRUE
SYMMETRY Symmetry
CHECK_DEADLOCK FALSE
INVARIANT RecordExact
PROPERTY UndoRemoves
 
