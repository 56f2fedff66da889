SPECIFICATION BulkSpec
CONSTANTS
  Page = {p1, p2, p3}
  Mark = {m1}
  Byte = {nl, cr}
  NL = nl
  CR = cr
  NIL = NIL
  PGSIZE = 2
  MaxText = 3
  MaxMove = 1
  MaxDelete = 1
  CrossPage = FALSE
  MAX_IOVS = 2
  Data <- MCData
  Region <- MCRegion
SYMMETRY Symmetry
INVARIANT BulkInv
PROPERTY Inserted
PROPERTY WritesText
