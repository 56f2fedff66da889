SPECIFICATION FairSpec
CONSTANTS
  Page = {p1, p2, p3}
  Mark = {m1}
  Byte = {nl}
  NL = nl
  NIL = NIL
  PGSIZE = 2
  MaxText = 4
  MaxMove = 3
  MaxDelete = 2
  CrossPage = FALSE
PROPERTY CallsReturnOffSeam
