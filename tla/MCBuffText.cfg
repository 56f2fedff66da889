SPECIFICATION HSpec
CONSTANTS
  Page = {p1, p2, p3}
  Mark = {m1, m2}
  Byte = {a, nl}
  NL = nl
  NIL = NIL
  PGSIZE = 2
  MaxText = 4
  MaxMove = 3
  MaxDelete = 2
  CrossPage = FALSE
SYMMETRY Symmetry
INVARIANT BuffInv
 
PROPERTY TextSpec
