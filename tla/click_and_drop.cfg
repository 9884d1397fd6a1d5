SPECIFICATION CDSpec
CONSTANTS
  o1 = o1
  None = None
  Faults = TRUE
  Orders = {o1}
  Cards = {c1}
  Workers = {p1, p2}
  Sweepers = {w1}
  Retriers = {w2}
  Imports = {i1, i2, i3}
  OrderOf <- MCOrderOf
  Destination <- MCDestination
SYMMETRY MCSymmetry
INVARIANTS
  RecordedImportsAreRecalled
