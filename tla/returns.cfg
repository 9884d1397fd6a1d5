SPECIFICATION Spec
CONSTANTS
  Cards = {c1, c2, c3}
  Ordered = {c1}
  Requests = {r1, r2}
  Addresses = {old, new}
  Old = old
  Supplied = {new, old}
  Business = new
  None = None
SYMMETRY MCSymmetry
INVARIANTS
  TypeOK
  OneFreeCard
PROPERTIES
  NothingFollowsAReturn
CHECK_DEADLOCK FALSE
