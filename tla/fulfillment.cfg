SPECIFICATION Spec
CONSTANTS
  o1 = o1
  Orders = {o1}
  Cards = {c1, c2}
  Workers = {p1, p2}
  OrderOf <- MCOrderOf
  Destination <- MCDestination
SYMMETRY MCSymmetry
INVARIANTS
  TypeOK
  RefundedCardsAreStopped
  RacedCardsAreReported
  CompletedMeansDelivered
  OccasionFollowsCard
PROPERTIES
  ClosedOrdersStayClosed
