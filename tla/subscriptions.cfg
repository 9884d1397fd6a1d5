SPECIFICATION FairSpec
CONSTANTS
  Subs = {s1, s2}
  Checkouts = {r1}
  Changers = {c1}
  Seats = {0, 1}
  Horizon = 2
  MaxEvents = 2
  None = None
INVARIANTS
  RowFollowsStripe
  SeatsFollowStripe
PROPERTIES
  NoResurrection
  RowCatchesUp
CHECK_DEADLOCK FALSE
