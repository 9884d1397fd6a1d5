SPECIFICATION Spec
CONSTANTS
  o1 = o1
  o2 = o2
  cron = cron
  hand = hand
  q1 = q1
  Row = {o1, o2}
  Run = {cron, hand}
  Cron = cron
  Request = {q1}
  Birthday = {2, 3}
  Year = 4
  LastDay = 3
  Lookahead = 1
  Lead = 1
  MaxActs = 2
SYMMETRY Symmetry
CHECK_DEADLOCK FALSE
INVARIANT
  CalledOff
