SPECIFICATION Spec
CONSTANTS
  o1 = o1
  o2 = o2
  i1 = i1
  i2 = i2
  i3 = i3
  Orders = {o1, o2}
  Items = {i1, i2, i3}
  Of <- MCOf
  Start <- MCStart
  None = None
  MaxPresses = 2
  MaxVisits = 1
  MaxMoves = 1
  MaxLapses = 1
CONSTRAINT Narrow
INVARIANTS
  PageCatchesUp
  ItemsFollowOrder
  ReadyTogether
CHECK_DEADLOCK FALSE
