SPECIFICATION Spec
CONSTANTS
  o1 = o1
  o2 = o2
  i1 = i1
  i2 = i2
  i3 = i3
  Orders = {o1}
  Items = {i1, i2}
  Of <- MCOf
  Start <- MCStart
  None = None
  MaxPresses = 1
  MaxVisits = 1
  MaxMoves = 0
  MaxLapses = 0
CONSTRAINT Narrow
PROPERTY LoggedOutStays
CHECK_DEADLOCK FALSE
