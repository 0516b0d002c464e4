\* Two restaurants, two rows, three presses.
SPECIFICATION FairSpec
CONSTANTS
  Restaurants = {r1, r2}
  Options = {o1, o2}
  Coupons = {k1}
  None = None
  Asked = Asked
  Kept = {r1}
  MaxChosen = 1
  MaxItems = 2
  MaxQuantity = 2
  MaxPresses = 3
  MaxCalls = 2
  MaxLapses = 1
INVARIANTS
  ShownCartIsServed
  SoldOnce
  PaymentLinesAddUp
PROPERTIES
  PreviewSettles
CHECK_DEADLOCK FALSE
