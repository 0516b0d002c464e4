\* Three addresses, three notifications, two targets, five presses, one answer lost (three of both in the inbox).
SPECIFICATION Spec
CONSTANTS
  MaxAddresses = 3
  MaxNotes = 3
  InboxMax = 2
  Targets = {shop, courier}
  Restaurant = shop
  Ratings = {1, 5}
  MaxPresses = 5
  MaxLapses = 1
CONSTRAINT OnePart
INVARIANTS
  AddressesAgree
  InboxAgrees
  RatingIsKept
CHECK_DEADLOCK FALSE
