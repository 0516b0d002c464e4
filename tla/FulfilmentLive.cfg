\* One order, two couriers, nobody dies.
SPECIFICATION FairSpec
CONSTANTS
  Orders = {o1}
  Couriers = {c1, c2}
  Requests = {r1}
  None = None
  MaxAttempts = 2
  MaxCrashes = 0
PROPERTIES
  PendingPaymentSettles
  OpenOfferSettles
  ExhaustedIsGivenUp
