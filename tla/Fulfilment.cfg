\* One order, two couriers whose requests interleave, two attempts, one crash.
SPECIFICATION Spec
CONSTANTS
  Orders = {o1}
  Couriers = {c1, c2}
  Requests = {r1, r2}
  None = None
  MaxAttempts = 2
  MaxCrashes = 1
CONSTRAINT OneTrouble
SYMMETRY Symmetry
INVARIANTS
  TypeOK
  MoneyFollowsOrder
  UnpaidOrderStays
  StatusesAgree
  GivenUpIsCancelled
  AcceptedIsAssigned
  OneLiveOffer
PROPERTY
  KeepsPromise
