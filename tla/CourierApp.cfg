\* Two deliveries offered to one courier, one lapse.
SPECIFICATION Spec
CONSTANTS
  Deliveries = {d1, d2}
  None = None
  MaxCalls = 2
  MaxToggles = 1
  MaxLapses = 1
SYMMETRY DeliverySymmetry
INVARIANTS
  ActiveIsMine
  OnlyLapsesForget
  PhaseNotAhead
CHECK_DEADLOCK FALSE
