\* An order under way and a new one, one lapse.  Nothing is claimed of a state in which an
\* answer was overtaken, nor of those after it: they are left out.
SPECIFICATION Spec
CONSTANTS
  Orders = {o1, o2}
  None = None
  Old = {o1}
  MaxPresses = 2
  MaxLapses = 1
CONSTRAINT Narrow
INVARIANTS
  TrackingCatchesUp
  ActiveIsNotOver
  HistoryKnowsTheEnd
CHECK_DEADLOCK FALSE
