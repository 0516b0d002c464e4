\* One status change, and no fault in its publication.
SPECIFICATION Spec
CONSTANTS
  Changes = {c1}
  Records = {}
  JobIds = {1}
  MaxTries = 3
  MaxRetries = 10
  MaxFaults = 0
INVARIANT ChangeKeepsItsEvent
CHECK_DEADLOCK FALSE
