\* A status change and a recorded event, each published by up to two jobs.
SPECIFICATION FairSpec
CONSTANTS
  Changes = {c1}
  Records = {r1}
  JobIds = {1, 2}
  MaxTries = 2
  MaxRetries = 2
  MaxFaults = 2
INVARIANTS
  TypeOK
  PublishedReachedEveryone
  ExtraOnlyAfterFault
  StrandedOnlyByFault
PROPERTIES
  EventuallyPublished
CHECK_DEADLOCK FALSE
