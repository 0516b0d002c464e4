\* One channel, one message, one switch of account, one fault.
SPECIFICATION FairSpec
CONSTANTS
  Users = {u1, u2}
  NoUser = NoUser
  Channels = {c1}
  Base = {}
  Texts = {t1}
  MaxSockets = 3
  MaxCalls = 2
  MaxSwitches = 1
  MaxFaults = 1
INVARIANTS
  TypeOK
  AckMeansSaved
  SavedUnderAuthor
  QuietMeansJoined
PROPERTIES
  EventuallySubscribed
CHECK_DEADLOCK FALSE
