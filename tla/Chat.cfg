\* Two texts, one failure, three messages stored within two seconds, windows that keep two.
SPECIFICATION ChatSpec
CONSTANTS
  Texts = {t1, t2}
  NoText = NoText
  Limit = 2
  Page = 1
  MaxMessages = 3
  MaxTime = 1
  MaxOpens = 2
  MaxFaults = 1
CONSTRAINT Narrow
SYMMETRY TextSymmetry
INVARIANTS
  ShownOnce
  OpenWindowSeesAll
  SentOnce
CHECK_DEADLOCK FALSE
