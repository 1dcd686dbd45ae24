SPECIFICATION FairSpec
CONSTANTS
  Messages = {m1, m2}
  Purges = {p1, p2}
  BatchSize = 2
  MaxFaults = 1
CHECK_DEADLOCK FALSE
INVARIANTS
  RetentionTypeOK
PROPERTIES
  PurgedAreFinished
  ExpiredArePurged
