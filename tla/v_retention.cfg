SPECIFICATION Spec
CONSTANTS
  Messages = {m1}
  Purges = {p1}
  BatchSize = 1
  MaxFaults = 1
CHECK_DEADLOCK FALSE
PROPERTIES
  InFlightIsNotPurged
