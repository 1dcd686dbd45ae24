SPECIFICATION FairSpec
CONSTANTS
  Requests = {r1, r2, r3}
  Keys = {k1}
  TTL = 3
  MaxAge = 2
  MaxTime = 7
  None = None
CHECK_DEADLOCK FALSE
INVARIANTS
  AcceptanceTypeOK
  OneMessagePerTerm
  RepliesAreLive
  ConflictIsAbsorbed
  NobodyWaitsInVain
PROPERTIES
  ImplementsIdempotency
  RequestsAreShort
  RequestsFinish
