SPECIFICATION PipelineFairSpec
CONSTANTS
  Messages = {m1}
  Workers = {w1, w2}
  Operators = {}
  Attempts = {a1, a2, a3, a4}
  ProviderOrder <- TwilioOnly
  MaxRetryRounds = 1
  MaxCutShort = 0
  None = None
  Relays = {r1}
  BatchSize = 1
  Faults = {"crash", "crash in call", "stall", "job fails", "wrong processor", "requeue"}
  MaxFaults = 1
CHECK_DEADLOCK FALSE
INVARIANTS
  PipelineTypeOK
  StartIntentKept
  ExpiryIntentKept
  RetryRoundsBounded
PROPERTIES
  ImplementsDispatch
  AcceptedIsDecided
  ParkedIsFinalized
