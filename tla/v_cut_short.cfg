SPECIFICATION Spec
CONSTANTS
  Messages = {m1}
  Workers = {w1}
  Operators = {o1}
  Attempts = {a1, a2}
  ProviderOrder <- TwilioThenBird
  MaxRetryRounds = 1
  MaxCutShort = 1
  None = None
CHECK_DEADLOCK FALSE
INVARIANT NoDuplicateDelivery
