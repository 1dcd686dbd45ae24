SPECIFICATION WebhooksSpec
CONSTANTS
  Messages = {m1}
  Workers = {w1}
  Operators = {o1}
  Attempts = {a1}
  ProviderOrder <- TwilioThenBird
  MaxRetryRounds = 1
  MaxCutShort = 0
  None = None
  Handlers = {h1}
  RawStatuses = {"delivered"}
  Configured <- Both
  MaxReports = 1
CHECK_DEADLOCK FALSE
INVARIANT CallbackFindsAwaiting
