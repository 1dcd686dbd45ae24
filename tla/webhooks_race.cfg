SPECIFICATION WebhooksSpec
CONSTANTS
  Messages = {m1, m2}
  Workers = {w1, w2}
  Operators = {o1}
  Attempts = {a1, a2}
  ProviderOrder <- TwilioThenBird
  MaxRetryRounds = 1
  MaxCutShort = 1
  None = None
  Handlers = {h1, h2}
  RawStatuses = {"delivered", "failed", "sent"}
  Configured <- Both
  MaxReports = 3
SYMMETRY Symmetry
CHECK_DEADLOCK FALSE
INVARIANTS
  WebhooksTypeOK
  AckedIsHeld
  ReportedIsIssued
PROPERTIES
  ImplementsDispatch
