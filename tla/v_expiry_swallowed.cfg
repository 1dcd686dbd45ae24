SPECIFICATION PipelineFairSpec
CONSTANTS
  Messages = {m1}
  Workers = {w1}
  Operators = {}
  Attempts = {a1, a2, a3}
  ProviderOrder <- TwilioOnly
  MaxRetryRounds = 1
  MaxCutShort = 0
  None = None
  Relays = {r1}
  BatchSize = 1
  Faults = {"wrong processor"}
  MaxFaults = 1
CHECK_DEADLOCK FALSE
PROPERTIES
  NothingIsParkedForEver
