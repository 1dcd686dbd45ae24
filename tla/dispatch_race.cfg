SPECIFICATION Spec
CONSTANTS
  Messages = {m1, m2}
  Workers = {w1, w2}
  Operators = {o1, o2}
  Attempts = {a1, a2, a3}
  ProviderOrder <- TwilioThenBird
  MaxRetryRounds = 1
  MaxCutShort = 1
  None = None
SYMMETRY Symmetry
CHECK_DEADLOCK FALSE
INVARIANTS
  TypeOK
  OnlyCutShortCallsDuplicate
  OpenAttemptBlocksDispatch
  SentIsCorrelated
  OneResolutionPerMessage
PROPERTIES
  ResolutionsImmutable
  ImplementsStatusSpec
  KeepsPromise
