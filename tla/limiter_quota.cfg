SPECIFICATION FairSpec
CONSTANTS
  Calls = {c1, c2, c3, c4}
  Providers = {twilio, bird}
  Limit = 1
  Window = 2
INVARIANTS
  LimiterTypeOK
  LimitHoldsBeforeTheEnd
  SleepersWakeWithTheWindow
PROPERTIES
  WaitsOnlyWhenExhausted
  CallsAreServed
