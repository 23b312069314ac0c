SPECIFICATION ListSpec
CONSTANTS
  Rpcs = {r1, r2, r3}
  MinimalProvidersCount = 2
  RateNum = 1
  RateDen = 2
  MaxCalls = 3
INVARIANTS
  ListTypeOK
  TimersArmed
  EnoughHealthy
PROPERTIES
  EventuallyReviewed
