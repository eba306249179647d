CONSTANTS
  Retries = 2
  MaxPages = 2
  MaxPushes = 0
SPECIFICATION Spec
INVARIANTS RateLimitNeverPasses
CHECK_DEADLOCK FALSE
