CONSTANTS
  Retries = 2
  MaxPages = 2
  MaxPushes = 1
SPECIFICATION Spec
INVARIANTS FilesOfHead
CHECK_DEADLOCK FALSE
