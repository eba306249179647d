CONSTANTS
  Retries = 2
  MaxPages = 2
  MaxPushes = 1
SPECIFICATION FairSpec
INVARIANTS TypeOK AllOrNothing UnavailableBeforeCI EvidenceOfHead
PROPERTIES EventuallyEnds
CHECK_DEADLOCK FALSE
