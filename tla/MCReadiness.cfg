CONSTANTS
  N = 3
  Repository = {"o/a", "o/b", "a", "None"}
  None = None
  WellFormed = {"o/a", "o/b"}
  Sha = {"m", "old", "new", "h"}
  Number = {0, 8, 9, 10}
  File = {"f", "p"}
  Protected = {"p"}
  Label = {"bug", "long-lived"}
  StaleLabel = {"long-lived"}
  Issue = {7}
  Error = {"E"}
  Batch <- MCBatch
SPECIFICATION Spec
INVARIANTS TypeOK ReadyExactly GenuineAccepted AmbiguousIsIncomplete
CHECK_DEADLOCK FALSE
