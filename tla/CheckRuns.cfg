CONSTANTS
  Job = {"test", "rie", "app"}
  OwnJob = "rie"
  Foreign = {"app"}
  PageSize = 1
  MaxPages = 4
  Initial = 2
  MaxRuns = 3
SPECIFICATION Spec
INVARIANTS TypeOK NoFailureMissed CountedFailuresAreReal TerminalJudgesWhatEnded
INVARIANTS OwnEvidenceAccepted
CHECK_DEADLOCK FALSE
