CONSTANTS
  WellFormed = {"o/a"}
  None = None
  File = {"a", "b", "c", "d"}
  Graph <- MCGraph
  Matched <- MCMatched
  FactKind = {"EMPTY_EXCEPTION_HANDLER", "SUBPROCESS_CALL", "RELATED_TEST_CHANGED"}
  TestPath = {"test_p"}
  Subject <- MCSubject
  Inputs <- MCInputs
SPECIFICATION Spec
INVARIANTS ImpactTypeOK ImpactExactly NothingDropped ImpactAccepted
INVARIANTS NoChangeSilent GuardDirection ObservationsKept CandidatesKept
INVARIANTS GatesClear SystemicExactly DecidedByRuns AcceptedExactly
CHECK_DEADLOCK FALSE
