CONSTANTS
  Run = {"app", "ci", "own"}
  Context = {"jenkins"}
  Own = {"own"}
  Conclusion = {"success"}
  Timeout = 3
  Poll = 2
  Quiescence = 2
  Reopened = {"app"}
  MaxClock = 3
  MaxChanges = 5
  MaxHeadMoves = 1
SPECIFICATION FairSpec
INVARIANTS TypeOK WitnessedSetUnchanged
PROPERTIES ImplementsObservation EventuallyAnswers
CHECK_DEADLOCK FALSE
