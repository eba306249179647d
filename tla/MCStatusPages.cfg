CONSTANTS
  Spelling = {"ci", "CI", "lint"}
  Key = {"ci", "lint"}
  Fold <- MCFold
  NoContext = "none"
  PageSize = 2
  MaxPages = 3
  Initial = 3
  MaxReports = 5
SPECIFICATION Spec
INVARIANTS TypeOK NeverOutdated OnePerContext NoContextLost
CHECK_DEADLOCK FALSE
