CONSTANTS
  N = 3
  Number = {8, 9}
  File = {"f1", "f2"}
  Issue = {7, 8}
  Given = {"REVIEW_READY", "NEEDS_ATTENTION"}
SPECIFICATION Spec
INVARIANTS TypeOK WaitExactly OverlapsExactly
CHECK_DEADLOCK FALSE
