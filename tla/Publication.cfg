CONSTANT MaxSteps = 2
SPECIFICATION Spec
INVARIANTS TypeOK SuccessIsWhole DigestOfFile
CHECK_DEADLOCK FALSE
