SPECIFICATION Spec
CONSTANT MaxRuns = 1
INVARIANT BangAssert
CHECK_DEADLOCK FALSE
