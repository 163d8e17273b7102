SPECIFICATION Spec
CONSTANTS
    MaxToken = 2
    Racing = FALSE
PROPERTY LoginKept
CHECK_DEADLOCK FALSE
