SPECIFICATION Spec
CONSTANTS MaxDepth = 3 DebugMenuEnabled = FALSE Rapid = FALSE
INVARIANTS LocalStaysLocal
CHECK_DEADLOCK FALSE
