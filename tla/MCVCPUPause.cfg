SPECIFICATION Spec
CONSTANT MaxVCPUs = 2
CHECK_DEADLOCK FALSE
INVARIANT PausedStaysOut
