SPECIFICATION TimeoutsSpec
CONSTANT MaxWait = 2
INVARIANT ZeroNeverTimesOut
CHECK_DEADLOCK FALSE
