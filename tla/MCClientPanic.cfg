SPECIFICATION Spec
CONSTANTS AutoReconnect = FALSE MaxGen = 1
INVARIANTS PanicCleansUp
CHECK_DEADLOCK FALSE
