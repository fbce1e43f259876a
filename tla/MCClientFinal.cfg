SPECIFICATION Spec
CONSTANTS AutoReconnect = TRUE MaxGen = 2
INVARIANTS DisconnectIsFinal
CHECK_DEADLOCK FALSE
