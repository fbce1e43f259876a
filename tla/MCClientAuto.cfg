SPECIFICATION Spec
CONSTANTS AutoReconnect = TRUE MaxGen = 2
INVARIANTS TypeOK OneConnector RetryAlive ReceiverAlive
CHECK_DEADLOCK FALSE
