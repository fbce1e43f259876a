SPECIFICATION FairSpec
CONSTANTS AutoReconnect = FALSE MaxGen = 1
INVARIANT CleanDisconnect
PROPERTIES DisconnectReturns LossIsNoticed
CHECK_DEADLOCK FALSE
