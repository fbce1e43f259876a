SPECIFICATION FairSpec
CONSTANTS
    c1 = c1
    i1 = i1
    Conns = {c1}
    SessionIDs = {i1}
    FreshIDs = TRUE
    MaxHosts = 4
    Backlog = 1
    SendBuf = 1
    NoConn = NoConn
    NoID = NoID
    NoHost = NoHost
PROPERTIES StopTerminates
CHECK_DEADLOCK FALSE
