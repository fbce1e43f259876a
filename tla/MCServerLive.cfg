SPECIFICATION FairSpec
CONSTANTS
    c1 = c1
    c2 = c2
    i1 = i1
    i2 = i2
    Conns = {c1, c2}
    SessionIDs = {i1, i2}
    FreshIDs = TRUE
    MaxHosts = 4
    Backlog = 1
    SendBuf = 1
    NoConn = NoConn
    NoID = NoID
    NoHost = NoHost
PROPERTIES PeerGoneFreesAddress HandshakeCompletes StopCompletesIfPeersLeave
CHECK_DEADLOCK FALSE
