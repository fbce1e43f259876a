SPECIFICATION Spec
CONSTANTS
    c1 = c1
    c2 = c2
    c3 = c3
    i1 = i1
    i2 = i2
    i3 = i3
    Conns = {c1, c2, c3}
    SessionIDs = {i1, i2, i3}
    FreshIDs = TRUE
    MaxHosts = 5
    Backlog = 1
    SendBuf = 1
    NoConn = NoConn
    NoID = NoID
    NoHost = NoHost
SYMMETRY Symmetry
INVARIANTS TypeOK AddressesDistinct PoolExact RoutedAreLive Reachable StoppedClean
PROPERTIES ImplementsAddressLease
CHECK_DEADLOCK FALSE
