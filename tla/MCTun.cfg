SPECIFICATION Spec
CONSTANTS
    MaxDevs = 2
    OSes = {"linux", "darwin"}
    Roles = {"client", "server"}
INVARIANTS
    TypeOK
    RoutesAfterClose
    DNSRestored
    LoopCauses
CHECK_DEADLOCK FALSE
