SPECIFICATION Spec
CONSTANTS
    a = a
    b = b
    Clients = {a, b}
    MaxGen <- MCMaxGen
    MaxEpoch = 2
    MaxTraffic = 1
    MaxHosts = 5
INVARIANT NewKeysPerSession
CHECK_DEADLOCK FALSE
