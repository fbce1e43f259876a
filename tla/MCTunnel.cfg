SPECIFICATION Spec
CONSTANTS
    a = a
    b = b
    Clients = {a, b}
    MaxGen <- MCMaxGen
    MaxEpoch = 2
    MaxTraffic = 2
    MaxHosts = 5
INVARIANTS TypeOK PoolTypeOK ExhaustedUpToLast HandshakeAgreement ClientsApart
    UndecryptedAreOfAnotherServer OwnTrafficOnly FirstHandshakeUndisturbed
PROPERTIES RoundRobin
CHECK_DEADLOCK FALSE
