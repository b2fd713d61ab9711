CONSTANTS
    c1 = c1
    c2 = c2
    c3 = c3
    dA = dA
    dB = dB
    dC = dC
    Conn = {c1, c2}
    Device = {dA, dB}
    Carries <- TwoClients
    MaxSnapshot = 2
    MaxAdverts = 2
    MaxFailures = 1
    MayUplink = {}
    NoConn = NoConn
    NoDevice = NoDevice
SPECIFICATION FairSpec
PROPERTIES
    FreshestAdvertHolds
    AdvertsReachEveryClient
    DeadConnectionsAreForgotten
CHECK_DEADLOCK FALSE
