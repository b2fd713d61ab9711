CONSTANTS
    c1 = c1
    c2 = c2
    c3 = c3
    dA = dA
    dB = dB
    dC = dC
    Conn = {c1, c2, c3}
    Device = {dA, dB, dC}
    Carries <- OneDeviceEach
    MaxSnapshot = 1
    MaxAdverts = 1
    MaxFailures = 1
    MayUplink = {c3}
    NoConn = NoConn
    NoDevice = NoDevice
SYMMETRY ClientSymmetry
VIEW OrderFreeView
SPECIFICATION Spec
INVARIANTS
    EveryoneCaughtUp
    
    
CHECK_DEADLOCK FALSE
