SPECIFICATION ThresholdSpec
CONSTANTS
    p1 = p1
    p2 = p2
    m1 = m1
    m2 = m2
    Participant = {p1, p2}
    Loop = {l1, l2}
    Coordinator = {c1}
    SessionId = {1}
    Subject = {m1, m2}
    Authorises <- AuthorisesValue
    Threshold = 2
    MaxNonce = 2
    None = None
    Exposed = {p1}
    Setup <- MCSetup
    Ceremony <- MCCeremony
    TakesOver = {3}
INVARIANTS
    NonceUsedOnce
    SignatureIsAuthorised
    
    
    NobodyWaitsForEver
PROPERTIES
    FailsClosed
CHECK_DEADLOCK FALSE
