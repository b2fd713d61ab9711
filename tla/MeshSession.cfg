SPECIFICATION Spec
CONSTANTS
    a = a
    b = b
    direct = direct
    relayed = relayed
    patient = patient
    Link = {a, b}
    Request = {direct, relayed, patient}
    Relayed = {relayed, patient}
    Timed = {direct, relayed}
    MaxAttempts = 1
CHECK_DEADLOCK FALSE
PROPERTY ClosedStaysClosed
PROPERTY LivelyPeerIsRedialled
PROPERTY SilentPeerIsGivenUp
PROPERTY TimedSettleUnlessGivenUp
