SPECIFICATION DeliverySpec
CONSTANTS
    a = a
    b = b
    Conn = {a, b}
    Openers = {a}
    Resumers = {b}
    Chunks = 2
    Length <- ShortAndLong
    Windows = {2, 3}
    Payload <- MCPayload
    Config <- MCConfig
    Entry <- MCEntry
INVARIANTS
    AckIsDurable
    CompleteIsWhole
    CollectedIsWhatWasSent
PROPERTIES
    OneConnectionDelivers
CHECK_DEADLOCK FALSE
