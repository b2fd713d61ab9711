SPECIFICATION LinksSpec
CONSTANTS
    a = a
    b = b
    Device = {a, b}
    Halves = {1, 2, 3, 4, 5, 6, 7, 8}
    MaxFrames = 2
    Disturbances = {"forget", "reset", "fail", "lose", "repeat", "spoil"}
    MaxDisturbances = 1
    MaxFrame = 4
    Transport <- MCTransport
    Serving = 2
    Advertised = 3
    LastTick = 10
    Call = {1, 2, 3}
    Timed = {2}
    DataCall = {3}
    Task = {1}
INVARIANTS
    OpenedInOrder
    ReaderSeesItAll
    ListsOutliveRotations
    
PROPERTIES
    UndisturbedAgree
CHECK_DEADLOCK FALSE
