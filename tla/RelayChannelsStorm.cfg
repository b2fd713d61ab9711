SPECIFICATION Spec
CONSTANTS
    a = a
    b = b
    Device = {a, b}
    Halves = {1, 2, 3, 4, 5, 6, 7, 8}
    MaxFrames = 0
    Disturbances = {"forget"}
    MaxDisturbances = 1
CHECK_DEADLOCK FALSE
PROPERTY HellosEnd
