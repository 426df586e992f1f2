CONSTANTS
    w1 = w1
    w2 = w2
    Workers = {w1, w2}
    NoOne = NoOne
    Streams = {1, 2}
    External = {}
    MaxId = 1
    Coincide = TRUE
    ReadSets = {{1, 2}}
    Concurrency = 1
    MaxDeliveries = 1
    Knowing = {w1, w2}
    Stallers = {}
    Crashers = {}
    Stoppers = {}
    MaxFaults = 0
SPECIFICATION Spec
CHECK_DEADLOCK FALSE
PROPERTIES
    LiveWorkKept
