CONSTANTS
    w1 = w1
    w2 = w2
    Workers = {w1}
    NoOne = NoOne
    Streams = {1}
    External = {}
    MaxId = 1
    Coincide = FALSE
    ReadSets = {{1}}
    Concurrency = 1
    MaxDeliveries = 1
    Knowing = {w1}
    Stallers = {}
    Crashers = {w1}
    Stoppers = {}
    MaxFaults = 0
SPECIFICATION Spec
CHECK_DEADLOCK FALSE
PROPERTIES
    OrphansTakenBack
