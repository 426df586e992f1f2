CONSTANTS
    w1 = w1
    w2 = w2
    Workers = {w1, w2}
    NoOne = NoOne
    Streams = {1, 2}
    External = {2}
    MaxId = 1
    Coincide = FALSE
    ReadSets = {{1}, {2}}
    Concurrency = 1
    MaxDeliveries = 1
    Knowing = {w1}
    Stallers = {}
    Crashers = {w1, w2}
    Stoppers = {w1, w2}
    MaxFaults = 2
SPECIFICATION Spec
CHECK_DEADLOCK FALSE
INVARIANTS
    TypeOK
    DeliveryInv
    SlotsMatchTasks
    DeadLettersDoNotRun
    
    NoLostWakeup
PROPERTIES
    NoSecondTask
    ImplementsLease
