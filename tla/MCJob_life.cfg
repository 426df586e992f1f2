CONSTANTS
    plain = plain
    keyed = keyed
    twin = twin
    broken = broken
    key = key
    new = new
    old = old
    Jobs = {plain, keyed, broken}
    Workers = {new, old}
    NoOne = NoOne
    Knowing = {new}
    Undecodable = {broken}
    Waited = {plain}
    Keys = {key}
    NoKey = NoKey
    KeyOf <- KeyOfJob
    Slots = {1, 2, 3}
    MaxJobs = 1
    MaxAttempts = 2
    MaxDeliveries = 1
    UnknownTimeout = 0
    MaxCrashes = 1
    MaxFaults = 1
SPECIFICATION FairSpec
CHECK_DEADLOCK FALSE
INVARIANTS
    NoJobLost
    WaiterTold
    
    
PROPERTIES
    JobEnds
