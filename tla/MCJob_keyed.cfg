CONSTANTS
    plain = plain
    keyed = keyed
    twin = twin
    broken = broken
    key = key
    new = new
    old = old
    Jobs = {keyed}
    Workers = {new, old}
    NoOne = NoOne
    Knowing = {new}
    Undecodable = {}
    Waited = {}
    Keys = {key}
    NoKey = NoKey
    KeyOf <- KeyOfJob
    Slots = {1, 2}
    MaxJobs = 1
    MaxAttempts = 2
    MaxDeliveries = 1
    UnknownTimeout = 0
    MaxCrashes = 0
    MaxFaults = 0
SPECIFICATION Spec
CHECK_DEADLOCK FALSE
INVARIANTS
    KeyedWorkNotLost
