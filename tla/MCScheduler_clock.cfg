CONSTANTS
    w1 = w1
    w2 = w2
    j = j
    Workers = {w1, w2}
    NoOne = NoOne
    Ghost = Ghost
    Jobs = {j}
    Times = {1, 8}
    often = often
    once = once
    Crons = {often, once}
    FiresOf <- Calendar
    Horizon = 8
    Ttl = 3
    Limit = 1
    Stallers = {}
    Steady = {w2}
    MaxExits = 1
    MaxFaults = 1
SPECIFICATION FairSpec
CHECK_DEADLOCK FALSE
INVARIANTS
    AtMostOnce
    LeaderHoldsLease
    NextIsArmed
PROPERTIES
    LeadershipIsStable
    LateNotLost
    NoneSkipped
