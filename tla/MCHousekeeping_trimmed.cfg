CONSTANTS
    high = high
    low = low
    foreign = foreign
    w1 = w1
    w2 = w2
    Workers = {w1, w2}
    Mortal = {}
    Keepers = {w1}
    Queues <- OneQueue
    External <- NoForeign
    Depth <- DeepQueue
    Backlog = 2
    FairnessEvery = 2
    NoOne = NoOne
SPECIFICATION Spec
INVARIANTS
    PendingIsKept
