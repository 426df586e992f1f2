CONSTANTS
    high = high
    low = low
    foreign = foreign
    w1 = w1
    w2 = w2
    Workers = {w1, w2}
    Mortal = {w2}
    Keepers = {w1}
    Queues <- TwoQueues
    External <- OneForeign
    Depth <- LowIsDeep
    Backlog = 2
    FairnessEvery = 2
    NoOne = NoOne
SPECIFICATION Spec
INVARIANTS
    NoneStranded
    PromptIsKept
    LowestIsAsked
PROPERTIES
    OnlyOldIsTrimmed
