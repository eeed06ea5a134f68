SPECIFICATION FairSpec
CONSTANTS
    Items = {1, 2, 3}
    Drains = {d1, d2}
    Operators = {}
    Ceiling = 1
    MaxCost = 1
    MaxEvents = 0
    Faults = {}
    NoItem = NoItem
    d1 = d1
    d2 = d2
    o1 = o1
    o2 = o2
INVARIANTS
    SoftCap
PROPERTIES
    DrainsTheQueue
CHECK_DEADLOCK FALSE
