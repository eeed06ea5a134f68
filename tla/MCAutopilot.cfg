SPECIFICATION Spec
CONSTANTS
    Items = {1, 2}
    Drains = {d1, d2}
    Operators = {o1}
    Ceiling = 2
    MaxCost = 1
    MaxEvents = 1
    Faults = {"raise", "unpriced", "crash", "edit", "slide"}
    NoItem = NoItem
    d1 = d1
    d2 = d2
    o1 = o1
    o2 = o2
INVARIANTS
    DispatchedOnce
PROPERTIES
    HaltsWithinOneTick
CHECK_DEADLOCK FALSE
SYMMETRY Interchangeable
