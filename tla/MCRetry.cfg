SPECIFICATION FairSpec
CONSTANTS
    Rows = {1, 2}
    Daemons = {d1, d2}
    MaxAttempts = 2
    Faults = {"raise"}
    MaxEvents = 0
    NoRow = NoRow
    d1 = d1
    d2 = d2
INVARIANTS
    OneAtATime
PROPERTIES
    Drained
CHECK_DEADLOCK FALSE
