SPECIFICATION Spec
CONSTANTS
    Rows = {1, 2}
    Daemons = {d1}
    MaxAttempts = 3
    Faults = {"raise", "failure", "quota", "crash", "age", "purge"}
    MaxEvents = 1
    NoRow = NoRow
    d1 = d1
    d2 = d2
INVARIANTS
    DeadIsExhausted
CHECK_DEADLOCK FALSE
