SPECIFICATION Spec
CONSTANTS
    M = 2
    Tasks <- Unlicensed
    Entries = {"sync", "async"}
    Worker = worker
    Approvers = {a1, a2}
    Outcomes = {"fail"}
    MaxFallbacks = 0
    MaxCrashes = 1
    NoRow = NoRow
INVARIANTS
    NoGateIsWeaker
CHECK_DEADLOCK FALSE
