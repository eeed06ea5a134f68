SPECIFICATION FairSpec
CONSTANTS
    M = 3
    Tasks <- AllTasks
    Entries = {"sync", "async"}
    Worker = worker
    Approvers = {a1, a2}
    Outcomes = {"fail", "quota", "unavailable"}
    MaxFallbacks = 1
    MaxCrashes = 1
    NoRow = NoRow
INVARIANTS
    GatesKept
    GitAfterAll
    CancelWithinOneStep
    StepsOnce
PROPERTIES
    EndsOnce
    KeepsPromise
    Settles
CHECK_DEADLOCK FALSE
