SPECIFICATION FairSpec
CONSTANTS
    N = 3
    Components = {api, web}
    Pipelines <- AllPipelines
    Origin = origin
    Approvers = {a1, a2}
    Challengers = {c1}
    Faults = {"fail", "raise", "crash"}
    MaxFaults = 1
    NoRow = NoRow
    api = api
    web = web
INVARIANTS
    GateKept
    CompleteMeansAll
    OneRunThrough
    HandsOn
PROPERTIES
    KeepsPromise
    DecisionTakesEffect
CHECK_DEADLOCK FALSE
