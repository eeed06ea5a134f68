SPECIFICATION Spec
CONSTANTS
    Tasks = {1, 2}
    Plans <- ContinuingPlan
    Owners = {alice, bob}
    Jobs = {1, 2, 3}
    Ratifiers = {r1}
    Dispatchers = {d1, d2}
    Cancellers = {}
    Reconcilers = {x1}
    OwnerOf <- OneApprover
    LauncherOf <- FromAnywhere
    Resumes = {d2}
    Cap = 1
    Faults = {"failure", "crash", "create", "stall", "timeout"}
    MaxCrashes = 1
    NULL = NULL
    r1 = r1
    d1 = d1
    d2 = d2
    c1 = c1
    x1 = x1
    alice = alice
    bob = bob
INVARIANTS
    OneSubmission
    StartedAsRatified
    OutcomeRecorded
    NothingAdrift
PROPERTIES
    KeepsPromise
CHECK_DEADLOCK FALSE
