SPECIFICATION Spec
CONSTANTS
    Tasks = {1, 2, 3, 4, 5}
    Plans <- BothPlans
    Owners = {alice, bob}
    Jobs = {1, 2, 3, 4, 5}
    Ratifiers = {r1}
    Dispatchers = {d1}
    Cancellers = {c1}
    Reconcilers = {}
    OwnerOf <- OneApprover
    LauncherOf <- FromRatify
    Resumes = {}
    Cap = 2
    Faults = {"failure", "checkpoint", "pause", "budget"}
    MaxCrashes = 0
    NULL = NULL
    r1 = r1
    d1 = d1
    d2 = d2
    c1 = c1
    x1 = x1
    alice = alice
    bob = bob
INVARIANTS
    AbandonedNeverRan
    NoStrayQueueRow
    CompletedIsComplete
    WithinParallelism
PROPERTIES
    CancelOfDispatchingStops
CHECK_DEADLOCK FALSE
