SPECIFICATION FairSpec
CONSTANTS
    Tasks = {1, 2, 3, 4}
    Plans <- ContinuingPlan
    Owners = {alice, bob}
    Jobs = {1, 2, 3, 4}
    Ratifiers = {r1}
    Dispatchers = {d1}
    Cancellers = {c1}
    Reconcilers = {}
    OwnerOf <- OneApprover
    LauncherOf <- FromRatify
    Resumes = {}
    Cap = 2
    Faults = {"failure"}
    MaxCrashes = 0
    NULL = NULL
    r1 = r1
    d1 = d1
    d2 = d2
    c1 = c1
    x1 = x1
    alice = alice
    bob = bob
PROPERTIES
    DispatchReturns
    RatifiedSettles
CHECK_DEADLOCK FALSE
