SPECIFICATION FairSpec
CONSTANTS
    Events = {e1, e2}
    Tenants = {acme, other}
    Instances = {i1, i2}
    Workers = {w1, w2}
    InstanceOf <- OneWorkerEach
    Served <- BothServeAcme
    Transports = {"poll", "redis"}
    Keys = {k1}
    Window = 1
    Count = 2
    MaxFaults = 2
    NoKey = NoKey
    NoEvent = NoEvent
    NoTenant = NoTenant
    NoInstance = NoInstance
    i1 = i1
    i2 = i2
    w1 = w1
    w2 = w2
    acme = acme
    other = other
INVARIANTS
    HandledAtMostOnce
    HandledForServed
PROPERTIES
    NeverReopened
    Delivered
CHECK_DEADLOCK FALSE
