\* A bunch of two over TCP: a Shutdown is enough.
SPECIFICATION Spec
CONSTANTS
    InstancesCount = 2
    FailsLimit = 1
    Transport = "tcp"
    HealthChecks = FALSE
    Addrs = {a1, a2}
    MaxUnits = 4
    RxCapacity = 1
    a1 = a1
    a2 = a2
INVARIANT ShutdownStopsAll
