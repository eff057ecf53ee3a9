\* A bunch of one over TCP with health checks, fresh and stale ones.
SPECIFICATION Spec
CONSTANTS
    InstancesCount = 1
    FailsLimit = 1
    Transport = "tcp"
    HealthChecks = TRUE
    Addrs = {a1, a2}
    MaxUnits = 3
    RxCapacity = 1
    a1 = a1
    a2 = a2
SYMMETRY Symmetry
INVARIANTS
    SingleOwner
    NoLostUnit
    CapacityKept
    GoneStaysGone
