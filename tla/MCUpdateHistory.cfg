\* A bunch of two over unix sockets, without health checks: two updates, or an
\* update and restarts, fit; every address lookup may fail.
SPECIFICATION HSpec
CONSTANTS
    InstancesCount = 2
    FailsLimit = 1
    Transport = "unix"
    HealthChecks = FALSE
    Addrs = {a1, a2}
    MaxUnits = 4
    RxCapacity = 2
    a1 = a1
    a2 = a2
SYMMETRY Symmetry
INVARIANTS
    TypeOK
    SingleOwner
    NoLostUnit
    CapacityKept
    RollingOnlyInUpdating
    DrainedLeavesNoProcess
    GoneStaysGone
PROPERTIES
    UpdateReplacesAll
    StoppingIsFinal
