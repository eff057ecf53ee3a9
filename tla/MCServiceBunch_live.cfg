\* Liveness, with queued messages behind each other and lookups that fail, and the
\* refinement.
SPECIFICATION FairSpec
CONSTANTS
    InstancesCount = 1
    FailsLimit = 1
    Transport = "unix"
    HealthChecks = FALSE
    Addrs = {a1}
    MaxUnits = 3
    RxCapacity = 2
    a1 = a1
    a2 = a2
PROPERTIES
    ShutdownServed
    FailureHandled
    UpdateEnds
    ImplementsSupervisor
