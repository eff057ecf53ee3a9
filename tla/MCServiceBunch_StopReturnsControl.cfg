\* A bunch of one with no failure allowed, under the runtime's fairness.
SPECIFICATION FairSpec
CONSTANTS
    InstancesCount = 1
    FailsLimit = 0
    Transport = "tcp"
    HealthChecks = FALSE
    Addrs = {a1}
    MaxUnits = 3
    RxCapacity = 1
    a1 = a1
    a2 = a2
PROPERTY StopReturnsControl
