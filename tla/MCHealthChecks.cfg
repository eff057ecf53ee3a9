\* Two units on two addresses, which may come to share one, with updates that end or
\* are given up; or one unit, whose service may be started twice.
SPECIFICATION FairSpec
CONSTANTS
    Addrs = {a1, a2}
    Instances = {1, 2}
    MaxStarts = 2
    MaxIncidents = 2
    a1 = a1
    a2 = a2
INVARIANTS
    TypeOK
    WatchedOrExcused
PROPERTY
    FailingGoes
