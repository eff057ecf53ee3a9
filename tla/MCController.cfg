\* Two services, one with an update script and watched; short queues, so that
\* every sender comes to wait, and the main task for itself and for a bunch.
SPECIFICATION FairSpec
CONSTANTS
    Services = {s1, s2}
    Scripted = {s1}
    Watched = {s1}
    RxCapacity = 2
    MsgCapacity = 1
    CmdCapacity = 1
    MaxConnections = 2
    MaxReports = 1
    MaxEvents = 3
    MaxChecks = 1
    s1 = s1
    s2 = s2
INVARIANTS
    TypeOK
    UnderControl
    ShutdownIsLast
PROPERTIES
    CommandsServed
    DespawnedEnds
