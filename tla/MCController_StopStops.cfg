\* One service at the commit's own watch list, which is empty.
SPECIFICATION Spec
CONSTANTS
    Services = {s1}
    Scripted = {s1}
    Watched = {}
    RxCapacity = 1
    MsgCapacity = 1
    CmdCapacity = 3
    MaxConnections = 3
    MaxReports = 0
    MaxEvents = 0
    MaxChecks = 0
    s1 = s1
    s2 = s2
PROPERTY StopStops
