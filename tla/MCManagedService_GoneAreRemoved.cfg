SPECIFICATION Spec
CONSTANTS
    Addrs = {a1, a2}
    Within = {}
    Instances = {1}
    NoFile = NoFile
    MaxStarts = 1
    MaxIncidents = 1
    a1 = a1
    a2 = a2
PROPERTY
    GoneAreRemoved
