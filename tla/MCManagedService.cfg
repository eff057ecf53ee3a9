\* Two units on two addresses, of which one is part of the other in text; or one
\* unit, whose service may be started twice, so that reports of the first bunch
\* meet the second.  Two things go wrong.
SPECIFICATION Spec
CONSTANTS
    Addrs = {a1, a2}
    Within <- Nested
    Instances = {1, 2}
    NoFile = NoFile
    MaxStarts = 2
    MaxIncidents = 2
    a1 = a1
    a2 = a2
INVARIANTS
    TypeOK
    ServedOrExcused
    ExecutableKept
