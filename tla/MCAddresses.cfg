\* Two scans on four ports, with a change by others besides the units that
\* listen; all directories of up to three files sock0 .. sock4, in any order and
\* with repetitions.
SPECIFICATION FairSpec
CONSTANTS
    Scanners = {b1, b2}
    PortCount = 4
    BasePort = 2
    InstancesCount = 2
    MaxIndex = 4
    MaxFiles = 3
    MaxChanges = 1
INVARIANTS
    TypeOK
    ScanFinds
    RoundOnlyIfFull
    SocketsFresh
PROPERTY
    ScanEnds
