\* Periods of two ticks, enough time for four of them.
SPECIFICATION Spec
CONSTANTS
    Window = 2
    FailsLimit = 2
    MaxCount = 3
    MaxTime = 9
    MaxFailures = 8
INVARIANTS
    WindowTypeOK
    StopJustified
    SlackBounded
