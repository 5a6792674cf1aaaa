SPECIFICATION Spec
CONSTANTS
    None = None
    Savers = {s1, s2}
    Recovery = TRUE
    MaxSteps = 2
    MaxLost = 1
    MaxFaults = 1
    MaxCrashes = 1
    MaxDeletes = 1
    MaxExpiries = 1
CHECK_DEADLOCK FALSE
INVARIANT LoadableIsComplete
INVARIANT AckedStays
PROPERTY LoadIsCurrent
