SPECIFICATION FairSpec
CONSTANTS
    Manual = {m1}
    Plan = {p1}
    Dispatchers = {d1, d2}
    InProcess = {d2}
    MaxAttempts = 1
    MaxHolds = 2
    MaxOthers = 1
    MaxCrashes = 1
    Other = other
    NoOne = NoOne
CHECK_DEADLOCK FALSE
INVARIANT TerminalWasResumed
 
 
