SPECIFICATION FairSpec
CONSTANTS
    a = a
    b = b
    NoOne = NoOne
    Callers = {c1, c2}
    Jobs = {j1}
    Admins = {}
    Flaggers = {f1}
    Instances = {a, b}
    Home <- OneInstance
    AuditIds = {1, 2}
    MaxFaults = 2
    MaxFlagFaults = 1
    MaxOthers = 1
    MaxCrashes = 1
    MaxAttempts = 2
CHECK_DEADLOCK FALSE
 
PROPERTY MarkedIsRepaired
