SPECIFICATION FairSpec
CONSTANTS
    Actions = {a1, a2}
    Terminal = {a1}
    Required = TRUE
    Callers = {c1, c2}
    Graph = graph
    Dispatcher = dispatcher
    NoOne = NoOne
    MaxCrashes = 1
    MaxFaults = 1
CHECK_DEADLOCK FALSE
INVARIANT ExecutingIsApproved
PROPERTY DecisionIsFinal
PROPERTY DecidedIsResumed
