SPECIFICATION Spec
CONSTANTS
    Closers = {c1}
    Graph = Graph
    None = None
    Required = TRUE
    Low = FALSE
    Managed = TRUE
    Mock = TRUE
    MaxReplans = 0
    MaxReports = 1
    MaxVerdicts = 1
    MaxRequests = 1
    MaxFaults = 1
CHECK_DEADLOCK FALSE
 
INVARIANT FalsePositiveHasNoEntityAction
 
