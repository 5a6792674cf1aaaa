SPECIFICATION FairSpec
CONSTANTS
    None = None
    i1 = i1
    i2 = i2
    d1 = d1
    d2 = d2
    w1 = w1
    w2 = w2
    Intents = {i1}
    Dispatchers = {d1}
    Workers = {w1, w2}
    MaxAttempts = 3
    DeferMax = 2
    Conserve = TRUE
    MaxRevisions = 2
    MaxCrashes = 1
    MaxFaults = 1
CHECK_DEADLOCK FALSE
INVARIANT FreshRunsExclusive
PROPERTY LiveRunKeepsIntent
PROPERTY NotStuck
