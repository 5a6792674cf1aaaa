SPECIFICATION FairSpec
CONSTANTS
    w1 = w1
    w2 = w2
    idA = idA
    idB = idB
    Rows = {o1}
    Terminal = {}
    Workers = {w1, w2}
    Ids = {idA, idB}
    WorkerId <- SharedIds
    SupportsLookup = TRUE
    SupportsStatusQuery = TRUE
    SupportsIdempotency = FALSE
    Answers = {"accepted", "failed"}
    EntryPoints = {"retry", "resolve", "action"}
    MaxSubmits = 2
    MaxCrashes = 1
INVARIANT AtMostOnceSubmit
PROPERTY LeaseIsReleased
