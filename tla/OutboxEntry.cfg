SPECIFICATION Spec
CONSTANTS
    w1 = w1
    w2 = w2
    idA = idA
    idB = idB
    Rows = {o1}
    Terminal = {}
    Workers = {w1}
    Ids = {idA, idB}
    WorkerId <- SingleId
    SupportsLookup = TRUE
    SupportsStatusQuery = TRUE
    SupportsIdempotency = TRUE
    Answers = {"accepted", "confirmed", "failed"}
    EntryPoints = {"retry", "resolve", "recovery", "action"}
    MaxSubmits = 2
    MaxCrashes = 1
INVARIANT TypeOK
 
INVARIANT SuccessIsReal
PROPERTY ConfirmedIsFinal
 
PROPERTY ImplementsDelivery
