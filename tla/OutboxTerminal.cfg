SPECIFICATION Spec
CONSTANTS
    w1 = w1
    w2 = w2
    idA = idA
    idB = idB
    Rows = {o1, o2}
    Terminal = {o1, o2}
    Workers = {w1, w2}
    Ids = {idA, idB}
    WorkerId <- SharedIds
    SupportsLookup = TRUE
    SupportsStatusQuery = TRUE
    SupportsIdempotency = FALSE
    Answers = {"confirmed"}
    EntryPoints = {"retry"}
    MaxSubmits = 1
    MaxCrashes = 0
SYMMETRY HeadSymmetry
 
INVARIANT SupersededIsFenced
INVARIANT MirrorOfSettled
