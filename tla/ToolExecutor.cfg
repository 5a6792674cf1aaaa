SPECIFICATION FairSpec
CONSTANTS
    c1 = c1
    c2 = c2
    c3 = c3
    c4 = c4
    s1 = s1
    s2 = s2
    Calls = {c1, c2, c3, c4}
    SideEffects = {c1}
    Sigs = {s1, s2}
    SigOf <- Repeats
    Threshold = 1
    MaxRetries = 1
    GlobalMaxSteps = 3
    MaxDuplicateToolCalls = 1
    MaxOscillation = 2
CHECK_DEADLOCK FALSE
 
INVARIANT RefusedMeansNotDispatched
INVARIANT CapsHold
PROPERTY CallReturns
