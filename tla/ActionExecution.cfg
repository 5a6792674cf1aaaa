SPECIFICATION Spec
CONSTANTS
    a1 = a1
    a2 = a2
    k1 = k1
    w1 = w1
    w2 = w2
    Actions = {a1, a2}
    Keys = {k1}
    KeyOf <- OneKey
    Direct = {a1, a2}
    Applicable = {a1, a2}
    Workers = {w1, w2}
    Mock = TRUE
    MaxAttempts = 2
    MaxCrashes = 1
    MaxFaults = 1
SYMMETRY Symm
INVARIANT CalledOnce
INVARIANT SuccessIsEarned
INVARIANT OnlySuccessIsRecorded
PROPERTY FinishedJobIsFinal
