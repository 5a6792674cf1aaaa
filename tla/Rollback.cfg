SPECIFICATION FairSpec
CONSTANTS
    Sagas = {s1}
    Approvers = {a1}
    Repairers = {w1}
    NeedsApproval = TRUE
    Compensates = TRUE
    HasReadback = TRUE
    HostAnswers = {TRUE, FALSE}
    MaxCrashes = 1
CHECK_DEADLOCK FALSE
INVARIANT EffectOnce
 
 
 
