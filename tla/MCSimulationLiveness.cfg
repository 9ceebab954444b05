SPECIFICATION FairSpec
CONSTANTS
    None = None
    Attempts = {a1}
    Workers = {w1}
    c1 = c1
    m1 = m1
    CancelKeys <- const_CancelKeys
    ReconcileKeys <- const_ReconcileKeys
    MaximumCommandAttempts = 1
    MaxLateLeases = 1
    MaxCrashes = 1
CHECK_DEADLOCK FALSE
INVARIANTS CollectionFollowsSuccess
PROPERTIES EveryAttemptFinishes EveryCommandSettles
