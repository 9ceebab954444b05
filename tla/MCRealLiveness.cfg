SPECIFICATION FairSpec
CONSTANTS
    None = None
    Attempts = {a1}
    Workers = {w1}
    c1 = c1
    m1 = m1
    CancelKeys <- const_NoKeys
    ReconcileKeys <- const_ReconcileKeys
    MaximumCommandAttempts = 2
    MaxLateLeases = 1
    MaxCrashes = 1
    MaxPolls = 3
CHECK_DEADLOCK FALSE
INVARIANTS NeverStuck
PROPERTIES EveryAttemptFinishes
