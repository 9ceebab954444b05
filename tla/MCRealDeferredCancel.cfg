SPECIFICATION Spec
CONSTANTS
    None = None
    Attempts = {a1}
    Workers = {w1}
    c1 = c1
    m1 = m1
    CancelKeys <- const_CancelKeys
    ReconcileKeys <- const_NoKeys
    MaximumCommandAttempts = 2
    MaxLateLeases = 0
    MaxCrashes = 0
    MaxPolls = 2
CHECK_DEADLOCK FALSE
INVARIANTS DeferredCancelAwaitsSubmit
