SPECIFICATION Spec
CONSTANTS
    None = None
    Attempts = {a1}
    Workers = {w1, w2}
    c1 = c1
    m1 = m1
    CancelKeys <- const_CancelKeys
    ReconcileKeys <- const_NoKeys
    MaximumCommandAttempts = 2
    MaxLateLeases = 1
    MaxCrashes = 0
SYMMETRY WorkerSymmetry
CHECK_DEADLOCK FALSE
INVARIANTS TypeOK CancellationWins CancellationInvariant EventLogIsHistory OutcomesAreLoggedOnce NeverStuck
PROPERTIES TerminalIsFinal ImplementsLifecycle
