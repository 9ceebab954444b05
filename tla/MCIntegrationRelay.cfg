SPECIFICATION Spec
CONSTANTS
    None = None
    Branches = {b1}
    Keys = {k1, k2}
    Clients = {c1}
    Relays = {r1, r2}
    MaxRevisions = 2
    MaxCounter = 9
    BatchLimit = 2
    Disturbances = {"late_lease", "crash", "lost_answer", "serialization"}
    MaxDisturbances = 1
SYMMETRY SpineSymmetry
CHECK_DEADLOCK FALSE
INVARIANTS HeadIsNewestProcessed EffectsAreAnnounced DeliveredIsReceived ClosedCycleIsComplete
PROPERTIES ClosedCycleIsSealed ImplementsPipeline
