SPECIFICATION Spec
CONSTANTS
    None = None
    Branches = {b1}
    Keys = {k1, k2}
    Clients = {c1}
    Relays = {r1}
    MaxRevisions = 2
    MaxCounter = 3
    BatchLimit = 2
    Disturbances = {"late_lease", "crash", "fault", "lost_answer", "revocation"}
    MaxDisturbances = 1
CHECK_DEADLOCK FALSE
INVARIANTS TypeOK NoLiveEventIsDropped
PROPERTIES EveryEventSettles AdmittedRevisionsConverge
