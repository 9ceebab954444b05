SPECIFICATION Spec
CONSTANTS
    None = None
    Branches = {b1}
    Keys = {k1}
    Clients = {c1}
    Relays = {r1, r2}
    MaxRevisions = 1
    MaxCounter = 9
    BatchLimit = 2
    Disturbances = {"late_lease"}
    MaxDisturbances = 1
SYMMETRY SpineSymmetry
CHECK_DEADLOCK FALSE
INVARIANTS RedeliveryConverges
