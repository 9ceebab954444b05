SPECIFICATION Spec
CONSTANTS
    None = None
    b1 = b1
    Branches = {b1}
    MaxRevisions = 2
    Cells = {x, y}
    Keys = {k1, k2}
    Clients = {c1, c2}
    Executable <- const_Executable
    RetryCeiling <- const_RetryCeiling
SYMMETRY RunSymmetry
CHECK_DEADLOCK FALSE
INVARIANTS TypeOK LineageIsExact ClosedAccountingStands
PROPERTIES SupersededRunsStayPut PassedIsFinal
