SPECIFICATION Spec
CONSTANTS
    None = None
    Callers = {c1, c2}
    LaneLength = 2
    DecisionSlots = {2}
    InitialEnvelope <- const_InitialEnvelope
    MaxEnvelope <- const_MaxEnvelope
    SlotCalls = {0, 2}
    MaxDisturbances = 1
SYMMETRY CallerSymmetry
CHECK_DEADLOCK FALSE
INVARIANTS TypeOK LaneOrder ParkedDecisionStands BudgetIsKept
PROPERTIES EnvelopeNeverShrinks TerminalIsFinal
