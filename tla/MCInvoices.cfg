CONSTANTS
    Handlers = {h1, h2}
    Milestones <- MCMilestones
    Attempts = {a1, a2}
    MaxProofs = 1
    Faults = {"abort"}
SPECIFICATION Spec
INVARIANTS
    StatusTellsMilestones
    FewExtraProofs
PROPERTIES
    PaidStays
CHECK_DEADLOCK FALSE
