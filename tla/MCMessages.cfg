CONSTANTS
    Handlers = {h1, h2}
    Rows = {r1}
    Inbound = {i1}
    Ids = {w1, w2}
    Tries = 2
    Faults = {"send", "reply", "db", "crash"}
    Phone = Phone
    None = None
SYMMETRY Symmetry
SPECIFICATION Spec
INVARIANTS
    TakenIsNotFailed
PROPERTIES
    StatusNeverGoesBack
    OneConversation
CHECK_DEADLOCK FALSE
