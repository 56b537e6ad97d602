CONSTANTS
    Receivers = {h1, h2}
    Workers = {k1,k2}
    Messages = {m1}
    Broadcasts = {m1}
    Flows = {f1}
    ActionCount = 2
    MaxReads = 2
    MaxEnrollments = 2
    Fallible <- MCFallible
    RuleFaults = {"crash"}
SPECIFICATION FairRulesSpec
INVARIANTS
    ActionOncePerEvent
    CheckTellsTheTruth
PROPERTIES
    CheckSettles
CHECK_DEADLOCK FALSE
