CONSTANTS
    Handlers = {h1, h2}
    Topups = {}
    Withdrawals = {w1}
    Attempts = {a1}
    Opening = 2
    Faults = {"abort", "redis"}
    Nothing = Nothing
    Amount <- MCAmount
SPECIFICATION FairSpec
INVARIANTS
    LedgerExplainsBalance
    OneOutcome
PROPERTIES
    SettledIsApplied
CHECK_DEADLOCK FALSE
