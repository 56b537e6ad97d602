CONSTANTS
    Handlers = {h1, h2}
    Home = Home
    Charges = {c1}
    Provisions = {b1}
    Discounted = {c1, b1}
    Days <- MCDays
    OperatorDays = 1
    TrialEnd = 1
    Grace = 0
    Limits = {1}
    MaxClock = 2
    Supervised = {Home}
    Notices = {"settled"}
    Faults = {"abort", "redis"}
    Nothing = Nothing
SPECIFICATION FairSpec
INVARIANTS
    OneBusinessPerOrder
    AccessIsPaidFor
    CouponWithinLimit
PROPERTIES
    SettledIsHonored
CHECK_DEADLOCK FALSE
