SPECIFICATION WindowSpec
CONSTANTS
    Day = 6
    Offset = 3
    Freshness = 1
    MaxSession = 2
    warning_days = 2
    lifetime_days = 3
    MaxDay = 6
CHECK_DEADLOCK FALSE
INVARIANTS
    RenewedLeavesWindow
