SPECIFICATION AggregateSpec
CONSTANTS
    N = 2
CHECK_DEADLOCK FALSE
INVARIANTS
    ExitCodesAgree
