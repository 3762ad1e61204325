SPECIFICATION Spec
CONSTANTS
    Runs = {r1}
    JsonRuns = {}
    d1 = d1
    Devices = {d1}
    Target <- MCTarget
    Ops = {"renew_due"}
    Modes = {"json"}
    MaxName = 3
    OtherNames = {1}
    MaxDisturb = 0
    NoRun = NoRun
CHECK_DEADLOCK FALSE
INVARIANTS
    SeenPendingIsFlagged
