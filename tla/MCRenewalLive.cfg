SPECIFICATION FairSpec
CONSTANTS
    Runs = {r1, r2}
    JsonRuns = {}
    d1 = d1
    Devices = {d1}
    Target <- MCTarget
    Ops = {"renew_due", "sign_csr", "install"}
    Modes = {"json"}
    MaxName = 3
    OtherNames = {1, 3}
    MaxDisturb = 0
    NoRun = NoRun

CHECK_DEADLOCK FALSE
PROPERTIES
    EveryRunEnds
