SPECIFICATION MixedSpec
CONSTANTS
    Runs = {r1, r2}
    JsonRuns = {r1}
    d1 = d1
    Devices = {d1}
    Target <- MCTarget
    Ops = {"inspect", "renew_due", "renew_now", "generate_csr", "retrieve_csr", "sign_csr", "install"}
    Modes = {"json", "human"}
    MaxName = 3
    OtherNames = {1}
    MaxDisturb = 1
    NoRun = NoRun
CHECK_DEADLOCK FALSE
INVARIANTS
    RenewalInv
    NoChangeIsTrue
    MilestonesAreTrue
    UnfinishedWorkIsFlagged
    SuccessIsComplete
    SuccessIsServed
    OneOwnCSR
    ErrorTextIsTrue
PROPERTIES
    ImplementsDeviceLifecycle
