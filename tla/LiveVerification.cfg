SPECIFICATION FairLiveSpec
CONSTANTS
    Window = 9
    RetryDelay = 2
    SocketTimeout = 3
    Cleanup = 2
    MaxAddresses = 2
    MaxStall = 2
CHECK_DEADLOCK FALSE
INVARIANTS
    EndsInTime
    SuccessIsExactAndInTime
    NothingLeftBehind
    ReadySwitchIsVerified
PROPERTY
    Terminates
