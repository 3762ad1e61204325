SPECIFICATION MCBudgetsSpec
CONSTANTS
    SetupLimit = 3
    OpLimits = {2, 3}
    MaxChunk = 2
    Radix = 2
    Counts <- MCCounts
    MaxDigits = 3
    MaxOps = 3
    MaxLine = 4
    MaxLines = 2
    MaxText = 9
    TextChunk = 3
    MaxPacket = 262144
    MaxMac = 64
    Ciphers <- MCCiphers
    Fields <- MCFields
    MaxPackets = 2
CHECK_DEADLOCK FALSE
INVARIANTS
    BudgetIsKept
    NothingAfterLimit
    TransportIsBounded
    RefusalIsJustified
    LimitIsReported
PROPERTY
    ExecCommandsInExecMode
