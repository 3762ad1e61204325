SPECIFICATION FileSpec
CONSTANTS
    Files = {f1, f2}
    NoFile = NoFile
    Inodes = {1, 2, 3}
    MaxChanges = 4
CHECK_DEADLOCK FALSE
INVARIANTS
    ReadIsTrusted
    NeverThroughLink
    CleanupIsAccountedFor
