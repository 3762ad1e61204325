SPECIFICATION MCReleaseSpec
CONSTANTS
    Runs = {r1, r2}
    Tags = {"v1", "v2"}
    Commits = {"c1", "c2", "c3"}
    Merged = {"c1", "c2"}
    TagObjects <- MCTagObjects
    NoTag = NoTag
    Builds = {1}
    Forms = {f1, f2}
    Classic = Classic
    Eligible = {FALSE, TRUE}
    Absent = Absent
    MaxAttempts = 2
    MaxMoves = 1
    Images = {i1, i2}
    Sizes = {1, 2}
    NoFile = NoFile
    MaxChanges = 2
CHECK_DEADLOCK FALSE
SYMMETRY Symmetry
INVARIANTS
    AliasesAreAuthorized
    PublishedIsComplete
    LatestIsComplete
    ReportIsTrue
    LoadedWasExamined
    HonestCandidateIsAccepted
PROPERTY
    AliasesNeverMove
