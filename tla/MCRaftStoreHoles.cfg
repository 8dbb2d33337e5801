CONSTANTS
    MaxIndex = 3
    BlockNumber <- NoPayloads
    MaxVote = 0
    MaxCrashes = 0
    Threshold = 1
    BuildOverlapsInstall = FALSE
SPECIFICATION Spec
INVARIANTS
    HolesInSnapshot
    AckedDurable
CHECK_DEADLOCK FALSE
