CONSTANTS
    MaxIndex = 2
    BlockNumber <- TwoForks
    MaxVote = 1
    MaxCrashes = 1
    Threshold = 0
    BuildOverlapsInstall = TRUE
SPECIFICATION Spec
INVARIANTS
    TypeOK
    AckedDurable
    FileResumable
    StateMachineFaithful
PROPERTY RefinesUnsafeHead
CHECK_DEADLOCK FALSE
