SPECIFICATION FairSpec
CONSTANTS
    Arguments <- MCArguments
    Answers <- MCAnswers
    MaxU64 = 7
    MaxStarts = 2
    Attempts = 2
    MaxBuckets = 2
    MaxTime = 4
INVARIANT LeaderWatchExitsCleanly
CHECK_DEADLOCK FALSE
