SPECIFICATION Spec
CONSTANTS
    m1 = m1
    m2 = m2
    N = 3
    Me = 2
    Addrs = {"a", "b"}
    Targets = {2, 3}
    Calls = {m1, m2}
    MaxVersion = 3
    MaxTerms = 1
    MaxMatched = 1
    LocalServers = {s1, s2}
    LocalMe = s1
    LocalCalls = {k1, k2}
    MaxPayload = 2
    MaxLocalChanges = 2
    Senders = {d1, d2}
    PeerAddrs <- Spellings
INVARIANTS
    AcknowledgedMeansGone
    RoundRobinOrder
    DefaultTargetFurthest
    VersionTrailsMembers
    AckedOnDisk
    AnswersCarried
PROPERTIES LocalHeadNeverGoesBack
CHECK_DEADLOCK FALSE
