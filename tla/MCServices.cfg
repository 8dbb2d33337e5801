SPECIFICATION Spec
CONSTANTS
    MaxU64 = 255
    Bounds = 2
    Callers <- MCCallers
    Bodies <- MCBodies
    BackendAnswers <- MCBackendAnswers
    MaxBodies = 1
    MaxLeads = 2
    Clients = {c1, c2}
    Buffer = 1
    InitialAttempts = 2
    MaxMessages = 2
    MaxFlaps = 2
INVARIANTS
    AnswersMatchRequests
    ProxiedWhileLeading
    EveryRequestRecorded
    ScrapesAddUp
    UnbrokenStreams
    BroadcastsInOrder
    GaugeFollowsHub
PROPERTIES
    SilentClientsLeave
CHECK_DEADLOCK FALSE
