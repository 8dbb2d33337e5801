SPECIFICATION FairSpec
CONSTANTS
    g = g
    Blocks = {g}
    Number <- MCNumber
    Chain <- MCChain
    Callers = {c1}
    Main = Main
    Control = Control
    Free = Free
    NoBlock = NoBlock
    RepairDepth = 1
    StartMode = "HashParam"
    NodeTakesHash = TRUE
    NodeEnforcesHash = TRUE
    NodeHealths = {"Healthy", "Unhealthy", "SequencerConnectionDown"}
    Reorgs = FALSE
    MaxTrouble = 2
INVARIANTS TypeOK PauseQuiesces ShutdownQuiesces LocksOwned
PROPERTIES Converges UnhealthyLeaderHandsOver
CHECK_DEADLOCK FALSE
