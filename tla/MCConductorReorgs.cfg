SPECIFICATION FairSpec
CONSTANTS
    g = g
    a1 = a1
    a2 = a2
    a3 = a3
    b1 = b1
    b2 = b2
    Blocks <- MCBlocks
    Number <- MCNumber
    Chain <- MCChain
    Callers = {}
    Main = Main
    Control = Control
    Free = Free
    NoBlock = NoBlock
    RepairDepth = 1
    StartMode = "HashParam"
    NodeTakesHash = TRUE
    NodeEnforcesHash = TRUE
    NodeHealths = {"Healthy"}
    Reorgs = TRUE
    MaxTrouble = 1
PROPERTIES Converges
CHECK_DEADLOCK FALSE
