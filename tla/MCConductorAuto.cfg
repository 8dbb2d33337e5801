SPECIFICATION Spec
CONSTANTS
    g = g
    a1 = a1
    a2 = a2
    a3 = a3
    b1 = b1
    b2 = b2
    Blocks <- MCBlocks
    Number <- MCNumber
    Chain <- MCChain
    Callers = {}
    Main = Main
    Control = Control
    Free = Free
    NoBlock = NoBlock
    RepairDepth = 1
    StartMode = "Auto"
    NodeTakesHash = FALSE
    NodeEnforcesHash = FALSE
    NodeHealths = {"Healthy"}
    Reorgs = FALSE
    MaxTrouble = 2
INVARIANTS StartHashDescends
PROPERTIES StartsOnCommittedHead
CHECK_DEADLOCK FALSE
