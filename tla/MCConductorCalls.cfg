SPECIFICATION Spec
CONSTANTS
    g = g
    Blocks = {g}
    Number <- MCNumber
    Chain <- MCChain
    Callers = {c1}
    Main = Main
    Control = Control
    Free = Free
    NoBlock = NoBlock
    RepairDepth = 1
    StartMode = "HashParam"
    NodeTakesHash = TRUE
    NodeEnforcesHash = TRUE
    NodeHealths = {"Healthy"}
    Reorgs = FALSE
    MaxTrouble = 3
PROPERTIES RefinesControlGate CallsReturn LeadershipActedUpon
CHECK_DEADLOCK FALSE
