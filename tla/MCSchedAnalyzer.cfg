SPECIFICATION FairSpec
CONSTANTS
    None = None
    N = 4
    MaxLinks = 1
    Graphs <- Ordered
    RunTimes = {1, 2}
    ParentMax = 2
    StackMax = 16
    C = 3
    CoreMaps <- OneOrTwo
    ChildSize = 3
INVARIANTS
    Tiled
    GangTogether
    Precedence
    NeverIdle
PROPERTY
    Terminates
\* run() ends
CHECK_DEADLOCK FALSE
