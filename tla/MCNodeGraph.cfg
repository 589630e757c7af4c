SPECIFICATION GraphSpec
CONSTANTS
    None = None
    N = 4
    MaxLinks = 2
    Graphs <- MCGraphs
    RunTimes = {1, 2}
    ParentMax = 2
    StackMax = 16
INVARIANTS
    ChildrenCover
    LaxityIsLongestPath
    ComesBack
\* the constructor and compute_laxity end
CHECK_DEADLOCK FALSE
