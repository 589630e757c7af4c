SPECIFICATION FairSpec
CONSTANTS
    None = None
    Spinner = spinner
    Apps = {a1, a2}
    SubTopics = {s1}
    OtherTopics = {}
    PubTopics = {p1}
    OtherOutputs = {}
    RunTime = 2
    MaxWall = 2
    IntMaxMs = 2147
    EINTR = FALSE
PROPERTY CallReturns
CHECK_DEADLOCK FALSE
