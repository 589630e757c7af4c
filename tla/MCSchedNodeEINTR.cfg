SPECIFICATION FairSpec
CONSTANTS
    None = None
    Spinner = spinner
    Apps = {a1, a2}
    SubTopics = {s1, s2}
    OtherTopics = {o1}
    PubTopics = {}
    OtherOutputs = {}
    RunTime = 1
    MaxWall = 2
    IntMaxMs = 1
    EINTR = TRUE
INVARIANTS
    FailSafeOnce
    AffinityRestored
    RoundStartsClean
PROPERTY
    SignalledCallReturns
\* the spinner may hang: see the run lost_signal
CHECK_DEADLOCK FALSE
