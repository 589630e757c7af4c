SPECIFICATION Spec
CONSTANTS
    None = None
    Spinner = spinner
    Apps = {a1, a2, a3}
    SubTopics = {s1, s2}
    OtherTopics = {o1}
    PubTopics = {p1, p2}
    OtherOutputs = {q1}
    RunTime = 2
    MaxWall = 3
    IntMaxMs = 2147
    EINTR = FALSE
SYMMETRY AppSymmetry
INVARIANTS
    TypeOK
    CallbacksSerial
    CompletionIsReal
    
    OneSource
\* the spinner may hang: see the run lost_signal
CHECK_DEADLOCK FALSE
