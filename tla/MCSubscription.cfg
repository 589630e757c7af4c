SPECIFICATION FairSpec
CONSTANTS
    None = None
    c1 = c1
    c2 = c2
    a1 = a1
    a2 = a2
    Callers = {c1, c2}
    User = user
    AppOf <- MCAppOf
    QueueSize = 2
    AllowConcurrent = {TRUE, FALSE}
    Scheduled = {TRUE, FALSE}
    Removers = {"user", "callback"}
    MaxMsg = 5
INVARIANTS
    NewestInOrder
    QuietAfterRemoval
    EntriesCover
PROPERTY
    RemovalCompletes
\* the network stops after MaxMsg messages
CHECK_DEADLOCK FALSE
