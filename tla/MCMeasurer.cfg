SPECIFICATION Spec
CONSTANTS
    N = 2
    SubTopic <- MCSubTopic
    Core <- MCCore
    Threads <- MCThreads
    MaxTimes = 1
    IgnoreTimes = 1
    MaxStarts <- MCMaxStarts
    CoreFloor = 0
INVARIANTS
    NoneDropped
    Complete
    OneAtATime
    MeasuredInRT

    
