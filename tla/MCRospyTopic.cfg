SPECIFICATION TopicSpec
CONSTANTS
    p1 = p1
    Pubs = {p1}
    MaxAdvertise = 2
    MaxSubscribe = 2
    MayDie = {p1}
    MaxThreads = 8
    None = None
INVARIANT
    OnePerPublisher
PROPERTY
    ConnectsUnlessMissed
CHECK_DEADLOCK FALSE
