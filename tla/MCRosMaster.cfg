SPECIFICATION Spec
CONSTANTS
    a1 = a1
    a2 = a2
    b1 = b1
    alice = alice
    bob = bob
    Apis = {a1, a2, b1}
    Names = {alice, bob}
    NameOf <- MCNameOf
    Topics = {t1}
    Services = {s1}
    Params = {p1}
    Workers = {w1, w2}
    Hung = {a1}
    MaxCalls = 5
    NoNode = NoNode
INVARIANTS
    RefsAgree
    NothingMissed
PROPERTIES
    OnlyOwnRegistrationsEnd
    ImplementsFeed
    PoolServes
\* the nodes stop calling the master
CHECK_DEADLOCK FALSE
