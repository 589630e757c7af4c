SPECIFICATION Spec
CONSTANTS
    a = a
    b = b
    one = one
    c1 = c1
    c2 = c2
    Clients = {c1, c2}
    Spaces = {a, b}
    Scalars = {one}
    Keys <- MCKeys
    Reads <- MCReads
    Setters = {c2}
    MayLose = {c1}
    Values <- MCValues
    Dict = Dict
    None = None
    MaxSets = 2
INVARIANTS
    
    SearchFindsNearest
PROPERTY
    CallsReturn
\* nobody has to set a parameter again
CHECK_DEADLOCK FALSE
