CONSTANTS
    t1 = t1
    t2 = t2
    n1 = n1
    n2 = n2
    n3 = n3
    i1 = i1
    i2 = i2
    i3 = i3
    Task = Task
    NoName = NoName
    NoId = NoId
    None = None
    Threads <- MCThreads
    Names <- MCNames
    Ids <- MCIds
    Cap0 = 1
    SlotBound = 2
    Timeout = 1
    MaxLogins = 2
    MaxRestarts = 1

SPECIFICATION Spec
SYMMETRY Symmetry

INVARIANTS
    TypeOK
    MetaWithinDb

CHECK_DEADLOCK FALSE
