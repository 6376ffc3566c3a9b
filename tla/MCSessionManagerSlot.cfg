CONSTANTS
    t1 = t1
    t2 = t2
    n1 = n1
    n2 = n2
    n3 = n3
    i1 = i1
    i2 = i2
    i3 = i3
    Task = Task
    NoName = NoName
    NoId = NoId
    None = None
    Threads <- MCThreads
    Names <- MCNames1
    Ids <- MCIds
    Cap0 = 1
    SlotBound = 4
    Timeout = 1
    MaxLogins = 3
    MaxRestarts = 0

SPECIFICATION Spec
SYMMETRY Symmetry

PROPERTY
    LoginTakesFreeSlot

CHECK_DEADLOCK FALSE
