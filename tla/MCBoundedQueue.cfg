CONSTANTS
    c1 = c1
    c2 = c2
    c3 = c3
    d1 = d1
    d2 = d2
    Null = Null
    Clients <- MCClients
    Data <- MCData
    Size = 2

SPECIFICATION Spec

INVARIANTS
    TypeOK
    NoLostWakeup

PROPERTIES
    ImplementsFifo
    DestroyCompletes

\* Once queue_destroy has freed the queue and every call has returned, no
\* thread has anything left to do with it: that final state is expected.
CHECK_DEADLOCK FALSE
