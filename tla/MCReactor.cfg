\* Normal operation: one connection slot reused by two clients in turn,
\* two requests each, split headers and bodies, one pool thread for
\* processors, and SIGINT at any point.  With one slot and no slow
\* handlers at most one processor is ever busy, so a second work item
\* would only rename states: WorkItems = 3 (the reactor and the session
\* task hold the other two).  A client has at most three
\* records queued behind the one a processor holds, so a queue of four
\* never fills: MCReactorFull shows what happens when it does.
CONSTANTS
    NSlots = 1
    MaxConns = 2
    MaxReqs = 2
    QCap = 4
    Timeout = 1
    Threads = 3
    WorkItems = 3
    SlowHandlers = FALSE
    PeerResets = FALSE
    HalfCloses = FALSE
    SigInt = TRUE

SPECIFICATION Spec

INVARIANTS
    TypeOK
    RunningIffDraining

PROPERTIES
    ImplementsExchange
    HangupClosesConnection
