\* One client pipelining three requests into a connection queue of one
\* entry: the reactor blocks in push holding con->lock (lines 470-473).
CONSTANTS
    NSlots = 1
    MaxConns = 1
    MaxReqs = 3
    QCap = 1
    Timeout = 1
    Threads = 3
    WorkItems = 4
    SlowHandlers = FALSE
    PeerResets = FALSE
    HalfCloses = FALSE
    SigInt = FALSE

SPECIFICATION Spec

PROPERTY
    ReactorProgress

\* The reactor and the processor end up blocked on each other and no step
\* is left to take: that stop is the behaviour this run is about.
CHECK_DEADLOCK FALSE
