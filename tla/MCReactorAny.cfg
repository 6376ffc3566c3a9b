\* Every client behaviour at once: two slots shared by three clients that
\* may split requests, idle past the timeout mid-request, hang up half
\* way or reset.  The question is only the poll-set bookkeeping.
CONSTANTS
    NSlots = 2
    MaxConns = 3
    MaxReqs = 1
    QCap = 1
    Timeout = 1
    Threads = 3
    WorkItems = 4
    SlowHandlers = TRUE
    PeerResets = TRUE
    HalfCloses = TRUE
    SigInt = FALSE

SPECIFICATION Spec

INVARIANTS
    OpenSlotsPolled

\* A fault (a NULL pop, SSL_write on a closed slot) ends the process, and
\* a half-closed client leaves the reactor spinning: both really stop.
CHECK_DEADLOCK FALSE
