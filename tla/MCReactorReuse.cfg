\* Requests in flight while the idle timeout fires, and the freed slot
\* given to the next client (lines 451-458 and 510-516).
CONSTANTS
    NSlots = 1
    MaxConns = 2
    MaxReqs = 1
    QCap = 2
    Timeout = 1
    Threads = 3
    WorkItems = 4
    SlowHandlers = TRUE
    PeerResets = FALSE
    HalfCloses = FALSE
    SigInt = FALSE

SPECIFICATION Spec

INVARIANT
    ResponsesInOrder

\* A fault ends the process (no step follows it); this run asks whether a
\* response reaches the wrong client, faults aside.
CHECK_DEADLOCK FALSE
