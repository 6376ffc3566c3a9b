\* The whole task API on t1, whose function suspends once, beside t2 used
\* the way the reactor uses its tasks (spawned and detached at once, never
\* suspending): every interleaving of resume, await and detach of the one
\* with the other's clean-up, on two pool threads.
CONSTANTS
    w1 = w1
    w2 = w2
    t1 = t1
    t2 = t2
    t3 = t3
    Null = Null
    Workers <- MCWorkers
    Tasks <- MCTasks2
    NSusp <- MCNSuspMixed
    Ops <- MCOpsMixed
    WorkSlots = 1
    MaxStacks = 4
    Stoppable = TRUE

SPECIFICATION Spec

INVARIANTS
    TypeOK
    StackAccounting

PROPERTIES
    DetachedCleanedUp
    StopCompletes

\* The races of the violation runs send a thread onto another thread's
\* stack (pc "astray"); it never returns its tasksQueue slot nor signals a
\* waiter, so the program really hangs there: pushWork blocks on a full
\* queue or await waits for ever.  This run asks about the stacks and the
\* reactor-style task's clean-up.
CHECK_DEADLOCK FALSE
