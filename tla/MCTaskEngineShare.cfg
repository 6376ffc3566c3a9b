\* Reactor usage with two tasks: a stack released while its pool thread
\* is still on it is handed to the next task by async_get_stack.
CONSTANTS
    w1 = w1
    w2 = w2
    t1 = t1
    t2 = t2
    t3 = t3
    Null = Null
    Workers <- MCWorkers
    Tasks <- MCTasks2
    NSusp <- MCNSuspReactor
    Ops <- MCOpsReactor
    WorkSlots = 2
    MaxStacks = 4
    Stoppable = FALSE

SPECIFICATION Spec

INVARIANT
    OneThreadPerStack
