---------------------------- MODULE MCTaskEngine ----------------------------
(* Model values for the task engine: two pool threads, up to three tasks. *)
EXTENDS TaskEngine

CONSTANTS w1, w2, t1, t2, t3

MCWorkers == {w1, w2}
MCTasks1 == {t1}
MCTasks2 == {t1, t2}
MCTasks3 == {t1, t2, t3}

\* t1 is driven through the whole API and suspends once; t2 is used the
\* way the reactor uses its tasks.
MCNSuspMixed == [t \in MCTasks2 |-> IF t = t1 THEN 1 ELSE 0]
MCOpsMixed == [t \in MCTasks2 |-> IF t = t1 THEN ApiCalls
                                              ELSE {"detach"}]
\* Every task is used the way the reactor uses them.
MCNSuspReactor == [t \in MCTasks2 |-> 0]
MCOpsReactor == [t \in MCTasks2 |-> {"detach"}]

====
