------------------------- MODULE MCSessionManager -------------------------
(* Model values for two handler threads, two user names and three ids.   *)
EXTENDS SessionManager, TLC

CONSTANTS t1, t2, n1, n2, n3, i1, i2, i3

MCThreads == {t1, t2}
MCNames == {n1, n2}
MCIds == {i1, i2, i3}
MCNames3 == {n1, n2, n3}
MCNames1 == {n1}

\* Threads, names and ids are only ever compared for equality.
Symmetry == Permutations(MCThreads) \cup Permutations(MCNames3) \cup Permutations(MCIds)

====
