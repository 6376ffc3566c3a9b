--------------------------- MODULE MCBoundedQueue ---------------------------
(* Three threads on a queue of two slots: enough for a full ring, a waiter *)
(* of each kind and a newcomer overtaking a woken waiter at once.          *)
EXTENDS BoundedQueue

CONSTANTS c1, c2, c3, d1, d2

MCClients == {c1, c2, c3}
MCData == {d1, d2}

====
