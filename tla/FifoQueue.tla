----------------------------- MODULE FifoQueue -----------------------------
(***************************************************************************)
(* What src/libs/queue.h promises its callers, stated without locks, ring  *)
(* indices or condition variables: a FIFO buffer of at most Size items.    *)
(* push appends at the back when there is room, pop removes the front      *)
(* item when there is one.  BoundedQueue is shown to implement it.         *)
(***************************************************************************)
EXTENDS Naturals, Sequences

CONSTANTS Size, Data

VARIABLE items

Init == items = <<>>

Put(d) ==
    /\ Len(items) < Size
    /\ items' = Append(items, d)

Take ==
    /\ items # <<>>
    /\ items' = Tail(items)

Next == (\E d \in Data : Put(d)) \/ Take

Spec == Init /\ [][Next]_items

====
