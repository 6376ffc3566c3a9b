---------------------------- MODULE BoundedQueue ----------------------------
(***************************************************************************)
(* The blocking ring buffer of src/libs/queue.c.                           *)
(*                                                                         *)
(* A set of Clients call push and pop concurrently; one destroyer calls    *)
(* queue_destroy.  Every step below is one stretch of the code that runs  *)
(* without another thread of this model being able to interleave in a     *)
(* way that matters: a stretch holding queue->lock, or one access of       *)
(* queue memory made without it (the alive test at the top of push/pop,   *)
(* the unlock and the signal that follow a critical section, and the       *)
(* reads of queue_destroy, which never takes the lock).                    *)
(*                                                                         *)
(* After queue_destroy frees the queue its memory is modelled as still     *)
(* holding its last contents: a thread still inside push or pop then       *)
(* reads stale memory, which NoUseAfterFree reports.                       *)
(***************************************************************************)
EXTENDS Naturals, Sequences, FiniteSets

CONSTANTS
    Clients,    \* threads calling push/pop
    Size,       \* queue->size, the capacity given to queue_create
    Data,       \* the (non-NULL) pointers pushed
    Null        \* NULL: an empty slot, and the result of a failed pop

ASSUME /\ Size \in Nat \ {0}
       /\ Null \notin Data
       /\ Clients # {}

Slots == 0 .. Size - 1

\* The two condition variables of the queue.
Signals == {"push_signal", "pop_signal"}

VARIABLES
    array,      \* queue->array
    head,       \* queue->head
    tail,       \* queue->tail
    pending,    \* queue->pending
    alive,      \* queue->alive
    mtx,        \* holder of queue->lock, or Null
    waiting,    \* waiting[s]: threads blocked in lock_wait on condition s
    pc,         \* program counter of each client
    val,        \* the item a client pushes, or the item its pop returned
    dpc,        \* program counter of the thread running queue_destroy
    freed       \* free(*queue) has run

vars == <<array, head, tail, pending, alive, mtx, waiting, pc, val, dpc, freed>>

ClientPcs == {"idle",
              "pop_check", "pop_enter", "pop_wait",
              "pop_abort", "pop_unlock", "pop_signal",
              "push_check", "push_enter", "push_wait",
              "push_abort", "push_unlock", "push_signal"}

----
(* Helpers translated from queue.c and lock.h                              *)
----

\* queue_create: calloc'ed slots, alive, nothing pending.
Init ==
    /\ array = [i \in Slots |-> Null]
    /\ head = 0
    /\ tail = 0
    /\ pending = 0
    /\ alive = TRUE
    /\ mtx = Null
    /\ waiting = [s \in Signals |-> {}]
    /\ pc = [c \in Clients |-> "idle"]
    /\ val = [c \in Clients |-> Null]
    /\ dpc = "d_idle"
    /\ freed = FALSE

\* The loop condition of pop: head meets tail and the slot there is NULL.
IsEmpty == head = tail /\ array[head] = Null

\* The loop condition of push: tail meets head and the slot there is taken.
IsFull == tail = head /\ array[tail] # Null

\* Mutant: the slot is not cleared (line 37 missing), so it still looks full.
TakeFrontKeep ==
    /\ array' = array
    /\ head' = IF head + 1 >= Size THEN 0 ELSE head + 1

\* Lines 36-38: read the head slot, clear it, advance head with wrap-around.
TakeFront ==
    /\ array' = [array EXCEPT ![head] = Null]
    /\ head' = IF head + 1 >= Size THEN 0 ELSE head + 1

\* Lines 56-57: store at tail, advance tail with wrap-around.
PutBack(d) ==
    /\ array' = [array EXCEPT ![tail] = d]
    /\ tail' = IF tail + 1 >= Size THEN 0 ELSE tail + 1

\* pthread_cond_signal: wake one thread blocked on s, if there is one.
Signal(s) ==
    IF waiting[s] = {} THEN UNCHANGED waiting
    ELSE \E t \in waiting[s] : waiting' = [waiting EXCEPT ![s] = @ \ {t}]

\* pthread_cond_broadcast on both conditions, as queue_destroy does.
BroadcastAll == waiting' = [s \in Signals |-> {}]

Goto(c, from, to) ==
    /\ pc[c] = from
    /\ pc' = [pc EXCEPT ![c] = to]

----
(* pop                                                                     *)
----

\* A client holding the queue pointer calls pop or push.
Call(c) ==
    /\ pc[c] = "idle"
    /\ ~freed
    /\ \/ /\ pc' = [pc EXCEPT ![c] = "pop_check"]
          /\ val' = [val EXCEPT ![c] = Null]
       \/ \E d \in Data :
            /\ pc' = [pc EXCEPT ![c] = "push_check"]
            /\ val' = [val EXCEPT ![c] = d]
    /\ UNCHANGED <<array, head, tail, pending, alive, mtx, waiting, dpc, freed>>

\* Line 25: the alive test, made before taking the lock.
PopCheck(c) ==
    /\ Goto(c, "pop_check", IF alive THEN "pop_enter" ELSE "idle")
    /\ UNCHANGED <<array, head, tail, pending, alive, mtx, waiting, val, dpc, freed>>

\* Lines 36-38, the lock still held: take the front item.
PopTake(c) ==
    /\ TakeFront
    /\ val' = [val EXCEPT ![c] = array[head]]
    /\ pc' = [pc EXCEPT ![c] = "pop_unlock"]
    /\ UNCHANGED <<tail, waiting>>

\* Line 29: block on push_signal, releasing the lock.
PopBlock(c) ==
    /\ mtx' = Null
    /\ waiting' = [waiting EXCEPT !["push_signal"] = @ \cup {c}]
    /\ pc' = [pc EXCEPT ![c] = "pop_wait"]
    /\ UNCHANGED <<array, head, tail, val>>

\* Lines 26-28: lock, count the call as pending, test the loop condition;
\* a non-empty queue is served at once (lines 36-39), so pending is back.
PopEnter(c) ==
    /\ pc[c] = "pop_enter"
    /\ mtx = Null
    /\ IF IsEmpty THEN PopBlock(c) /\ pending' = pending + 1
       ELSE PopTake(c) /\ mtx' = c /\ UNCHANGED pending
    /\ UNCHANGED <<alive, dpc, freed>>

\* Mutant: pending++ inside the wait loop, so a re-block counts twice.
PopWokenRecount(c) ==
    /\ pc[c] = "pop_wait"
    /\ c \notin waiting["push_signal"]
    /\ mtx = Null
    /\ IF ~alive
       THEN /\ pending' = pending - 1
            /\ mtx' = c
            /\ pc' = [pc EXCEPT ![c] = "pop_abort"]
            /\ UNCHANGED <<array, head, tail, waiting, val>>
       ELSE IF IsEmpty THEN PopBlock(c) /\ pending' = pending + 1
            ELSE PopTake(c) /\ mtx' = c /\ pending' = pending - 1
    /\ UNCHANGED <<alive, dpc, freed>>

\* Lines 29-35: lock_wait returns with the lock held once woken; a dead
\* queue drops the call (line 31), otherwise the loop condition is tested.
PopWoken(c) ==
    /\ pc[c] = "pop_wait"
    /\ c \notin waiting["push_signal"]
    /\ mtx = Null
    /\ IF ~alive
       THEN /\ pending' = pending - 1
            /\ mtx' = c
            /\ pc' = [pc EXCEPT ![c] = "pop_abort"]
            /\ UNCHANGED <<array, head, tail, waiting, val>>
       ELSE IF IsEmpty THEN PopBlock(c) /\ UNCHANGED pending
            ELSE PopTake(c) /\ mtx' = c /\ pending' = pending - 1
    /\ UNCHANGED <<alive, dpc, freed>>

\* Lines 32-33: unlock and return NULL.
PopAbort(c) ==
    /\ Goto(c, "pop_abort", "idle")
    /\ mtx' = Null
    /\ UNCHANGED <<array, head, tail, pending, alive, waiting, val, dpc, freed>>

\* The unlock of unlock_signal on line 40, pending already decremented.
PopUnlock(c) ==
    /\ Goto(c, "pop_unlock", "pop_signal")
    /\ mtx' = Null
    /\ UNCHANGED <<array, head, tail, pending, alive, waiting, val, dpc, freed>>

\* The signal of unlock_signal on line 40, made after the unlock.
PopSignal(c) ==
    /\ Goto(c, "pop_signal", "idle")
    /\ Signal("pop_signal")
    /\ UNCHANGED <<array, head, tail, pending, alive, mtx, val, dpc, freed>>

----
(* push                                                                    *)
----

\* Line 45: the alive test, made before taking the lock.
PushCheck(c) ==
    /\ Goto(c, "push_check", IF alive THEN "push_enter" ELSE "idle")
    /\ UNCHANGED <<array, head, tail, pending, alive, mtx, waiting, val, dpc, freed>>

\* Lines 56-57, the lock still held: store the item at the back.
PushPut(c) ==
    /\ PutBack(val[c])
    /\ pc' = [pc EXCEPT ![c] = "push_unlock"]
    /\ UNCHANGED <<head, waiting, val>>

\* Line 49: block on pop_signal, releasing the lock.
PushBlock(c) ==
    /\ mtx' = Null
    /\ waiting' = [waiting EXCEPT !["pop_signal"] = @ \cup {c}]
    /\ pc' = [pc EXCEPT ![c] = "push_wait"]
    /\ UNCHANGED <<array, head, tail, val>>

\* Lines 46-48: lock, count the call as pending, test the loop condition;
\* a queue with room is written at once (lines 56-58), so pending is back.
PushEnter(c) ==
    /\ pc[c] = "push_enter"
    /\ mtx = Null
    /\ IF IsFull THEN PushBlock(c) /\ pending' = pending + 1
       ELSE PushPut(c) /\ mtx' = c /\ UNCHANGED pending
    /\ UNCHANGED <<alive, dpc, freed>>

\* Lines 49-55: lock_wait returns with the lock held once woken; a dead
\* queue drops the item (line 51), otherwise the loop condition is tested.
PushWoken(c) ==
    /\ pc[c] = "push_wait"
    /\ c \notin waiting["pop_signal"]
    /\ mtx = Null
    /\ IF ~alive
       THEN /\ pending' = pending - 1
            /\ mtx' = c
            /\ pc' = [pc EXCEPT ![c] = "push_abort"]
            /\ UNCHANGED <<array, head, tail, waiting, val>>
       ELSE IF IsFull THEN PushBlock(c) /\ UNCHANGED pending
            ELSE PushPut(c) /\ mtx' = c /\ pending' = pending - 1
    /\ UNCHANGED <<alive, dpc, freed>>

\* Lines 52-53: unlock and return.
PushAbort(c) ==
    /\ Goto(c, "push_abort", "idle")
    /\ mtx' = Null
    /\ UNCHANGED <<array, head, tail, pending, alive, waiting, val, dpc, freed>>

\* The unlock of unlock_signal on line 59, pending already decremented.
PushUnlock(c) ==
    /\ Goto(c, "push_unlock", "push_signal")
    /\ mtx' = Null
    /\ UNCHANGED <<array, head, tail, pending, alive, waiting, val, dpc, freed>>

\* Mutant: push signals its own condition instead of push_signal.
PushSignalWrong(c) ==
    /\ Goto(c, "push_signal", "idle")
    /\ Signal("pop_signal")
    /\ UNCHANGED <<array, head, tail, pending, alive, mtx, val, dpc, freed>>

\* The signal of unlock_signal on line 59, made after the unlock.
PushSignal(c) ==
    /\ Goto(c, "push_signal", "idle")
    /\ Signal("push_signal")
    /\ UNCHANGED <<array, head, tail, pending, alive, mtx, val, dpc, freed>>

----
(* queue_destroy, run by one thread without taking the lock                *)
----

\* Line 74: mark the queue dead.  The owner may do this at any time.
Kill ==
    /\ dpc = "d_idle"
    /\ dpc' = "d_drain"
    /\ alive' = FALSE
    /\ UNCHANGED <<array, head, tail, pending, mtx, waiting, pc, val, freed>>

\* Mutant: queue_destroy waits for pending calls without broadcasting.
DrainNoWake ==
    /\ dpc = "d_drain"
    /\ pending > 0
    /\ UNCHANGED <<array, head, tail, pending, alive, mtx, waiting, pc, val, dpc, freed>>

\* Lines 75-79: while calls are pending, wake every waiter and sleep.
Drain ==
    /\ dpc = "d_drain"
    /\ pending > 0
    /\ BroadcastAll
    /\ UNCHANGED <<array, head, tail, pending, alive, mtx, pc, val, dpc, freed>>

\* Lines 80-84: no call pending, so destroy the lock and the signals, free.
Free ==
    /\ dpc = "d_drain"
    /\ pending = 0
    /\ dpc' = "d_done"
    /\ freed' = TRUE
    /\ UNCHANGED <<array, head, tail, pending, alive, mtx, waiting, pc, val>>

----

Client(c) ==
    \/ Call(c)
    \/ PopCheck(c) \/ PopEnter(c) \/ PopWoken(c)
    \/ PopAbort(c) \/ PopUnlock(c) \/ PopSignal(c)
    \/ PushCheck(c) \/ PushEnter(c) \/ PushWoken(c)
    \/ PushAbort(c) \/ PushUnlock(c) \/ PushSignal(c)

Destroyer == Kill \/ Drain \/ Free

Next == (\E c \in Clients : Client(c)) \/ Destroyer

\* Every thread keeps running once it is inside the queue; whether a client
\* calls again, and whether the owner destroys the queue, is its choice.
Fairness ==
    /\ \A c \in Clients : WF_vars(Client(c) /\ pc[c] # "idle")
    /\ WF_vars(Drain \/ Free)

Spec == Init /\ [][Next]_vars /\ Fairness

----
(* Properties                                                              *)
----

TypeOK ==
    /\ array \in [Slots -> Data \cup {Null}]
    /\ head \in Slots /\ tail \in Slots
    /\ pending \in 0 .. Cardinality(Clients)
    /\ alive \in BOOLEAN /\ freed \in BOOLEAN
    /\ mtx \in Clients \cup {Null}
    /\ waiting \in [Signals -> SUBSET Clients]
    /\ pc \in [Clients -> ClientPcs]
    /\ val \in [Clients -> Data \cup {Null}]
    /\ dpc \in {"d_idle", "d_drain", "d_done"}

\* The queue's contents in FIFO order: the non-NULL slots read from head.
Count == Cardinality({i \in Slots : array[i] # Null})
Items == [k \in 1 .. Count |-> array[(head + k - 1) % Size]]

\* push and pop implement a bounded FIFO buffer: every critical section of
\* push appends its item at the back, every one of pop removes the front
\* item, and the ring never holds more than Size items nor loses one.
Abstract == INSTANCE FifoQueue WITH items <- Items
ImplementsFifo == Abstract!Spec

\* No lost wake-up: a pop blocked on push_signal while the queue holds an
\* item, or a push blocked on pop_signal while it has room, always has a
\* thread that will still act for it: a signal not yet sent after an
\* unlock (lines 40, 59), an already woken waiter that will retest, or,
\* once the queue is dead, queue_destroy broadcasting (line 76-77).
Woken(s, p) == \E u \in Clients : pc[u] = p /\ u \notin waiting[s]
NoLostWakeup ==
    alive =>
    /\ (waiting["push_signal"] # {} /\ ~IsEmpty) =>
            \/ \E u \in Clients : pc[u] \in {"push_unlock", "push_signal"}
            \/ Woken("push_signal", "pop_wait")
    /\ (waiting["pop_signal"] # {} /\ ~IsFull) =>
            \/ \E u \in Clients : pc[u] \in {"pop_unlock", "pop_signal"}
            \/ Woken("pop_signal", "push_wait")

\* queue_destroy terminates: once the queue is marked dead, every pending
\* call is woken, observes it and leaves, so the pending counter reaches 0
\* and the queue is freed.
DestroyCompletes == (~alive) ~> freed

\* queue_destroy frees the queue only when no thread is inside push or
\* pop: no thread is left to read alive, take the lock, unlock or signal
\* on freed memory.
NoUseAfterFree == freed => \A c \in Clients : pc[c] = "idle"

====
