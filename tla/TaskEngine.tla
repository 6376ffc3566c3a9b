----------------------------- MODULE TaskEngine -----------------------------
(***************************************************************************)
(* The stackful coroutines of src/libs/async.c running on the thread pool *)
(* of src/libs/threadpool.c.                                               *)
(*                                                                         *)
(* Threads are the pool's Workers and, for every task t, the application   *)
(* thread that spawned it, which is named t itself and calls the task API  *)
(* on it (resume, await, detach).  A thread is either in pool or API code  *)
(* on its own stack, or, after a swapcontext/setcontext into a task, in    *)
(* the code of async_entry, of the task's function or of suspend, which    *)
(* runs on the task's stack.  A saved context is kept as the thread whose  *)
(* stack it is and the pc it returns to: caller[t] is task->caller_ctx,   *)
(* callee[t] is task->callee_ctx, restore[th] is the copy of caller_ctx   *)
(* that suspend and async_entry take into a local before they unlock.     *)
(*                                                                         *)
(* Task t's function calls suspend NSusp[t] times and then returns (the  *)
(* server's own task functions never suspend: NSusp[t] = 0).             *)
(*                                                                         *)
(* A task record or stack that has been released is modelled as keeping  *)
(* its last contents; the properties report threads still using it.       *)
(***************************************************************************)
EXTENDS Naturals, Sequences, FiniteSetsExt

CONSTANTS
    Workers,    \* the pool's OS threads
    Tasks,      \* tasks, each spawned by its own application thread
    NSusp,      \* per task: how many times its function calls suspend
    Ops,        \* per task: the API calls the application makes on it
    WorkSlots,  \* the pool's work queue size (threadPool_create)
    MaxStacks,  \* bound on async_ctrl.stacks_entries (a power of 2)
    Stoppable,  \* whether the main thread calls async_engine_stop
    Null

\* The calls of async.h an application makes on its task handle.
ApiCalls == {"resume", "await", "detach", "wait_yield", "get_yield", "wait_time"}

ASSUME /\ Workers # {} /\ Tasks # {} /\ Workers \cap Tasks = {}
       /\ NSusp \in [Tasks -> Nat]
       /\ Ops \in [Tasks -> SUBSET ApiCalls]
       /\ WorkSlots \in Nat \ {0}
       /\ MaxStacks \in Nat \ {0}
       /\ Stoppable \in BOOLEAN

Threads == Workers \cup Tasks
Stacks == 1 .. MaxStacks
States == {"Unborn", "Running", "Suspended", "Dead", "Detached"}

\* Program counters of pool code (worker stack) and of task code (task stack).
PoolPcs == {"w_loop", "w_pop", "w_wait", "w_done", "w_push", "w_exit",
            "crashed", "r_start", "r_after", "r_after2", "r_clean",
            "r_setsusp", "rs_swap", "astray"}
TaskPcs == {"e_start", "b_run", "s_lock", "s_check", "s_unlock", "s_jump",
            "e_dead", "e_unlock", "e_jump"}
AppPcs  == {"o_spawn", "o_choose", "o_done", "res_check", "res_lock",
            "res_push", "aw_loop", "aw_set", "aw_wait", "aw_waiting", "aw_clean",
            "dt_lock", "dt_clean", "dt_push", "wy_wait", "wy_waiting",
            "yd_clean", "gy_lock", "wt_wait", "wt_waiting"}

VARIABLES
    state,      \* task->state
    tlock,      \* holder of task->lock, or Null
    twait,      \* threads blocked on task->signal
    caller,     \* task->caller_ctx, as the Ctx it resumes
    callee,     \* task->callee_ctx: "fresh" (makecontext) or "susp"
    nsusp,      \* suspend calls the task function has made
    stk,        \* task->callee_ctx.uc_stack.ss_sp, or Null
    tfreed,     \* asyncTask_clean has freed the task record
    freeStacks, \* stacks held by async_ctrl.sps, free for async_get_stack
    entries,    \* async_ctrl.stacks_entries: every stack mmap'ed so far
    workq,      \* pool->workQueue: <<function, task>> items
    slots,      \* free entries of pool->tasksQueue
    pc,         \* program counter of every thread
    at,         \* the task a thread is working on, or Null
    restore,    \* the caller context copied by suspend/async_entry
    poolRun,    \* pool->running
    tq,         \* pool->tasksQueue: "alive" or "freed" (queue_destroy)
    wq,         \* pool->workQueue: "alive", "dying" (alive false) or "freed"
    cancel,     \* pool threads pthread_cancel has been called on
    mpc         \* the main thread's place in async_engine_stop

taskVars == <<state, tlock, twait, caller, callee, nsusp, stk, tfreed>>
poolVars == <<freeStacks, entries, workq, slots>>
thrVars  == <<pc, at, restore>>
stopVars == <<poolRun, tq, wq, cancel, mpc>>
vars == <<taskVars, poolVars, thrVars, stopVars>>

----
(* Helpers                                                                 *)
----

\* threadPool_create: both queues alive and tasksQueue filled with a free
\* entry per work item.
PoolCreate ==
    /\ workq = <<>>
    /\ slots = WorkSlots
    /\ tq = "alive"
    /\ wq = "alive"

\* threadPool_dispach: running is set and every pool thread enters
\* thread_entry's loop; none has been cancelled.
PoolDispatch ==
    /\ poolRun = TRUE
    /\ \A w \in Workers : pc[w] = "w_loop"
    /\ cancel = {}

\* async_engine_start maps two stacks, creates and dispatches the pool;
\* each application thread is about to spawn.
Init ==
    /\ state = [t \in Tasks |-> "Unborn"]
    /\ tlock = [t \in Tasks |-> Null]
    /\ twait = [t \in Tasks |-> {}]
    /\ caller = [t \in Tasks |-> Null]
    /\ callee = [t \in Tasks |-> "fresh"]
    /\ nsusp = [t \in Tasks |-> 0]
    /\ stk = [t \in Tasks |-> Null]
    /\ tfreed = [t \in Tasks |-> FALSE]
    /\ freeStacks = {1, 2}
    /\ entries = 2
    /\ PoolCreate
    /\ pc = [th \in Threads |-> IF th \in Workers THEN "w_loop" ELSE "o_spawn"]
    /\ PoolDispatch
    /\ at = [th \in Threads |-> IF th \in Workers THEN Null ELSE th]
    /\ restore = [th \in Threads |-> Null]
    /\ mpc = "m_run"

Goto(th, to) == pc' = [pc EXCEPT ![th] = to]

Contexts == [thread : Threads, pc : {"r_after", "w_done", "aw_loop"}]

\* A saved context: the thread whose stack it belongs to and its pc there.
Ctx(th, p) == [thread |-> th, pc |-> p]

\* setcontext to a saved context.  A context saved by another thread
\* carries this thread onto that thread's stack: it has gone astray.
JumpTo(th, ctx) == Goto(th, IF ctx.thread = th THEN ctx.pc ELSE "astray")

SetState(t, s) == state' = [state EXCEPT ![t] = s]

\* pthread_cond_signal on task->signal.
SignalTask(t) ==
    IF twait[t] = {} THEN UNCHANGED twait
    ELSE \E u \in twait[t] : twait' = [twait EXCEPT ![t] = @ \ {u}]

\* Mutant: pushWork does not wait for a free tasksQueue entry.
PushWorkNoWait(fn, t) ==
    /\ slots' = slots - 1
    /\ workq' = Append(workq, <<fn, t>>)

\* threadPool_pushWork: take a free slot (blocking while there is none)
\* and queue the work item.
PushWork(fn, t) ==
    /\ slots > 0
    /\ slots' = slots - 1
    /\ workq' = Append(workq, <<fn, t>>)

\* Mutant: the stack handed out stays in async_ctrl.sps.
GetStackKeep(t) ==
    IF freeStacks # {}
    THEN /\ stk' = [stk EXCEPT ![t] = Min(freeStacks)]
         /\ UNCHANGED <<freeStacks, entries>>
    ELSE /\ entries * 2 <= MaxStacks
         /\ entries' = entries * 2
         /\ stk' = [stk EXCEPT ![t] = entries + 1]
         /\ freeStacks' = (entries + 2) .. (entries * 2)

\* async_get_stack: the first free stack of async_ctrl.sps, or, when every
\* stack is taken, a newly mapped one after the array has been doubled
\* (slots new_entry+1 .. 2*new_entry-1 get fresh stacks).  Stacks are
\* named 1..entries in mapping order; async_free_stack puts a stack back
\* in the first empty slot, so the first free slot may hold any free
\* stack, and the lowest-named one stands for it.
GetStack(t) ==
    IF freeStacks # {}
    THEN LET s == Min(freeStacks)
         IN /\ stk' = [stk EXCEPT ![t] = s]
            /\ freeStacks' = freeStacks \ {s}
            /\ UNCHANGED entries
    ELSE /\ entries * 2 <= MaxStacks
         /\ entries' = entries * 2
         /\ stk' = [stk EXCEPT ![t] = entries + 1]
         /\ freeStacks' = (entries + 2) .. (entries * 2)

\* Mutant: asyncTask_clean frees the record but not the stack.
CleanKeepStack(t) ==
    /\ freeStacks' = freeStacks
    /\ tfreed' = [tfreed EXCEPT ![t] = TRUE]

\* asyncTask_clean: give the stack back to async_ctrl.sps, free the record.
Clean(t) ==
    /\ freeStacks' = freeStacks \cup {stk[t]}
    /\ tfreed' = [tfreed EXCEPT ![t] = TRUE]

----
(* Worker threads: thread_entry, async_run and async_resume, on their own  *)
(* stacks                                                                  *)
----

\* thread_entry, line 28: the loop runs while pool->running.
WLoop(w) ==
    /\ pc[w] = "w_loop"
    /\ Goto(w, IF poolRun THEN "w_pop" ELSE "w_exit")
    /\ UNCHANGED <<taskVars, poolVars, at, restore>>

\* pop, lines 36-41, and thread_entry line 30: take the front work item
\* and call its function.
Take(w) ==
    /\ workq' = Tail(workq)
    /\ at' = [at EXCEPT ![w] = Head(workq)[2]]
    /\ Goto(w, IF Head(workq)[1] = "run" THEN "r_start" ELSE "rs_swap")

\* thread_entry, line 29: pop(pool->workQueue).  A queue that
\* queue_destroy has freed is a NULL pointer, and pop faults on it; a
\* dying queue returns NULL (pop line 25), which ends the loop; an empty
\* one blocks the thread, counted in pending (lines 26-29).
WPop(w) ==
    /\ pc[w] = "w_pop"
    /\ \/ wq = "alive" /\ workq # <<>> /\ Take(w)
       \/ wq = "alive" /\ workq = <<>> /\ Goto(w, "w_wait") /\ UNCHANGED <<workq, at>>
       \/ wq = "dying" /\ Goto(w, "w_exit") /\ UNCHANGED <<workq, at>>
       \/ wq = "freed" /\ Goto(w, "crashed") /\ UNCHANGED <<workq, at>>
    /\ UNCHANGED <<taskVars, freeStacks, entries, slots, restore>>

\* Mutant: queue_destroy's broadcast does not reach a blocked pop.
WWaitNoBroadcast(w) ==
    /\ pc[w] = "w_wait"
    /\ wq = "alive" /\ workq # <<>> /\ Take(w)
    /\ UNCHANGED <<taskVars, freeStacks, entries, slots, restore>>

\* pop, lines 28-35: woken in lock_wait, a pop on a dying queue leaves
\* pending and returns NULL; otherwise it takes the item pushed.
WWait(w) ==
    /\ pc[w] = "w_wait"
    /\ \/ wq = "dying" /\ Goto(w, "w_exit") /\ UNCHANGED <<workq, at>>
       \/ wq = "alive" /\ workq # <<>> /\ Take(w)
    /\ UNCHANGED <<taskVars, freeStacks, entries, slots, restore>>

\* thread_entry, lines 31-32: the function returned; the slot goes back to
\* tasksQueue only if pool->running is still set.
WDone(w) ==
    /\ pc[w] = "w_done"
    /\ at' = [at EXCEPT ![w] = Null]
    /\ Goto(w, IF poolRun THEN "w_push" ELSE "w_loop")
    /\ UNCHANGED <<taskVars, poolVars, restore>>

\* thread_entry, line 32: push(pool->tasksQueue), which faults when
\* queue_destroy has freed the queue since running was read.
WPush(w) ==
    /\ pc[w] = "w_push"
    /\ \/ tq = "alive" /\ slots' = slots + 1 /\ Goto(w, "w_loop")
       \/ tq = "freed" /\ Goto(w, "crashed") /\ UNCHANGED slots
    /\ UNCHANGED <<taskVars, freeStacks, entries, workq, at, restore>>

\* Deferred cancellation: a cancelled pool thread ends at the next
\* cancellation point, which the task function's blocking calls are
\* (poll, SSL reads and writes, pop).
WCancelled(w) ==
    /\ w \in cancel
    /\ pc[w] = "b_run"
    /\ Goto(w, "w_exit")
    /\ UNCHANGED <<taskVars, poolVars, at, restore>>

\* async_run, lines 101-106: take a stack, make a fresh context on it and
\* swap into async_entry, saving the worker's place in caller_ctx.
RStart(w) ==
    LET t == at[w] IN
    /\ pc[w] = "r_start"
    /\ GetStack(t)
    /\ caller' = [caller EXCEPT ![t] = Ctx(w, "r_after")]
    /\ callee' = [callee EXCEPT ![t] = "fresh"]
    /\ Goto(w, "e_start")
    /\ UNCHANGED <<state, tlock, twait, nsusp, tfreed, workq, slots, at, restore>>

\* Mutant: async_run never cleans a detached task.
RAfterNoClean(w) ==
    /\ pc[w] = "r_after"
    /\ Goto(w, "r_after2")
    /\ UNCHANGED <<taskVars, poolVars, at, restore>>

\* async_run, line 108: back from the task; a detached task is cleaned.
RAfter(w) ==
    /\ pc[w] = "r_after"
    /\ Goto(w, IF state[at[w]] = "Detached" THEN "r_clean" ELSE "r_after2")
    /\ UNCHANGED <<taskVars, poolVars, at, restore>>

\* async_run, line 111: the state is read again, still without the lock.
RAfter2(w) ==
    /\ pc[w] = "r_after2"
    /\ Goto(w, IF state[at[w]] \in {"Dead", "Suspended"} THEN "w_done"
               ELSE "r_setsusp")
    /\ UNCHANGED <<taskVars, poolVars, at, restore>>

\* async_run, line 109: asyncTask_clean.
RClean(w) ==
    /\ pc[w] = "r_clean"
    /\ Clean(at[w])
    /\ Goto(w, "w_done")
    /\ UNCHANGED <<state, tlock, twait, caller, callee, nsusp, stk,
                   entries, workq, slots, at, restore>>

\* async_run, line 112: async_set_state(task, AsyncSuspended), which
\* locks, keeps a Detached state, unlocks and signals (lines 68-70).
RSetSusp(w) ==
    LET t == at[w] IN
    /\ pc[w] = "r_setsusp"
    /\ tlock[t] = Null
    /\ IF state[t] # "Detached" THEN SetState(t, "Suspended")
       ELSE UNCHANGED state
    /\ SignalTask(t)
    /\ Goto(w, "w_done")
    /\ UNCHANGED <<tlock, caller, callee, nsusp, stk, tfreed, poolVars,
                   at, restore>>

\* async_resume, line 117: swap into the task's saved context.
RsSwap(w) ==
    LET t == at[w] IN
    /\ pc[w] = "rs_swap"
    /\ caller' = [caller EXCEPT ![t] = Ctx(w, "w_done")]
    /\ Goto(w, IF callee[t] = "susp" THEN "s_check" ELSE "e_start")
    /\ UNCHANGED <<state, tlock, twait, callee, nsusp, stk, tfreed,
                   poolVars, at, restore>>

----
(* Task code, run on the task's stack by whichever thread switched into it *)
----

\* async_entry, line 93.
EStart(th) ==
    LET t == at[th] IN
    /\ pc[th] = "e_start"
    /\ IF state[t] # "Detached" THEN SetState(t, "Running")
       ELSE UNCHANGED state
    /\ Goto(th, "b_run")
    /\ UNCHANGED <<tlock, twait, caller, callee, nsusp, stk, tfreed,
                   poolVars, at, restore>>

\* async_entry, line 94: the task function runs; it calls suspend until
\* it has done so NSusp[t] times, then returns.
BRun(th) ==
    /\ pc[th] = "b_run"
    /\ Goto(th, IF nsusp[at[th]] < NSusp[at[th]] THEN "s_lock" ELSE "e_dead")
    /\ UNCHANGED <<taskVars, poolVars, at, restore>>

\* suspend, lines 184-195: under the lock, a detached task returns at once;
\* otherwise the state becomes Suspended, getcontext saves the resume
\* point, and caller_ctx is copied while the lock is still held.
SLock(th) ==
    LET t == at[th] IN
    /\ pc[th] = "s_lock"
    /\ tlock[t] = Null
    /\ IF state[t] = "Detached"
       THEN /\ nsusp' = [nsusp EXCEPT ![t] = @ + 1]
            /\ Goto(th, "b_run")
            /\ UNCHANGED <<state, tlock, callee, restore>>
       ELSE /\ SetState(t, "Suspended")
            /\ callee' = [callee EXCEPT ![t] = "susp"]
            /\ restore' = [restore EXCEPT ![th] = caller[t]]
            /\ tlock' = [tlock EXCEPT ![t] = th]
            /\ Goto(th, "s_unlock")
            /\ UNCHANGED nsusp
    /\ UNCHANGED <<twait, caller, stk, tfreed, poolVars, at>>

\* suspend, line 193, where a resumed task continues after getcontext: the
\* state is tested without the lock; Running returns from suspend, a state
\* still Suspended runs the unlock_signal/setcontext tail again.
SCheck(th) ==
    LET t == at[th] IN
    /\ pc[th] = "s_check"
    /\ IF state[t] = "Suspended"
       THEN /\ restore' = [restore EXCEPT ![th] = caller[t]]
            /\ Goto(th, "s_unlock")
            /\ UNCHANGED nsusp
       ELSE /\ nsusp' = [nsusp EXCEPT ![t] = @ + 1]
            /\ Goto(th, "b_run")
            /\ UNCHANGED restore
    /\ UNCHANGED <<state, tlock, twait, caller, callee, stk, tfreed,
                   poolVars, at>>

\* suspend, line 196: the unlock of unlock_signal.
SUnlock(th) ==
    /\ pc[th] = "s_unlock"
    /\ tlock' = [tlock EXCEPT ![at[th]] = Null]
    /\ Goto(th, "s_jump")
    /\ UNCHANGED <<state, twait, caller, callee, nsusp, stk, tfreed,
                   poolVars, at, restore>>

\* suspend, lines 196-197: signal, then setcontext to the copied caller.
SJump(th) ==
    /\ pc[th] = "s_jump"
    /\ SignalTask(at[th])
    /\ JumpTo(th, restore[th])
    /\ UNCHANGED <<state, tlock, caller, callee, nsusp, stk, tfreed,
                   poolVars, at, restore>>

\* async_entry, lines 94-96: the function returned; caller_ctx is copied
\* and async_set_state(task, AsyncDead) locks and sets Dead unless the
\* task is Detached (lines 68-69).
EDead(th) ==
    LET t == at[th] IN
    /\ pc[th] = "e_dead"
    /\ tlock[t] = Null
    /\ tlock' = [tlock EXCEPT ![t] = th]
    /\ IF state[t] # "Detached" THEN SetState(t, "Dead")
       ELSE UNCHANGED state
    /\ restore' = [restore EXCEPT ![th] = caller[t]]
    /\ Goto(th, "e_unlock")
    /\ UNCHANGED <<twait, caller, callee, nsusp, stk, tfreed, poolVars, at>>

\* async_set_state, line 70: the unlock of unlock_signal.
EUnlock(th) ==
    /\ pc[th] = "e_unlock"
    /\ tlock' = [tlock EXCEPT ![at[th]] = Null]
    /\ Goto(th, "e_jump")
    /\ UNCHANGED <<state, twait, caller, callee, nsusp, stk, tfreed,
                   poolVars, at, restore>>

\* async_set_state line 70 and async_entry line 97: signal, setcontext.
EJump(th) ==
    /\ pc[th] = "e_jump"
    /\ SignalTask(at[th])
    /\ JumpTo(th, restore[th])
    /\ UNCHANGED <<state, tlock, caller, callee, nsusp, stk, tfreed,
                   poolVars, at, restore>>

----
(* Application thread t: async() on t, then the API calls in Ops[t]          *)
----

\* async, lines 171-178: a calloc'ed Unborn task whose async_run is queued.
OSpawn(t) ==
    /\ pc[t] = "o_spawn"
    /\ PushWork("run", t)
    /\ Goto(t, "o_choose")
    /\ UNCHANGED <<taskVars, freeStacks, entries, at, restore>>

\* The application's next call on its task handle.
OChoose(t) ==
    /\ pc[t] = "o_choose"
    /\ \E op \in Ops[t] :
         Goto(t, CASE op = "resume" -> "res_check"
                   [] op = "await"  -> "aw_loop"
                   [] op = "detach" -> "dt_lock"
                   [] op = "wait_yield" -> "wy_wait"
                   [] op = "get_yield" -> "gy_lock"
                   [] op = "wait_time" -> "wt_wait")
    /\ UNCHANGED <<taskVars, poolVars, at, restore>>

\* resume, line 202: only a Suspended task is resumed (read without lock).
ResCheck(t) ==
    /\ pc[t] = "res_check"
    /\ Goto(t, IF state[t] = "Suspended" THEN "res_lock" ELSE "o_choose")
    /\ UNCHANGED <<taskVars, poolVars, at, restore>>

\* resume, lines 203-205.
ResLock(t) ==
    /\ pc[t] = "res_lock"
    /\ tlock[t] = Null
    /\ SetState(t, "Running")
    /\ Goto(t, "res_push")
    /\ UNCHANGED <<tlock, twait, caller, callee, nsusp, stk, tfreed,
                   poolVars, at, restore>>

\* resume, line 206: async_resume is queued on the pool.
ResPush(t) ==
    /\ pc[t] = "res_push"
    /\ PushWork("resume", t)
    /\ Goto(t, "o_choose")
    /\ UNCHANGED <<taskVars, freeStacks, entries, at, restore>>

\* await, lines 256-257 and 261-262: the unlocked reads of task->state.
\* Until the task is Dead, a Suspended task goes on to be switched into;
\* otherwise the thread waits for a state change.
AwLoop(t) ==
    /\ pc[t] = "aw_loop"
    /\ Goto(t, CASE state[t] = "Dead"      -> "aw_clean"
                  [] state[t] = "Suspended" -> "aw_set"
                  [] OTHER                  -> "aw_wait")
    /\ UNCHANGED <<taskVars, poolVars, at, restore>>

\* await, lines 258-259: the state read a step before is overwritten with
\* Running, still without the lock, and the task is resumed on this
\* thread, whatever a resume, detach or worker did in between.
AwSet(t) ==
    /\ pc[t] = "aw_set"
    /\ SetState(t, "Running")
    /\ caller' = [caller EXCEPT ![t] = Ctx(t, "aw_loop")]
    /\ Goto(t, IF callee[t] = "susp" THEN "s_check" ELSE "e_start")
    /\ UNCHANGED <<tlock, twait, callee, nsusp, stk, tfreed, poolVars,
                   at, restore>>

\* async_wait_suspend, lines 74-81, no timeout: under the lock, wait on
\* task->signal while the task is Running.
AwWait(t) ==
    /\ pc[t] = "aw_wait"
    /\ tlock[t] = Null
    /\ IF state[t] = "Running"
       THEN /\ twait' = [twait EXCEPT ![t] = @ \cup {t}]
            /\ Goto(t, "aw_waiting")
       ELSE /\ Goto(t, "aw_loop")
            /\ UNCHANGED twait
    /\ UNCHANGED <<state, tlock, caller, callee, nsusp, stk, tfreed,
                   poolVars, at, restore>>

\* async_wait_suspend, lines 77-80: signalled, relock, read, unlock.
AwWaiting(t) ==
    /\ pc[t] = "aw_waiting"
    /\ t \notin twait[t]
    /\ tlock[t] = Null
    /\ Goto(t, "aw_loop")
    /\ UNCHANGED <<taskVars, poolVars, at, restore>>

\* await, lines 266-267: the task is Dead: read ret and clean it.
AwClean(t) ==
    /\ pc[t] = "aw_clean"
    /\ Clean(t)
    /\ Goto(t, "o_done")
    /\ UNCHANGED <<state, tlock, twait, caller, callee, nsusp, stk,
                   entries, workq, slots, at, restore>>

\* async_detach, lines 285-299: under the lock, a Dead task is cleaned by
\* the caller; any other becomes Detached, and a Suspended one is queued
\* for async_resume.
DtLock(t) ==
    /\ pc[t] = "dt_lock"
    /\ tlock[t] = Null
    /\ IF state[t] = "Dead"
       THEN Goto(t, "dt_clean") /\ UNCHANGED state
       ELSE /\ SetState(t, "Detached")
            /\ Goto(t, IF state[t] = "Suspended" THEN "dt_push" ELSE "o_done")
    /\ UNCHANGED <<tlock, twait, caller, callee, nsusp, stk, tfreed,
                   poolVars, at, restore>>

\* async_detach, line 289.
DtClean(t) ==
    /\ pc[t] = "dt_clean"
    /\ Clean(t)
    /\ Goto(t, "o_done")
    /\ UNCHANGED <<state, tlock, twait, caller, callee, nsusp, stk,
                   entries, workq, slots, at, restore>>

\* async_detach, line 298.
DtPush(t) ==
    /\ pc[t] = "dt_push"
    /\ PushWork("resume", t)
    /\ Goto(t, "o_done")
    /\ UNCHANGED <<taskVars, freeStacks, entries, at, restore>>

\* What wait_yield and get_yield do with the state they read under the
\* lock (lines 216-226, 240-249): Suspended hands back the yield, Dead
\* hands back the result and cleans the task; wait_yield retries any other.
AfterYield(t, s, retry) ==
    CASE s = "Dead"      -> Goto(t, "yd_clean")
      [] s = "Suspended" -> Goto(t, "o_choose")
      [] OTHER           -> Goto(t, retry)

\* wait_yield, line 215: async_wait_suspend(task, 0) waits on the signal
\* while the task is Running (lines 74-78), reads the state and unlocks.
WyWait(t) ==
    /\ pc[t] = "wy_wait"
    /\ tlock[t] = Null
    /\ IF state[t] = "Running"
       THEN /\ twait' = [twait EXCEPT ![t] = @ \cup {t}]
            /\ Goto(t, "wy_waiting")
       ELSE /\ AfterYield(t, state[t], "wy_wait")
            /\ UNCHANGED twait
    /\ UNCHANGED <<state, tlock, caller, callee, nsusp, stk, tfreed,
                   poolVars, at, restore>>

\* async_wait_suspend, lines 77-80, in wait_yield: signalled, relock and
\* read the state.
WyWaiting(t) ==
    /\ pc[t] = "wy_waiting"
    /\ t \notin twait[t]
    /\ tlock[t] = Null
    /\ AfterYield(t, state[t], "wy_wait")
    /\ UNCHANGED <<taskVars, poolVars, at, restore>>

\* get_yield, lines 235-238: state and ret read under the lock, no wait.
GyLock(t) ==
    /\ pc[t] = "gy_lock"
    /\ tlock[t] = Null
    /\ AfterYield(t, state[t], "o_choose")
    /\ UNCHANGED <<taskVars, poolVars, at, restore>>

\* wait_yield line 224, get_yield line 248: asyncTask_clean of a Dead task.
YdClean(t) ==
    /\ pc[t] = "yd_clean"
    /\ Clean(t)
    /\ Goto(t, "o_done")
    /\ UNCHANGED <<state, tlock, twait, caller, callee, nsusp, stk,
                   entries, workq, slots, at, restore>>

\* wait_time, ms >= 1 (line 276): async_wait_suspend with a timeout waits
\* while the task is Running; any other state returns the yield at once
\* (lines 277-278), a Dead task included, which is not cleaned.
WtWait(t) ==
    /\ pc[t] = "wt_wait"
    /\ tlock[t] = Null
    /\ IF state[t] = "Running"
       THEN /\ twait' = [twait EXCEPT ![t] = @ \cup {t}]
            /\ Goto(t, "wt_waiting")
       ELSE /\ Goto(t, "o_choose")
            /\ UNCHANGED twait
    /\ UNCHANGED <<state, tlock, caller, callee, nsusp, stk, tfreed,
                   poolVars, at, restore>>

\* lock_timedwait returns when signalled or when the time is up (the
\* thread leaves the waiters), relocks and reads; wait_time returns
\* either way (lines 276-281), leaving the state alone.
WtWaiting(t) ==
    /\ pc[t] = "wt_waiting"
    /\ tlock[t] = Null
    /\ twait' = [twait EXCEPT ![t] = @ \ {t}]
    /\ Goto(t, "o_choose")
    /\ UNCHANGED <<state, tlock, caller, callee, nsusp, stk, tfreed,
                   poolVars, at, restore>>

----
(* The main thread: async_engine_stop, once the application has dropped   *)
(* every handle (http_server_clean, after the listener has been awaited). *)
----

\* No pool thread has faulted on a freed queue: the process is alive.
Alive == \A w \in Workers : pc[w] # "crashed"

\* async_engine_stop, line 145, into threadPool_destroy, line 63.
MStop ==
    /\ mpc = "m_run"
    /\ Stoppable
    /\ \A t \in Tasks : pc[t] = "o_done"
    /\ poolRun' = FALSE
    /\ mpc' = "m_tq"
    /\ UNCHANGED <<tq, wq, cancel>>

\* threadPool_destroy, line 65: queue_destroy(&pool->tasksQueue).  No
\* thread ever waits in it (it holds a place for every work item), so
\* it is freed at once.
MDestroyTasks ==
    /\ mpc = "m_tq"
    /\ tq' = "freed"
    /\ mpc' = "m_wq"
    /\ UNCHANGED <<poolRun, wq, cancel>>

\* threadPool_destroy, line 66, into queue_destroy line 74: alive = false.
MKillWork ==
    /\ mpc = "m_wq"
    /\ wq' = "dying"
    /\ mpc' = "m_wq_free"
    /\ UNCHANGED <<poolRun, tq, cancel>>

\* queue_destroy, lines 75-84: broadcast until no pop is pending, then
\* free the queue; pool->workQueue becomes NULL.
MFreeWork ==
    /\ mpc = "m_wq_free"
    /\ \A w \in Workers : pc[w] # "w_wait"
    /\ wq' = "freed"
    /\ mpc' = "m_cancel"
    /\ UNCHANGED <<poolRun, tq, cancel>>

\* threadPool_destroy, lines 68-74 (force): pthread_cancel each thread in
\* turn and pthread_join it before the next.
MCancel ==
    /\ mpc = "m_cancel"
    /\ \A u \in cancel : pc[u] = "w_exit"
    /\ \E w \in Workers \ cancel : cancel' = cancel \cup {w}
    /\ UNCHANGED <<poolRun, tq, wq, mpc>>

\* threadPool_destroy, lines 72-77: the last join returned; tasks and the
\* pool are freed.  async_engine_stop, line 146: running = false.
MFreePool ==
    /\ mpc = "m_cancel"
    /\ cancel = Workers
    /\ \A w \in Workers : pc[w] = "w_exit"
    /\ mpc' = "m_unmap"
    /\ UNCHANGED <<poolRun, tq, wq, cancel>>

\* async_engine_stop, lines 148-157: munmap every stack of
\* async_ctrl.sps, free the array and the lock.
MUnmap ==
    /\ mpc = "m_unmap"
    /\ mpc' = "m_done"
    /\ UNCHANGED <<poolRun, tq, wq, cancel>>

Main ==
    /\ Alive
    /\ \/ MStop \/ MDestroyTasks \/ MKillWork \/ MFreeWork \/ MCancel
       \/ MFreePool \/ MUnmap
    /\ UNCHANGED <<taskVars, poolVars, thrVars>>

----

TaskCode(th) ==
    \/ EStart(th) \/ BRun(th) \/ SLock(th) \/ SCheck(th) \/ SUnlock(th)
    \/ SJump(th) \/ EDead(th) \/ EUnlock(th) \/ EJump(th)

\* Pool threads read the stop state and never write it.
Worker(w) ==
    /\ Alive
    /\ \/ WLoop(w) \/ WPop(w) \/ WWait(w) \/ WDone(w) \/ WPush(w)
       \/ WCancelled(w) \/ RStart(w) \/ RAfter(w) \/ RAfter2(w)
       \/ RClean(w) \/ RSetSusp(w) \/ RsSwap(w) \/ TaskCode(w)
    /\ UNCHANGED stopVars

App(t) ==
    /\ Alive
    /\ UNCHANGED stopVars
    /\ \/ OSpawn(t) \/ OChoose(t) \/ ResCheck(t) \/ ResLock(t) \/ ResPush(t)
       \/ AwLoop(t) \/ AwSet(t) \/ AwWait(t) \/ AwWaiting(t) \/ AwClean(t)
       \/ DtLock(t) \/ DtClean(t) \/ DtPush(t) \/ WyWait(t) \/ WyWaiting(t)
       \/ GyLock(t) \/ YdClean(t) \/ WtWait(t) \/ WtWaiting(t) \/ TaskCode(t)

\* Every application thread has dropped its handle and the pool threads
\* block in pop on an empty work queue, or the engine has been stopped,
\* or the process has faulted: nothing more happens.  A thread gone
\* astray has left the model.
Idle ==
    /\ \/ /\ \A t \in Tasks : pc[t] \in {"o_done", "astray"}
          /\ \A w \in Workers : pc[w] \in {"w_wait", "astray"}
          /\ workq = <<>>
       \/ mpc = "m_done"
       \/ ~Alive
    /\ UNCHANGED vars

Next ==
    \/ \E w \in Workers : Worker(w)
    \/ \E t \in Tasks : App(t)
    \/ Main
    \/ Idle

\* Every OS thread keeps being scheduled while it can run.  The main
\* thread's decision to stop is the application's and is not forced.
Fairness ==
    /\ \A w \in Workers : WF_vars(Worker(w))
    /\ \A t \in Tasks : WF_vars(App(t))
    /\ WF_vars(Main /\ mpc # "m_run")

Spec == Init /\ [][Next]_vars /\ Fairness

----
(* Properties                                                              *)
----

TypeOK ==
    /\ state \in [Tasks -> States]
    /\ tlock \in [Tasks -> Threads \cup {Null}]
    /\ twait \in [Tasks -> SUBSET Tasks]
    /\ callee \in [Tasks -> {"fresh", "susp"}]
    /\ \A t \in Tasks : nsusp[t] \in 0 .. NSusp[t] + 1
    /\ stk \in [Tasks -> Stacks \cup {Null}]
    /\ tfreed \in [Tasks -> BOOLEAN]
    /\ freeStacks \subseteq Stacks
    /\ entries \in 1 .. MaxStacks
    /\ workq \in Seq({"run", "resume"} \X Tasks)
    /\ slots \in 0 .. WorkSlots
    /\ pc \in [Threads -> PoolPcs \cup TaskPcs \cup AppPcs]
    /\ at \in [Threads -> Tasks \cup {Null}]
    /\ caller \in [Tasks -> Contexts \cup {Null}]
    /\ restore \in [Threads -> Contexts \cup {Null}]
    /\ poolRun \in BOOLEAN
    /\ tq \in {"alive", "freed"}
    /\ wq \in {"alive", "dying", "freed"}
    /\ cancel \subseteq Workers
    /\ mpc \in {"m_run", "m_tq", "m_wq", "m_wq_free", "m_cancel", "m_unmap",
                "m_done"}

\* A task is live from async() until asyncTask_clean.
Live(t) == pc[t] # "o_spawn" /\ ~tfreed[t]

\* The stack of async_ctrl.sps: every stack mapped so far is either free
\* in the pool or held by exactly one live task, never both.
StackAccounting ==
    /\ \A t \in Tasks : Live(t) /\ stk[t] # Null => stk[t] \notin freeStacks
    /\ \A t, u \in Tasks :
         t # u /\ Live(t) /\ Live(u) /\ stk[t] # Null => stk[t] # stk[u]
    /\ 1 .. entries = freeStacks \cup {stk[t] : t \in {u \in Tasks : Live(u) /\ stk[u] # Null}}

\* Only one thread executes a task's stack at any instant (spec, section
\* 3): no two threads run task code on the same stack, be it two threads
\* in one task or a stack handed to a new task while the old one's thread
\* has not left it.
OneThreadPerStack ==
    \A th1, th2 \in Threads :
        th1 # th2 /\ pc[th1] \in TaskPcs /\ pc[th2] \in TaskPcs
            => stk[at[th1]] # stk[at[th2]]

\* The tasks used the way the reactor uses them (http.c lines 479-480):
\* spawned, detached at once, never suspended.
ReactorTasks == {t \in Tasks : Ops[t] = {"detach"} /\ NSusp[t] = 0}

\* A detached task cleans up after itself (spec 4.3, detach): it is
\* eventually freed and its stack returned to the pool, also while other
\* tasks are resumed, awaited and detached around it, unless the engine is
\* stopped first.  Detached, freed and a begun stop are each kept for
\* ever, so "Detached leads to freed or stopped" is stated as: time and
\* again the task is not Detached, or is freed, or the stop has begun.
DetachedCleanedUp ==
    \A t \in ReactorTasks :
        []<>(state[t] # "Detached" \/ tfreed[t] \/ mpc # "m_run")

\* async_engine_stop returns (spec 4.2: destroy(force) stops both queues
\* and cancels and joins every worker): queue_destroy's broadcasts wake
\* every pop blocked on the work queue, and every pool thread ends, on a
\* dying queue, at a cancellation point or at the running test, so each
\* pthread_join returns.  Only a process that has already faulted, or a
\* thread sent onto another thread's stack (engine_share), stops it.
\* A begun stop, its end, a fault and a thread astray are each kept for
\* ever, so the leads-to is stated as a recurrence.
StopCompletes ==
    []<>(\/ mpc \in {"m_run", "m_done"}
         \/ ~Alive
         \/ \E th \in Threads : pc[th] = "astray")

====
