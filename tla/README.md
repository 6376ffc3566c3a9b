# TLA+ models of Tiny-Https-Server

This directory holds TLA+ models of the concurrent core of the server in
`src/` and of the portfolio application it serves, and the TLC configurations that check them. `PROJECT.json` lists
the components, the runs, the map from every definition to the source
lines it translates, the findings and the hazards.

## The system and how its parts interact

* **BoundedQueue** (`src/libs/queue.c`, `lock.h`) is a ring buffer of
  `void*` guarded by a mutex and two condition variables. `pop` blocks
  while the queue is empty and `push` blocks while it is full.
  `queue_destroy` marks the queue dead, wakes waiters until `pending` is 0,
  and then frees it.
* **WorkerPool** (`src/libs/threadpool.c`) is a set of threads that pop
  work items from one queue. A second queue, `tasksQueue`, holds the free
  work-item records: `threadPool_pushWork` blocks until one is free.
* **TaskEngine** (`src/libs/async.c`) runs coroutines ("tasks") on the
  pool threads with `ucontext`.
  * `async` queues `async_run`, which takes a stack from a shared pool
    and switches into the task.
  * `suspend` saves the task's context and jumps back.
  * `resume` queues `async_resume`; `await` resumes the task on the
    caller's own thread.
  * `async_detach` hands clean-up to the engine.
* **ConnectionReactor** (`src/server/http.c`) is the reactor task,
  `http_server_worker`, on one pool thread. It polls the listening socket
  and a table of connection slots.
  * The first record that arrives on an idle connection spawns a
    detached `http_process_request` task. Records that arrive while that
    task runs are pushed into the connection's `requests` queue, under
    `con->lock`.
  * The task assembles the header from those records, answers, and
    either pops the next record or clears `running`, again under
    `con->lock`.
  * A header with a `Content-Length` whose body has not arrived makes
    the task pop further records until it has (`http_get_request_body`).
  * Idle connections time out on `poll` timeouts, and slots are reused
    by `accept`.
  * On SIGINT, `main` (`server.c`) calls `http_server_stop`. That clears
    `active`, awaits the reactor task's exit from its loop, and closes
    every connection. Then `app_stop` and `http_server_clean` run, whose
    `async_engine_stop` cancels the pool threads, and `main` returns.
* **SessionManager** (`src/http_libs/http_session.c`) keeps the users
  (an array of names under a rwlock) and the sessions (an array of slots
  with an id, a user and an expiry, under a second rwlock). The handlers
  of `app/app.c` call it from pool threads: register pushes a new user
  on a work queue, login takes a slot and sets a cookie, logout frees
  the slot. A session task on its own pool thread expires sessions once
  a cycle and appends queued users to `users.db`, then rewrites the
  count in `.meta.bin`. `load_user_db` reads that many records back at
  start.
* The **RoutingTrie** (`http.c`) maps a URL to a node. `app_start`
  registers ten routes with `http_register_method` before the server
  starts. `http_process_request` resolves each request's URL, takes the
  node's handler for the method, and calls it. An empty slot gives 405
  and an unknown method gives 400. The handler sets the response
  (**ResponseBuilder**).
* The **AppHandlers** (`app/app.c`) run on the pool thread of the
  request's processor, so requests from different connections run in
  parallel. They consult the SessionManager for the cookie's session.
  The portfolio handlers call the **Backend** (`app/backend`): one
  directory per user, and one CSV file per coin, appended to by
  `post_coin`. Nothing locks these files.

## Modules

| Module | Models |
|---|---|
| `FifoQueue` | What `queue.h` promises: a bounded FIFO buffer. |
| `BoundedQueue` | `queue.c`. There is one action per stretch of code that holds `queue->lock`, and one per access made without it: the alive test, the unlock and the signal of `unlock_signal`, and `queue_destroy`'s steps. Freed memory keeps its contents, so a late access is observable. `Abstract == INSTANCE FifoQueue WITH items <- Items` is the refinement. |
| `MCBoundedQueue` | Model values for three clients and two data items. |
| `TaskEngine` | All of `async.c` (every call of `async.h`) and all of `threadpool.c`: `thread_entry`, `pushWork`, and the stop through `async_engine_stop` and `threadPool_destroy(force)`. See the detail below. |
| `MCTaskEngine` | Model values for two workers and up to three tasks, and the per-task suspend counts and calls. |
| `SessionManager` | `http_session.c` and the session part of the register, login and logout handlers, with crashes. See the detail below. |
| `MCSessionManager` | Model values for two handler threads, names and ids, and the symmetry over them. |
| `HttpExchange` | What the server promises one client connection: it is accepted or turned away, lives until the server closes it, and while it lives the k-th response answers the client's k-th completely sent request. |
| `Reactor` | `http_server_worker` and `http_process_request` (header and body assembly), with `http_open_connection`, `http_close_connection`, `empty()` and the shutdown path of `server.c` and `http_server_stop`/`http_server_clean`. `Exchange(g) == INSTANCE HttpExchange WITH ...`, one instance per client, is the refinement. See the detail below. |
| `App` | The routing trie, the method dispatch, the ten handlers of `app.c` and the backend's file steps, on several threads. See the detail below. |
| `MCApp` | Model values for two threads, one user, one portfolio and one coin, and the requests a browser of that user sends. |

**TaskEngine in detail.**
* Every OS thread (a pool worker or an application thread) has a pc.
* A task's code runs on whichever thread switched into it.
* A saved `ucontext` is a record `[thread, pc]`. `setcontext` to a
  context saved by another thread sends the thread `"astray"`: it is now
  running the other thread's stack frames.
* Stacks are numbers. `freeStacks` is the set `async_ctrl.sps` holds, and
  `entries` is `stacks_entries`.
* The task function is abstracted to "suspend `NSusp[t]` times, then
  return", and `Ops[t]` is the set of calls the application makes on
  task `t`. `ReactorTasks` are the tasks used as `http_server_worker`
  uses them: detached at once and never suspended.
* `wait_yield`, `get_yield` and `wait_time` are application calls. They
  hand back a yield or a result; only which of them do so is modelled,
  not the value.
* The pool's stop state:
  * `poolRun` is `pool->running`;
  * `tq` and `wq` are the two queues, each "alive", "dying"
    (`alive = false`) or "freed" (the pointer is NULL);
  * `cancel` holds the threads `pthread_cancel` was called on;
  * `mpc` is the main thread's place in `async_engine_stop`.
* The main thread stops the engine once every application thread has
  dropped its handle, as `http_server_clean` does after the listener
  has been awaited. Cancellation is deferred: a cancelled worker ends at
  a cancellation point, which the task function's blocking calls are. A
  worker that calls `pop` or `push` on a freed queue is `"crashed"`, and
  the process stops (`Alive`).
* `await`'s unlocked reads of the state (`AwLoop`) and its write of
  `Running` before the switch (`AwSet`) are separate steps, so a resume,
  detach or worker may act in between.

**Reactor in detail.**
* Clients are the environment. Each record is
  `[g (connection), n (request), part]`. The part is one of:
  * "full": a whole request;
  * "head": a header without its blank line, later followed by "tail";
  * "hbody": a complete header whose body is missing, later followed by
    "body";
  * "garbage": an error buffer.
* `mpc` is `main`'s progress through shutdown: `Stop` (SIGINT, `active`
  cleared), `ReactorExit` (the loop test at line 446), `AwaitListener`,
  `CloseAll` (lines 638-647) and `Exit` (`http_server_clean`, with the
  pool threads cancelled). `Halt` lets the ended process, faulted or
  exited, stutter. Clients stop acting once SIGINT has come. The reactor
  reads nothing more after that, so their later steps would only grow
  socket buffers that nobody reads.
* The refinement maps client g's side of the exchange:
  * `conn` is "open" while g holds a slot and the process lives, since
    the end of the process closes every socket;
  * `done` counts the requests g has sent completely;
  * `replies` names the request each response answers.
* The request queue is a sequence. BoundedQueue shows that the ring
  behaves as one, and the `qalive` flag stands for `alive`.
* A processor is named by the pool work item it holds, and it needs a
  free pool thread to run. The reactor task and the session task
  (`async(session_task, ...)`, http_session.c line 351, started by
  `app_start` on the same engine) each hold a work item and a thread for
  good, so processors get `WorkItems - 2` items and `Threads - 2`
  threads.
* `http_close_connection` destroys the request queue: the records still
  in it go, `con->requests` is NULL, and a later `pop` on it faults.
* Undefined behaviour (a NULL from `pop` dereferenced, `SSL_write` on a
  NULL session, indexing before a buffer) is a nondeterministic fault
  (`crashed`) or a processor stuck for ever.

**SessionManager in detail.**
* Each handler thread has a pc per stretch of code between lock
  operations: register (`r_push`), login (`l_lock`, `l_id`, `l_ref`,
  `l_cookie`) and logout (`o_lock`, `o_ulock`). The session task has
  its own pc for the expiry scan, the frees, the drain and the meta
  write. After a stop it may finish the interrupted iteration, with or
  without the expiry, or leave at the while test without a write-back
  (`TStopSeen`).
* A lookup under a read lock is folded into the step that follows it.
  That is sound here: a cookie that does not resolve does not start to
  resolve while the lock is dropped.
* A rwlock is its writer. Readers never block each other, and glibc
  gives `EDEADLK` to a thread that already holds the write lock, which
  the code ignores: `CanLock` lets that thread through. This is how the
  write lock leaked at line 157 is freed again.
* `db` and `meta` are the two files, and `cookie` is the browser's. They
  survive `Restart`, which reloads everything else through `Boot`
  (`load_user_db`). `saved` is a ghost: the users whose record and
  count were both written.
* `cgen` and `sgen` number the sessions array's reallocations. A login's
  id write through a pointer from before a reallocation is lost.

**App in detail.**
* A URL is a sequence of tokens: `"/"` and path segments. The trie is a
  sequence of node records, and `http_resolve_path`, `AddPaths` and
  `http_register_method` are RECURSIVE operators that follow the C
  loops step by step, including the `remain_len` label of line 664.
  `Trie` folds `AppRoutes` (app.c lines 425-434) through them.
* A request is a record: method, URL, query string, the name in a
  login or register body, the coin of a transaction body, and the user
  whose cookie it carries. `Receive` resolves and dispatches it. Each
  handler that touches no file answers in that step.
* Sessions are abstract here: `logged` is the set of names with a live
  session, and `Expire` is the session task. SessionManager models them
  in detail.
* `post_register` is two steps: the register, then `PortfolioCreate`.
  `post_coin` is four: `CSV_load`, `CSV_create` when the load fails,
  the seek to the end, and the write with its `fflush`.
* A coin file is `Missing` or its sequence of data lines. A line is an
  id and a ghost tag, numbered by `ntx`, that names the post that wrote
  it. `acked` holds the posts answered 201. A write at an offset that is
  no longer the end replaces the line there. That is exact for lines of
  equal length, which this format usually produces.
* Undefined behaviour is a choice between an answer and a fault that
  stops the process (`crashed`). This covers a call through an
  uninitialised `put` slot, the unterminated coin list, `malloc(0)` and
  an uninitialised `csv`, and `fprintf` to a NULL file.

## Runs and what they show

### Passing runs

| Run | What it shows |
|---|---|
| `queue` | Three threads, a queue of 2, every call and `queue_destroy` at any moment. The ring refines `FifoQueue` (`ImplementsFifo`). No thread sleeps on a condition while the queue has what it waits for and nobody is left to signal it (`NoLostWakeup`). `queue_destroy` terminates (`DestroyCompletes`). |
| `engine_api` | One task suspends once and gets every call of the API in any order: resume, await, detach, `wait_yield`, `get_yield` and `wait_time`. A second task is used the reactor's way: spawned and detached at once. Both run on two pool threads with one work slot, and then the main thread may stop the engine. The stack pool accounting holds (`StackAccounting`). The reactor-style task is always cleaned up and its stack returned, whatever the other task does, unless the engine stops first (`DetachedCleanedUp`). The stop returns: `queue_destroy` wakes every blocked pop, and every join returns (`StopCompletes`). |
| `reactor` | The hand-off holds: `running` is true exactly while one task drains the connection (`RunningIffDraining`). Seen from each client, the reactor implements `HttpExchange` (`ImplementsExchange`). Responses go only to a connection in the table, only to requests whose header, and body if any, have fully arrived, each once and in order. A complete request on a connection that stays open is answered. A hang-up closes the connection (`HangupClosesConnection`). With one slot, the `nfds` bookkeeping is left to `reactor_any`, and shutdown is not asked about: the reactor never blocks here, and `Exit` abstracts the joins. |
| `sessions` | Two handler threads register, log in and log out against the session task, with the leaked lock, the array growth, expiry, a stop and a crash at any point. The count in `.meta.bin` never exceeds the records in `users.db` (`MetaWithinDb`). |
| `reactor_any` | Two slots, three clients, resets, half-closes, slow handlers and a one-entry queue: every action of the reactor fires, and open slots stay polled. |

### Violation runs

Each of these is a finding in `PROJECT.json`.

| Run | Violated property | What TLC finds |
|---|---|---|
| `queue_uaf` | `NoUseAfterFree` | `queue_destroy` frees the queue under a thread that is between the unlocked `alive` test and `pending++`, or in the unlock/signal tail. |
| `engine_share` | `OneThreadPerStack` | The freed stack is given to the next task while the old worker still runs on it. |
| `reactor_full` | `ReactorProgress` | The reactor blocks in `push` on a full queue while holding `con->lock`. The processor needs that lock before it pops, so both wait for ever. |
| `sessions_crash` | `SavedUsersSurvive` | A crash between the `users.db` append and the count rewrite leaves an uncounted record. Later users are appended behind it, and a second restart loads the orphan in their place. |
| `sessions_slot` | `LoginTakesFreeSlot` | The expiry scan collects a slot, and a logout and a login run before the frees. The loop frees the already-free slot and lowers `last` below a live session (line 98). The next login is given that live slot and takes over its session. |
| `reactor_reuse` | `ResponsesInOrder` | A connection times out while its request is being processed, and its slot is reused. The new client gets the old response. |
| `app_race` | `TransactionsKept` | Two requests post the first transactions of one coin. Both fail `CSV_load`. The first `CSV_create`s the file, appends its line and answers 201. The second `CSV_create` then truncates the file with `fopen(path, "w")`, and the acknowledged transaction is gone (csv.c line 7). |

Every property of a passing run has a mutant in `PROJECT.json`: an
operator next to the definition it replaces, written as a plausible bug
(a dropped guard, a missing reset, an off-by-one). TLC finds the property
violated with that mutant.

### Defects the models reach that no run keeps

The models reproduce these; `PROJECT.json` lists them as hazards.

* `empty()` reads a full queue as empty (queue.c line 19), so a
  processor quits with requests queued once a connection queue fills
  (the `reactor` run keeps it from filling).
* `async_run` reads `task->state` after `async_detach` may have freed the
  task (async.c line 108).
* `async_run`'s unlocked state test followed by `set_state(Suspended)`
  revives a task that died in between (async.c line 111).
* `async_await` reads `Suspended`, sets `Running` and switches into the
  task without the task lock (async.c line 259). A worker in
  `async_suspend` that has set `Suspended` but not yet swapped out is
  still on the task's stack. TLC reaches both threads on one stack in
  the `engine_api` configuration. `OneThreadPerStack` states the rule,
  but its run (`engine_share`) uses a configuration without `await`.
* Detaching a Suspended task goes through `async_resume`, which never
  cleans up (async.c line 298).
* `SSL_read`'s -1, stored in a `size_t`, is handed on as data
  (http.c line 469).
* At shutdown, a pool thread that read `pool->running` just before
  `threadPool_destroy` cleared it calls `pop` on the work queue
  (threadpool.c line 29) after `queue_destroy` has freed it and set
  the pointer to NULL, and the process faults. The same happens with
  the push of line 32. The thread is not counted in `pending`, and it
  is at no cancellation point. TLC reaches it in the `engine_api`
  configuration: worker w2 reads `running`, the main thread runs both
  `queue_destroy` calls, and w2 pops NULL.
* A peer close in the middle of a header leaves the connection open and
  the reactor spinning (http.c line 489).
* Registering a taken name returns without unlocking the user write
  lock (http_session.c line 157). Logins, logouts and the session task
  then block until the same thread registers again.
* The session task's drain uses `empty()` (line 106). Once the work
  queue fills in one cycle it is never drained, and registrations block.
* A login's id write after unlocking (line 219) can land in the freed
  sessions array when another login reallocates it.
* A request that registers a name and a `post_coin` of that user that
  runs before `PortfolioCreate` make `CSV_create` `fprintf` to NULL
  (app.c line 167). The same file race that `app_race` shows also lets two
  appends overwrite each other (csv.c line 99), and lets them write the
  same id (line 96).
* A `get_coin` between `CSV_create` and the append writes into
  `malloc(0)` (coin.c line 101). The first `/coins` of a new user sends
  an unterminated body (portfolio.c line 84).
* A `PUT`, `PATCH` or `DELETE` calls an uninitialised pointer (http.c
  line 118).
* `http_server_stop` closes every connection while detached processors
  may still use it (http.c line 641). A SIGINT that arrives while a
  request is being processed makes the processor `SSL_write` to the NULL
  session or pop a NULL record. The `reactor` run reaches this.
* `http_register_method` labels a new trie node with the whole remaining
  path (line 664). App builds the trie that way, but every route
  `app_start` registers is one segment, for which the label is right.
* session_task reads `running` at the while test (line 63) and at the
  write-back test (line 104). An iteration that passes line 104 with
  `running` still set and then sees it cleared at line 63 ends the task
  without writing back: users registered since the last write-back are
  missing from `users.db` after a clean stop. SessionManager reaches it
  (the `exit` branch of `TStopSeen`).
* Not modelled, but found while modelling:
  * `crypto_get_resource` appends the URL suffix to the resources path
    unchecked (app.c line 89). `GET /../../data/.server/users.db`, sent
    without client-side normalisation, serves the user database, and
    that database stores passwords in clear (`user_t`,
    http_session.c).
  * `post_register` answers 201 for a taken name: there is no return
    after `bad_request_reply` (app.c line 164).
  * `Coin_operationType` returns `COIN_BUY` for an unknown type of
    three to five letters (coin.c line 30).
  * `Coin_getInfo` divides by a zero buy amount (line 82).
* Also not modelled: the `memset` after growing
  the users array (line 170) subtracts `session_manager.last` where
  `user_manager.last` is meant.

## Bounds and why they are enough

* **Queue.** With Size 2 the ring wraps, and it fills and empties. With
  three clients, a woken waiter can be overtaken by a newcomer while a
  waiter of the other kind sleeps. That is the smallest setting in which
  the retest loops and `pending` matter.
* **Engine.** Two tasks and two workers give every race between a
  worker's tail and an application call. One task with `NSusp = 1` and
  every call exercises suspend, resume and await beside a reactor-style
  task. `MaxStacks = 4` bounds the array; the doubling in `get_stack` is
  modelled, but a third live task, which would force it with every stack
  in use, makes the state space too large for these runs.
  The stop with two workers gives every order of a worker's two reads of
  `running` against the main thread's steps, and lets one worker be
  cancelled in a task while the other is joined. `engine_api` has about
  600,000 states and takes two minutes, most of it for the liveness
  properties. They are stated as `[]<>` recurrences, which are
  equivalent to the leads-to forms because each premise and outcome is
  kept for ever once reached.
* **Reactor.**
  * One slot and two clients give slot reuse.
  * Two requests per client, with split headers and separate bodies,
    give queued records and pipelining.
  * With one slot and no slow handlers, at most one processor is ever
    busy: with two processor work items, TLC confirms that no state has
    two. The `reactor` run therefore uses `WorkItems = 3` (one for a
    processor), which halves the states without losing a behaviour.
    `reactor_any` keeps two processor work items and two slots, so that
    `Spawn` blocks.
  * `SigInt` lets the operator stop the server in the `reactor` run.
    The other reactor runs leave it off, so that their traces show only
    the defect they are about.
  * `Timeout = 1` makes every poll timeout an eviction: the idle counter
    only matters by reaching 0.
  * The passing `reactor` run uses a queue of 4. A client there has at
    most three records behind the one a processor holds, so the queue
    never fills. What happens when it does fill is what
    `reactor_full` shows.
  * `SlowHandlers = FALSE` in `reactor` assumes a handler answers within
    the idle timeout. `reactor_reuse` drops that assumption.

* **Sessions.**
  * Two handler threads give every interleaving of two clients with
    the task. Two names give a taken name (the leak). The crash run
    needs three: one user saved before the crash, one orphaned by it,
    and one lost after it.
  * `Cap0 = 1` with `SlotBound = 2` makes the second login grow the
    sessions array. `Timeout = 1` lets one cycle expire a session.
    `MaxLogins` and `MaxRestarts` bound the unbounded counters.
  * The slot run needs four slots and three logins: two live sessions,
    one stale logout and one new login. It uses one name and no restart
    to stay small.
  * The `sessions` run takes under three minutes with these bounds.

* **App.** Two threads and one coin of one user are enough for two
  posts to race on one file. `MaxTx = 2` allows both posts. The request
  set has one request per route that matters: register, login, post a
  transaction, list the coins, read a coin, log out, a resource, and a
  `PUT`. TLC finds the violation at depth 12 after about 6,500 states.

## Fairness

* Threads that are inside the queue, the engine or the reactor keep
  running: weak fairness on each thread's steps. Making calls,
  connecting and hanging up are the environment's choice, so they have
  no fairness.
* In the reactor, a queued processor gets strong fairness on starting.
  The pool's work queue is FIFO, so a queued work item is not overtaken
  for ever.
* A client that has sent half a header or a header without its body
  sends the rest (weak fairness on `SendTail`).
* Stopping the engine is the application's choice, so `MStop` has no
  fairness. The steps of `async_engine_stop` after it have weak
  fairness, being the main thread's.
* SIGINT is the operator's choice, so `Stop` has no fairness. Once it
  has come, `main`'s thread runs the shutdown through: weak fairness on
  its steps, and `ReactorExit` is one of the reactor's fair steps.
* The `Idle` action lets a finished system stutter, and `Halt` lets an
  ended process stutter, so deadlock checking
  stays on wherever the system should not stop. `CHECK_DEADLOCK FALSE`
  appears only where the program really stops: the queue freed, a
  thread astray, or the process faulted or spinning. Each cfg says which.
* The session model states only safety, so it has no fairness. Its
  cfgs turn deadlock checking off, because the leaked lock at line 157
  really does stop the handlers and the task.

## Not modelled, and why

* **Request bytes.** Requests are records, and the request line and
  headers are not parsed. A body is modelled as a record of its own
  after a complete header. A record that carries the end of one request
  and the start of the next is not modelled, nor is the `bytes_received
  - 4` index before a short buffer (line 251).
* **Request handling in Reactor.** There, route resolution and the
  handlers are one response step. App models them, with the reactor
  abstracted to a thread taking any request.
* **Pool shutdown in Reactor.** `Exit` takes `threadPool_destroy(force)`
  and `async_engine_stop` as one step that ends every thread. TaskEngine
  models those steps one by one, with their races against the workers.
  `app_stop`'s session task stop is not in Reactor; SessionManager has
  it.
* **Stack mapping.** `mmap` failures and `MAP_GROWSDOWN` growth are not
  modelled. Neither is `async_engine_start`'s failure path, which is
  start-up before any task exists.
* **Data.** App leaves out the fields of a transaction and
  `Coin_getInfo`'s sums, the page and file contents, content types and
  cookies. `CSV_removeLineById` and `CSV_getLineById` have no caller.
* **The rest of the program.** `server.c`'s argument parsing and its
  start-up calls run before any thread exists: sequential glue with
  nothing to interleave. Its shutdown is in Reactor. The build program
  (`cb.c`, `cb.h`) is not part of the server: it compiles it.
* **The run budget.** The project keeps to twelve runs, and all are in
  use. Each remaining defect listed above would need a violation run of
  its own, as would a passing App run.

## Plan for further work

1. **SessionManager**, still to state:
   * liveness: a registered user is eventually written (fails on the
     full work queue, line 106, and on the stop at line 63), and a login
     eventually returns (fails on the leaked lock, line 157);
   * that a login's cookie resolves to its own session (the lost id
     write at line 219);
   * the `refs` counts and `http_session_get_username`.
2. **App**: a passing run, if a run slot is freed. It would check the
   routing trie against a reference lookup over nested paths (which
   fails on line 664), and `NoFault`.
3. **App composed with SessionManager**: the handlers over the detailed
   session provider, for the register/login interleavings.
4. **ResponseBuilder** `header_size` accounting (line 706).
5. **WorkerPool shutdown**: a violation run for the fault at
   `threadpool.c` line 29, if a run slot is freed.
6. **Reactor**: a property about accepted descriptors (the leak at line
   510), and `NoFault` runs for the NULL `ssl` and the NULL `pop`,
   including the shutdown fault of line 641.
7. **Reactor**: records that coalesce two pipelined requests. The code
   then swallows the second request (line 259 takes the whole buffer as
   one header), and the second request would never be answered.
