------------------------------ MODULE Reactor ------------------------------
(***************************************************************************)
(* The connection reactor of src/server/http.c: http_server_worker, the   *)
(* single task that polls the listening socket and the connection table,  *)
(* and the http_process_request tasks it spawns, one per connection burst. *)
(*                                                                         *)
(* Clients are the environment.  Client g (the g-th accepted connection)  *)
(* sends requests numbered 1..MaxReqs, each in one TLS record ("full") or  *)
(* split in two: "head" without the blank line, then "tail"; or "hbody",  *)
(* the header with a Content-Length whose body is missing, then "body".   *)
(* It may close (SSL_read returns 0) or reset (SSL_read returns -1).       *)
(*                                                                         *)
(* The connection table is indexed by slot, as in the code: a processor   *)
(* keeps &connections[i], so whatever connection occupies slot i later is *)
(* what it reads from and writes to.                                       *)
(*                                                                         *)
(* The per-connection request queue is a BoundedQueue of QCap entries      *)
(* (10 in http_open_connection); it is used here through its FIFO         *)
(* behaviour, which BoundedQueue is shown to implement, plus its alive    *)
(* flag: pop on a destroyed queue returns NULL.  Processors are detached  *)
(* tasks that never suspend: each holds one of the pool's work items from  *)
(* async() until it returns and one pool thread while it runs, as         *)
(* TaskEngine shows for that usage.                                        *)
(***************************************************************************)
EXTENDS Integers, Sequences, FiniteSets

CONSTANTS
    NSlots,       \* maxConnections - 1: connection slots 1..NSlots
    MaxConns,     \* connections accepted over the run
    MaxReqs,      \* requests a client sends on one connection
    QCap,         \* capacity of con->requests (queue_create(10))
    Timeout,      \* idle poll timeouts before eviction ((10*1000)/timeout)
    Threads,      \* pool threads; the reactor task and the session task
                  \* (app.c line 423, http_session.c line 351) hold one each
    WorkItems,    \* pool work items (threads*2); those two tasks hold one each
    SlowHandlers, \* may the poll time out while a request is in flight?
    PeerResets,   \* may a client reset its connection?
    HalfCloses,   \* may a client hang up between the two parts of a request?
    SigInt        \* may the operator stop the server?

ASSUME /\ NSlots \in Nat \ {0} /\ MaxConns \in Nat \ {0}
       /\ MaxReqs \in Nat \ {0} /\ QCap \in Nat \ {0}
       /\ Timeout \in Nat \ {0}
       /\ Threads \in Nat /\ Threads >= 3
       /\ WorkItems \in Nat /\ WorkItems >= 3
       /\ SlowHandlers \in BOOLEAN /\ PeerResets \in BOOLEAN
       /\ HalfCloses \in BOOLEAN /\ SigInt \in BOOLEAN

Slots == 1 .. NSlots
Gens  == 1 .. MaxConns
Procs == 1 .. (WorkItems - 2)   \* a processor is named by its work item
Parts == {"full", "head", "tail", "hbody", "body", "garbage"}
Chunk == [g : Gens, n : 0 .. MaxReqs, part : Parts]

VARIABLES
    \* clients
    accepted,   \* connections accepted so far
    copen,      \* client g still has its connection open
    sentReqs,   \* requests client g has started
    half,       \* the record client g still owes of its last request, or "none"
    sock,       \* records received on g's socket, not yet read, and "eof"
    \* the reactor task and the connection table
    rpc,        \* "poll", or blocked: "push" (holding con->lock), "spawn"
    rslot,      \* the slot the reactor is serving when blocked
    rchunk,     \* the record it is trying to hand over when blocked
    slotGen,    \* connection in slot i, 0 when pfds[i].fd == -1
    tmo,        \* connections[i].timeout, -1 when closed
    running,    \* connections[i].running
    queue,      \* contents of connections[i].requests
    qalive,     \* connections[i].requests has not been destroyed
    nfds,       \* this->nfds
    \* the processors
    ppc,        \* program counter, "idle" when the work item is free
    pslot,      \* in_request->con, as a slot index
    pdata,      \* in_request->data: the request being assembled
    \* what the clients receive
    answered,   \* answered[g]: responses written to g's TLS session
    crashed,    \* the process has faulted
    \* main and http_server_stop
    active,     \* this->active
    mpc         \* main: "run", then "await", "close", "clean", "exit"

clientVars  == <<accepted, copen, sentReqs, half, sock>>
reactorVars == <<rpc, rslot, rchunk, slotGen, tmo, running, queue, qalive, nfds>>
procVars    == <<ppc, pslot, pdata>>
mainVars    == <<active, mpc>>
vars == <<clientVars, reactorVars, procVars, answered, crashed, mainVars>>

PPcs == {"idle", "queued", "hdr", "body", "respond", "check", "pop", "stuck"}

----
(* Helpers                                                                 *)
----

\* http_server_start, lines 607-625: nfds = 1, every slot closed; the
\* reactor task is running and polling.
Init ==
    /\ accepted = 0
    /\ copen = [g \in Gens |-> FALSE]
    /\ sentReqs = [g \in Gens |-> 0]
    /\ half = [g \in Gens |-> "none"]
    /\ sock = [g \in Gens |-> <<>>]
    /\ rpc = "poll"
    /\ rslot = 1
    /\ rchunk = [g |-> 1, n |-> 0, part |-> "garbage"]
    /\ slotGen = [i \in Slots |-> 0]
    /\ tmo = [i \in Slots |-> -1]
    /\ running = [i \in Slots |-> FALSE]
    /\ queue = [i \in Slots |-> <<>>]
    /\ qalive = [i \in Slots |-> FALSE]
    /\ nfds = 1
    /\ ppc = [p \in Procs |-> "idle"]
    /\ pslot = [p \in Procs |-> 1]
    /\ pdata = [p \in Procs |-> [g |-> 1, n |-> 0, part |-> "garbage"]]
    /\ answered = [g \in Gens |-> <<>>]
    /\ crashed = FALSE
    /\ active = TRUE
    /\ mpc = "run"

IsOpen(i) == slotGen[i] # 0

\* The process still runs: it has neither faulted nor returned from main.
Live == ~crashed /\ mpc # "exit"

\* A processor holds a pool thread from the moment the pool starts it.
OnThread == {p \in Procs : ppc[p] \notin {"idle", "queued"}}

\* A request is in flight from the read that hands it over until the
\* processor's last step.
InFlight == (\E p \in Procs : ppc[p] # "idle") \/ rpc # "poll"

\* Record, or end of stream, on a socket.
EofMark   == [g |-> 1, n |-> 0, part |-> "eof"]
ResetMark == [g |-> 1, n |-> 0, part |-> "reset"]

----
(* Clients                                                                 *)
----

\* The record that completes a request begun with a given part.
Owed == [full |-> "none", head |-> "tail", hbody |-> "body"]

\* A client starts its next request, in one TLS record or in two.
SendRequest(g) ==
    /\ Live /\ mpc = "run"
    /\ copen[g] /\ half[g] = "none"
    /\ sentReqs[g] < MaxReqs
    /\ \E part \in {"full", "head", "hbody"} :
         /\ sock' = [sock EXCEPT ![g] =
                       Append(@, [g |-> g, n |-> sentReqs[g] + 1, part |-> part])]
         /\ half' = [half EXCEPT ![g] = Owed[part]]
    /\ sentReqs' = [sentReqs EXCEPT ![g] = @ + 1]
    /\ UNCHANGED <<mainVars, accepted, copen, reactorVars, procVars, answered, crashed>>

\* A client sends the rest of a request it split: the header's end or the
\* body.
SendTail(g) ==
    /\ Live /\ mpc = "run"
    /\ copen[g] /\ half[g] # "none"
    /\ sock' = [sock EXCEPT ![g] =
                  Append(@, [g |-> g, n |-> sentReqs[g], part |-> half[g]])]
    /\ half' = [half EXCEPT ![g] = "none"]
    /\ UNCHANGED <<mainVars, accepted, copen, sentReqs, reactorVars, procVars,
                   answered, crashed>>

\* A client closes its connection (SSL_read then returns 0 for ever), or
\* resets it (SSL_read then returns -1 for ever).
Hangup(g) ==
    /\ Live /\ mpc = "run"
    /\ copen[g]
    /\ HalfCloses \/ half[g] = "none"
    /\ \E m \in IF PeerResets THEN {EofMark, ResetMark} ELSE {EofMark} :
         sock' = [sock EXCEPT ![g] = Append(@, m)]
    /\ copen' = [copen EXCEPT ![g] = FALSE]
    /\ UNCHANGED <<mainVars, accepted, sentReqs, half, reactorVars, procVars,
                   answered, crashed>>

----
(* The reactor task: http_server_worker                                    *)
----

\* Mutant: pfds[i].fd and the queue are left alone on close.
CloseSlotKeepFd(i) ==
    /\ tmo' = [tmo EXCEPT ![i] = -1]
    /\ copen' = [copen EXCEPT ![slotGen[i]] = FALSE]
    /\ UNCHANGED <<mainVars, slotGen, qalive, queue, nfds>>

\* Mutant: closing any slot shrinks nfds, not only the last polled one.
CloseSlotShrinkAny(i) ==
    /\ slotGen' = [slotGen EXCEPT ![i] = 0]
    /\ tmo' = [tmo EXCEPT ![i] = -1]
    /\ qalive' = [qalive EXCEPT ![i] = FALSE]
    /\ queue' = [queue EXCEPT ![i] = <<>>]
    /\ copen' = [copen EXCEPT ![slotGen[i]] = FALSE]
    /\ nfds' = nfds - 1

\* http_close_connection and the lines after each call: the socket and TLS
\* session go, the request queue is destroyed (queue_destroy wakes a pop
\* blocked on it, which returns NULL), pfds[i].fd = -1 and nfds shrinks
\* when i was the last polled slot.  The records still queued are freed
\* with the queue and con->requests is NULL, so a later pop faults.
\* running is left as it is.
CloseSlot(i) ==
    /\ slotGen' = [slotGen EXCEPT ![i] = 0]
    /\ tmo' = [tmo EXCEPT ![i] = -1]
    /\ qalive' = [qalive EXCEPT ![i] = FALSE]
    /\ queue' = [queue EXCEPT ![i] = <<>>]
    /\ copen' = [copen EXCEPT ![slotGen[i]] = FALSE]
    /\ nfds' = IF i = nfds - 1 THEN nfds - 1 ELSE nfds

\* Lines 507-523: accept, then install the connection in the first slot
\* whose fd is -1 if the TLS handshake succeeds (http_open_connection,
\* lines 212-231); nfds grows when that slot was not polled yet.  With no
\* free slot the accepted socket is neither installed nor closed.
Accept ==
    /\ Live /\ active
    /\ rpc = "poll"
    /\ accepted < MaxConns
    /\ LET g    == accepted + 1
           free == {i \in Slots : ~IsOpen(i)}
       IN /\ accepted' = g
          /\ IF free = {}
             THEN /\ copen' = [copen EXCEPT ![g] = TRUE]
                  /\ UNCHANGED <<mainVars, slotGen, tmo, running, queue, qalive, nfds>>
             ELSE LET i == CHOOSE j \in free : \A k \in free : j <= k
                  IN \/ /\ copen' = [copen EXCEPT ![g] = TRUE]
                        /\ slotGen' = [slotGen EXCEPT ![i] = g]
                        /\ tmo' = [tmo EXCEPT ![i] = Timeout]
                        /\ running' = [running EXCEPT ![i] = FALSE]
                        /\ queue' = [queue EXCEPT ![i] = <<>>]
                        /\ qalive' = [qalive EXCEPT ![i] = TRUE]
                        /\ nfds' = IF i >= nfds THEN nfds + 1 ELSE nfds
                     \/ /\ UNCHANGED <<mainVars, copen, slotGen, tmo, running, queue,
                                       qalive, nfds>>
    /\ UNCHANGED <<mainVars, sentReqs, half, sock, rpc, rslot, rchunk, procVars,
                   answered, crashed>>

\* async(http_process_request, request) and async_detach: the processor
\* takes a free work item and waits in the pool's work queue for a thread.
StartProcessor(p, i, data) ==
    /\ ppc' = [ppc EXCEPT ![p] = "queued"]
    /\ pslot' = [pslot EXCEPT ![p] = i]
    /\ pdata' = [pdata EXCEPT ![p] = data]

FreeProcs == {p \in Procs : ppc[p] = "idle"}

\* empty() of queue.c, lines 17-22: head == tail under the queue's lock.
\* The ring's head meets its tail when it is empty and when it is full.
Empty(i) == Len(queue[i]) \in {0, QCap}

\* Lines 466-497, one SSL_read on slot i (the read_more loop takes one
\* record per step).  A positive count is data; -1, stored in the size_t
\* bytes_received, is positive too and its buffer goes the same way as
\* garbage.  Data is pushed to the queue under con->lock while a processor
\* runs (blocking, lock held, when the queue is full), else running is set
\* after the unlock and a processor is spawned with it; the idle counter
\* is reset.  0 closes the connection unless a processor owns it; then
\* the reactor goes round the loop again with the socket still readable.
Read(i) ==
    /\ Live /\ active
    /\ rpc = "poll"
    /\ i < nfds /\ IsOpen(i)
    /\ sock[slotGen[i]] # <<>>
    /\ LET g == slotGen[i]
           m == Head(sock[g])
           data == IF m.part = "reset"
                   THEN [g |-> g, n |-> 0, part |-> "garbage"] ELSE m
       IN IF m.part = "eof"
          THEN IF running[i]
               THEN UNCHANGED <<mainVars, copen, sock, reactorVars, procVars>>
               ELSE /\ CloseSlot(i)
                    /\ UNCHANGED <<mainVars, sock, rpc, rslot, rchunk, running,
                                   procVars>>
          ELSE /\ sock' = [sock EXCEPT ![g] =
                             IF m.part = "reset" THEN @ ELSE Tail(@)]
               /\ tmo' = [tmo EXCEPT ![i] = Timeout]
               /\ IF running[i]
                  THEN /\ IF Len(queue[i]) < QCap
                          THEN /\ queue' = [queue EXCEPT ![i] = Append(@, data)]
                               /\ UNCHANGED <<mainVars, rpc, rslot, rchunk>>
                          ELSE /\ rpc' = "push" /\ rslot' = i /\ rchunk' = data
                               /\ UNCHANGED queue
                       /\ UNCHANGED <<mainVars, running, procVars>>
                  ELSE /\ running' = [running EXCEPT ![i] = TRUE]
                       /\ IF FreeProcs # {}
                          THEN /\ \E p \in FreeProcs : StartProcessor(p, i, data)
                               /\ UNCHANGED <<mainVars, rpc, rslot, rchunk>>
                          ELSE /\ rpc' = "spawn" /\ rslot' = i /\ rchunk' = data
                               /\ UNCHANGED procVars
                       /\ UNCHANGED queue
               /\ UNCHANGED <<mainVars, copen, slotGen, qalive, nfds>>
    /\ UNCHANGED <<mainVars, accepted, sentReqs, half, answered, crashed>>

\* Lines 472-473: push returns once the processor has popped, and the
\* reactor unlocks con->lock.
Push ==
    /\ Live
    /\ rpc = "push"
    /\ Len(queue[rslot]) < QCap
    /\ queue' = [queue EXCEPT ![rslot] = Append(@, rchunk)]
    /\ rpc' = "poll"
    /\ UNCHANGED <<mainVars, clientVars, rslot, rchunk, slotGen, tmo, running, qalive,
                   nfds, procVars, answered, crashed>>

\* Line 479: threadPool_pushWork returns once a work item is free.
Spawn ==
    /\ Live
    /\ rpc = "spawn"
    /\ \E p \in FreeProcs : StartProcessor(p, rslot, rchunk)
    /\ rpc' = "poll"
    /\ UNCHANGED <<mainVars, clientVars, rslot, rchunk, slotGen, tmo, running, queue,
                   qalive, nfds, answered, crashed>>

\* Lines 447-460: poll returns 0 (no polled socket is readable during the
\* timeout): every polled open slot counts down, and one reaching 0 is
\* closed whatever runs on it.  The loop re-reads nfds, so only closing
\* the last polled slot shrinks it.  Unless SlowHandlers, the clients are
\* assumed never to idle that long while a request is in flight.
Expires(i) == i < nfds /\ tmo[i] = 1

\* Mutant: an expired slot is closed without connections[i].timeout = -1.
TickNoReset ==
    /\ Live /\ active
    /\ rpc = "poll"
    /\ \A i \in Slots : i < nfds /\ IsOpen(i) => sock[slotGen[i]] = <<>>
    /\ \E i \in Slots : i < nfds /\ tmo[i] # -1
    /\ SlowHandlers \/ ~InFlight
    /\ tmo' = [i \in Slots |-> IF i < nfds /\ tmo[i] # -1
                               THEN tmo[i] - 1 ELSE tmo[i]]
    /\ slotGen' = [i \in Slots |-> IF Expires(i) THEN 0 ELSE slotGen[i]]
    /\ qalive' = [i \in Slots |-> qalive[i] /\ ~Expires(i)]
    /\ queue' = [i \in Slots |-> IF Expires(i) THEN <<>> ELSE queue[i]]
    /\ copen' = [g \in Gens |-> copen[g] /\ ~\E i \in Slots : Expires(i) /\ slotGen[i] = g]
    /\ nfds' = IF nfds > 1 /\ Expires(nfds - 1) THEN nfds - 1 ELSE nfds
    /\ UNCHANGED <<mainVars, accepted, sentReqs, half, sock, rpc, rslot, rchunk,
                   running, procVars, answered, crashed>>

Tick ==
    /\ Live /\ active
    /\ rpc = "poll"
    /\ \A i \in Slots : i < nfds /\ IsOpen(i) => sock[slotGen[i]] = <<>>
    /\ \E i \in Slots : i < nfds /\ tmo[i] # -1
    /\ SlowHandlers \/ ~InFlight
    /\ tmo' = [i \in Slots |-> IF i < nfds /\ tmo[i] # -1
                               THEN IF Expires(i) THEN -1 ELSE tmo[i] - 1
                               ELSE tmo[i]]
    /\ slotGen' = [i \in Slots |-> IF Expires(i) THEN 0 ELSE slotGen[i]]
    /\ qalive' = [i \in Slots |-> qalive[i] /\ ~Expires(i)]
    /\ queue' = [i \in Slots |-> IF Expires(i) THEN <<>> ELSE queue[i]]
    /\ copen' = [g \in Gens |-> copen[g] /\ ~\E i \in Slots : Expires(i) /\ slotGen[i] = g]
    /\ nfds' = IF nfds > 1 /\ Expires(nfds - 1) THEN nfds - 1 ELSE nfds
    /\ UNCHANGED <<mainVars, accepted, sentReqs, half, sock, rpc, rslot, rchunk,
                   running, procVars, answered, crashed>>

----
(* The processors: http_process_request                                    *)
----

\* The process faults: every thread stops (each action requires Live).
Fault ==
    /\ crashed' = TRUE
    /\ UNCHANGED <<mainVars, clientVars, reactorVars, procVars, answered>>

\* A pool thread becomes free for the processor (thread_entry, threadpool.c
\* lines 28-30); the reactor task and session_task, which loops until
\* http_session_engine_stop, hold one thread each for good.
PStart(p) ==
    /\ Live
    /\ ppc[p] = "queued"
    /\ Cardinality(OnThread) < Threads - 2
    /\ ppc' = [ppc EXCEPT ![p] = "hdr"]
    /\ UNCHANGED <<mainVars, clientVars, reactorVars, pslot, pdata, answered, crashed>>

\* The buffer after http_get_request_header has appended record b to a
\* (lines 269-276), or http_get_request_body record b (lines 301-308):
\* the blank line or the body arriving completes a.
Merge(a, b) == IF b.part \in {"full", "tail", "body"}
               THEN [a EXCEPT !.part = "full"] ELSE a

\* Mutant: the header test accepts a buffer without its blank line.
PHeaderNoBlankLine(p) ==
    /\ Live
    /\ ppc[p] = "hdr"
    /\ pdata[p].part \in {"full", "tail", "head"}
    /\ ppc' = [ppc EXCEPT ![p] = "respond"]
    /\ UNCHANGED <<mainVars, clientVars, reactorVars, pslot, pdata, answered, crashed>>

\* http_get_request_header, lines 249-279: done when the buffer holds a
\* blank line, else pop the next record of con->requests (blocking while
\* it is empty); a destroyed queue's pop returns NULL, dereferenced on
\* line 273, and a popped record whose bytes_received is (size_t)-1 is
\* memcpy'd in full (line 271).  A first buffer whose bytes_received is
\* (size_t)-1 is indexed 5 bytes before the buffer (line 251) and grown
\* and copied at that offset: undefined behaviour, a fault or a
\* processor that never finds a header.  A complete header with a
\* Content-Length whose body is missing goes on to http_get_request_body.
PHeader(p) ==
    /\ Live
    /\ ppc[p] = "hdr"
    /\ LET i == pslot[p] IN
       \/ /\ pdata[p].part \in {"full", "tail"}
          /\ ppc' = [ppc EXCEPT ![p] = "respond"]
          /\ UNCHANGED <<mainVars, queue, pdata, crashed>>
       \/ /\ pdata[p].part = "hbody"
          /\ ppc' = [ppc EXCEPT ![p] = "body"]
          /\ UNCHANGED <<mainVars, queue, pdata, crashed>>
       \/ /\ pdata[p].part = "head" /\ queue[i] # <<>>
          /\ Head(queue[i]).part # "garbage"
          /\ pdata' = [pdata EXCEPT ![p] = Merge(@, Head(queue[i]))]
          /\ queue' = [queue EXCEPT ![i] = Tail(@)]
          /\ UNCHANGED <<mainVars, ppc, crashed>>
       \/ /\ pdata[p].part = "head"
          /\ \/ queue[i] = <<>> /\ ~qalive[i]
             \/ queue[i] # <<>> /\ Head(queue[i]).part = "garbage"
          /\ Fault
       \/ /\ pdata[p].part = "garbage"
          /\ \/ Fault
             \/ /\ ppc' = [ppc EXCEPT ![p] = "stuck"]
                /\ UNCHANGED <<mainVars, queue, pdata, crashed>>
    /\ UNCHANGED <<mainVars, clientVars, rpc, rslot, rchunk, slotGen, tmo, running,
                   qalive, nfds, pslot, answered>>

\* http_get_request_body, lines 282-311: with the header complete and the
\* body short of Content-Length, pop records of con->requests (blocking
\* while it is empty) until it is there; the same NULL of a destroyed
\* queue and the same memcpy of a (size_t)-1 record fault.
PBody(p) ==
    /\ Live
    /\ ppc[p] = "body"
    /\ LET i == pslot[p] IN
       \/ /\ queue[i] # <<>> /\ Head(queue[i]).part # "garbage"
          /\ pdata' = [pdata EXCEPT ![p] = Merge(@, Head(queue[i]))]
          /\ queue' = [queue EXCEPT ![i] = Tail(@)]
          /\ ppc' = [ppc EXCEPT ![p] = "respond"]
          /\ UNCHANGED crashed
       \/ /\ \/ queue[i] = <<>> /\ ~qalive[i]
             \/ queue[i] # <<>> /\ Head(queue[i]).part = "garbage"
          /\ Fault
    /\ UNCHANGED <<mainVars, clientVars, rpc, rslot, rchunk, slotGen, tmo, running,
                   qalive, nfds, pslot, answered>>

\* Lines 336-414: parse, resolve the route, run the handler and write the
\* response with SSL_write to con->ssl, which is NULL once the slot has
\* been closed.
PRespond(p) ==
    /\ Live
    /\ ppc[p] = "respond"
    /\ LET i == pslot[p] IN
       \/ /\ IsOpen(i)
          /\ answered' = [answered EXCEPT ![slotGen[i]] =
                            Append(@, [g |-> pdata[p].g, n |-> pdata[p].n])]
          /\ ppc' = [ppc EXCEPT ![p] = "check"]
          /\ UNCHANGED crashed
       \/ /\ ~IsOpen(i)
          /\ Fault
    /\ UNCHANGED <<mainVars, clientVars, reactorVars, pslot, pdata>>

\* Mutant: the processor returns without clearing running.
PCheckKeepRunning(p) ==
    /\ Live
    /\ ppc[p] = "check"
    /\ ~(rpc = "push" /\ rslot = pslot[p])
    /\ LET i == pslot[p] IN
       \/ /\ IsOpen(i) /\ Empty(i)
          /\ ppc' = [ppc EXCEPT ![p] = "idle"]
          /\ UNCHANGED crashed
       \/ /\ IsOpen(i) /\ ~Empty(i)
          /\ ppc' = [ppc EXCEPT ![p] = "pop"]
          /\ UNCHANGED crashed
       \/ /\ ~IsOpen(i)
          /\ Fault
    /\ UNCHANGED <<mainVars, clientVars, rpc, rslot, rchunk, slotGen, tmo, running,
                   queue, qalive, nfds, pslot, pdata, answered>>

\* Lines 417-431: under con->lock, a queue empty() calls empty clears
\* running and the task returns (freeing its work item); otherwise it
\* goes on.  A closed
\* slot's lock and queue have been destroyed and freed.
PCheck(p) ==
    /\ Live
    /\ ppc[p] = "check"
    /\ ~(rpc = "push" /\ rslot = pslot[p])
    /\ LET i == pslot[p] IN
       \/ /\ IsOpen(i) /\ Empty(i)
          /\ running' = [running EXCEPT ![i] = FALSE]
          /\ ppc' = [ppc EXCEPT ![p] = "idle"]
          /\ UNCHANGED crashed
       \/ /\ IsOpen(i) /\ ~Empty(i)
          /\ ppc' = [ppc EXCEPT ![p] = "pop"]
          /\ UNCHANGED <<mainVars, running, crashed>>
       \/ /\ ~IsOpen(i)
          /\ Fault
    /\ UNCHANGED <<mainVars, clientVars, rpc, rslot, rchunk, slotGen, tmo, queue,
                   qalive, nfds, pslot, pdata, answered>>

\* Mutant: the front record is read but left in the queue.
PPopKeep(p) ==
    /\ Live
    /\ ppc[p] = "pop"
    /\ LET i == pslot[p] IN
       \/ /\ queue[i] # <<>>
          /\ pdata' = [pdata EXCEPT ![p] = Head(queue[i])]
          /\ ppc' = [ppc EXCEPT ![p] = "hdr"]
          /\ UNCHANGED crashed
       \/ /\ queue[i] = <<>> /\ ~qalive[i]
          /\ Fault
    /\ UNCHANGED <<mainVars, clientVars, rpc, rslot, rchunk, slotGen, tmo, running,
                   queue, qalive, nfds, pslot, answered>>

\* Line 433: pop the next request; NULL from a destroyed queue is
\* dereferenced on line 251.
PPop(p) ==
    /\ Live
    /\ ppc[p] = "pop"
    /\ LET i == pslot[p] IN
       \/ /\ queue[i] # <<>>
          /\ pdata' = [pdata EXCEPT ![p] = Head(queue[i])]
          /\ queue' = [queue EXCEPT ![i] = Tail(@)]
          /\ ppc' = [ppc EXCEPT ![p] = "hdr"]
          /\ UNCHANGED crashed
       \/ /\ queue[i] = <<>> /\ ~qalive[i]
          /\ Fault
    /\ UNCHANGED <<mainVars, clientVars, rpc, rslot, rchunk, slotGen, tmo, running,
                   qalive, nfds, pslot, answered>>

----
(* Shutdown: main's SIGINT handling, http_server_stop, http_server_clean   *)
----

\* server.c lines 98-105 and line 633: SIGINT arrives, main clears
\* this->active and awaits the listener task.
Stop ==
    /\ SigInt
    /\ Live /\ mpc = "run"
    /\ active' = FALSE
    /\ mpc' = "await"
    /\ UNCHANGED <<clientVars, reactorVars, procVars, answered, crashed>>

\* Line 446: the reactor tests this->active before each poll and returns
\* once it is cleared; a push or spawn it is blocked in comes first.
ReactorExit ==
    /\ Live /\ ~active
    /\ rpc = "poll"
    /\ rpc' = "exited"
    /\ UNCHANGED <<mainVars, clientVars, rslot, rchunk, slotGen, tmo, running,
                   queue, qalive, nfds, procVars, answered, crashed>>

\* Line 636: await(&this->listener) returns once the reactor task is dead.
AwaitListener ==
    /\ Live /\ mpc = "await"
    /\ rpc = "exited"
    /\ mpc' = "close"
    /\ UNCHANGED <<active, clientVars, reactorVars, procVars, answered, crashed>>

\* Lines 639-645: http_close_connection on every polled slot whose ssl is
\* set (pfds and nfds are left as they are), whatever task still uses it.
CloseAll ==
    /\ Live /\ mpc = "close"
    /\ LET shut(i) == i < nfds /\ IsOpen(i) IN
       /\ slotGen' = [i \in Slots |-> IF shut(i) THEN 0 ELSE slotGen[i]]
       /\ tmo' = [i \in Slots |-> IF shut(i) THEN -1 ELSE tmo[i]]
       /\ qalive' = [i \in Slots |-> qalive[i] /\ ~shut(i)]
       /\ queue' = [i \in Slots |-> IF shut(i) THEN <<>> ELSE queue[i]]
       /\ copen' = [g \in Gens |-> copen[g] /\ ~\E i \in Slots : shut(i) /\ slotGen[i] = g]
    /\ mpc' = "clean"
    /\ UNCHANGED <<active, accepted, sentReqs, half, sock, rpc, rslot, rchunk,
                   running, nfds, procVars, answered, crashed>>

\* server.c lines 108-109, http_server_clean and async_engine_stop:
\* app_stop, then threadPool_destroy(force) cancels and joins every pool
\* thread, and main returns.  Processors still running until then go on.
Exit ==
    /\ Live /\ mpc = "clean"
    /\ mpc' = "exit"
    /\ UNCHANGED <<active, clientVars, reactorVars, procVars, answered, crashed>>

\* The process has ended, by a fault or by returning from main.
Halt ==
    /\ ~Live
    /\ UNCHANGED vars

MainStep == Stop \/ AwaitListener \/ CloseAll \/ Exit

----

\* Every connection has come and gone and the reactor polls on.
Idle ==
    /\ accepted = MaxConns
    /\ \A g \in Gens : ~copen[g]
    /\ \A i \in Slots : ~IsOpen(i)
    /\ ~InFlight
    /\ Live
    /\ UNCHANGED vars

Client(g) == SendRequest(g) \/ SendTail(g) \/ Hangup(g)
ReactorStep == Accept \/ Push \/ Spawn \/ Tick \/ ReactorExit
               \/ \E i \in Slots : Read(i)
Processor(p) == PStart(p) \/ PHeader(p) \/ PBody(p) \/ PRespond(p) \/ PCheck(p)
                \/ PPop(p)

Next ==
    \/ \E g \in Gens : Client(g)
    \/ ReactorStep
    \/ \E p \in Procs : Processor(p)
    \/ MainStep
    \/ Idle
    \/ Halt

\* The reactor task and the processors run on pool threads and are never
\* preempted for good: weak fairness on the reactor's steps (Accept aside:
\* a connection is the client's choice) and on each processor.  The pool's
\* work queue is FIFO, so a queued processor is not overtaken for ever by
\* later ones: strong fairness on PStart.  A client that split a header
\* sends the rest.  SIGINT is the operator's choice; once it has come,
\* main's thread runs the shutdown through.
Fairness ==
    /\ WF_vars(Push \/ Spawn \/ Tick \/ ReactorExit \/ \E i \in Slots : Read(i))
    /\ WF_vars(AwaitListener \/ CloseAll \/ Exit)
    /\ \A p \in Procs : /\ WF_vars(PHeader(p) \/ PBody(p) \/ PRespond(p)
                                        \/ PCheck(p) \/ PPop(p))
                        /\ SF_vars(PStart(p))
    /\ \A g \in Gens : WF_vars(SendTail(g))

Spec == Init /\ [][Next]_vars /\ Fairness

----
(* Properties                                                              *)
----

TypeOK ==
    /\ accepted \in 0 .. MaxConns
    /\ copen \in [Gens -> BOOLEAN] /\ half \in [Gens -> {"none", "tail", "body"}]
    /\ sentReqs \in [Gens -> 0 .. MaxReqs]
    /\ rpc \in {"poll", "push", "spawn", "exited"} /\ rslot \in Slots /\ rchunk \in Chunk
    /\ slotGen \in [Slots -> 0 .. MaxConns]
    /\ tmo \in [Slots -> {-1} \cup 1 .. Timeout]
    /\ running \in [Slots -> BOOLEAN] /\ qalive \in [Slots -> BOOLEAN]
    /\ queue \in [Slots -> Seq(Chunk)]
    /\ nfds \in 1 .. NSlots + 1
    /\ ppc \in [Procs -> PPcs] /\ pslot \in [Procs -> Slots]
    /\ pdata \in [Procs -> Chunk]
    /\ answered \in [Gens -> Seq([g : Gens, n : 0 .. MaxReqs])]
    /\ crashed \in BOOLEAN
    /\ active \in BOOLEAN /\ mpc \in {"run", "await", "close", "clean", "exit"}

\* The tasks draining slot i: processors bound to it and a spawn the
\* reactor is blocked on.
Drainers(i) == {p \in Procs : ppc[p] # "idle" /\ pslot[p] = i}

\* Spec section 3, Connection: running is true exactly while some task
\* drains the connection's queue, and then only one, so that newly read
\* data is queued rather than given to a second processor (http.c lines
\* 470-482 with the check of lines 417-423).
RunningIffDraining ==
    \A i \in Slots : IsOpen(i) =>
        /\ running[i] <=> (Drainers(i) # {} \/ (rpc = "spawn" /\ rslot = i))
        /\ Cardinality(Drainers(i)) + (IF rpc = "spawn" /\ rslot = i THEN 1 ELSE 0) <= 1

\* Spec sections 5 and 8 (FIFO, end-to-end scenario 4): the responses a
\* client receives on its connection answer its own requests, each once,
\* in the order it sent them: the k-th response answers request k.
ResponsesInOrder ==
    \A g \in Gens : \A k \in 1 .. Len(answered[g]) :
        answered[g][k] = [g |-> g, n |-> k]

\* Every open connection is in the polled prefix pfds[0..nfds-1], so its
\* data is read and its idle counter runs (accept, lines 510-515, and the
\* nfds shrinking of lines 457, 493, 503).
OpenSlotsPolled == \A i \in Slots : IsOpen(i) => i < nfds

\* Connection g is in the table.
Installed(g) == \E i \in Slots : slotGen[i] = g

\* Spec section 7(b): an orderly close by the client closes the
\* connection, at once when no task owns it, else once the task's current
\* request has drained (lines 486-495).
HangupClosesConnection ==
    \A g \in Gens : (Installed(g) /\ ~copen[g]) ~> ~Installed(g)

\* Refinement mapping to HttpExchange, one instance per client: the server
\* side is open while the connection holds a slot and the process lives
\* (its end closes every socket); a request counts once it is completely
\* sent; a response is named by the request it answers.
ExchangeState(g) ==
    IF g > accepted THEN "new"
    ELSE IF Installed(g) /\ Live THEN "open" ELSE "closed"
CompleteReqs(g) == IF half[g] # "none" THEN sentReqs[g] - 1 ELSE sentReqs[g]
Answers(g) == [k \in DOMAIN answered[g] |-> answered[g][k].n]
Exchange(g) == INSTANCE HttpExchange WITH
    conn    <- ExchangeState(g),
    cli     <- copen[g] /\ Live,
    done    <- CompleteReqs(g),
    replies <- Answers(g)

\* Spec sections 3, 4.4 and 5 together: seen from each client, the
\* reactor and its processors (accept, read, push or spawn, reassembly,
\* the drain loop and close) behave as HttpExchange: responses only on a
\* connection in the table, only to requests completely sent, each once
\* and in order, and a complete request on a connection that stays in
\* the table is answered.
ImplementsExchange ==
    /\ \A g \in Gens : Exchange(g)!Init
    /\ [][\A g \in Gens : [Exchange(g)!Next]_(Exchange(g)!vars)]_vars
    /\ \A g \in Gens : Exchange(g)!Answered

\* The reactor task is never blocked for good: a push it makes on a full
\* request queue (line 472) or a spawn waiting for a work item (line 479)
\* returns, and it goes back to polling every connection.
ReactorProgress == (rpc \in {"push", "spawn"}) ~> (rpc = "poll" \/ ~Live)

====
