--------------------------- MODULE SessionManager ---------------------------
(***************************************************************************)
(* src/http_libs/http_session.c: the user table and the session table,     *)
(* each under its own rwlock, the work queue of new users, the session     *)
(* task that expires sessions and writes new users to users.db and their   *)
(* count to .meta.bin, and load_user_db after a restart.  The clients are  *)
(* the handlers of src/app/app.c (register, login, logout), each running   *)
(* on a pool thread.                                                       *)
(*                                                                         *)
(* Data is abstracted: a user record is its name (the password test is a   *)
(* choice), a session id is a model value, a slot index is kept as in the  *)
(* code (0-based), and a task "cycle" is the iteration in which            *)
(* cycle_counter reaches 0 (the other 19 only sleep).  refs is written     *)
(* but never read by the program, so it is left out.                       *)
(*                                                                         *)
(* Locks: rwlock_t is pthread_rwlock_t with the default (glibc)            *)
(* attributes.  Read-locked regions never span a step of another thread    *)
(* here, so a lock is its write holder or None.  glibc returns EDEADLK     *)
(* when the thread that holds the write lock asks for it again (read or    *)
(* write); the code ignores the return value and goes on, and its unlock   *)
(* then releases the write lock.  CanLock states that.                     *)
(***************************************************************************)
EXTENDS Integers, Sequences, SequencesExt, FiniteSets

CONSTANTS
    Threads,      \* pool threads running the handlers of app.c
    Task,         \* the pool thread running session_task
    Names,        \* user names a client may send
    NoName,       \* a zeroed user_t
    Ids,          \* session ids uuid_generate_random may produce
    NoId,         \* a zeroed session_id_t
    None,         \* nobody holds the lock
    Cap0,         \* base_capacity of http_session_engine_start
    SlotBound,    \* bound on session_manager.capacity
    Timeout,      \* session_timeout, in task cycles
    MaxLogins,    \* bound on session_manager.entries, which only grows
    MaxRestarts   \* bound on crashes and restarts

ASSUME Cap0 \in Nat \ {0} /\ SlotBound \in Nat /\ Timeout \in Nat \ {0}

\* INVALID_USER_ID and INVALID_SESSION_ID (SIZE_MAX)
INVALID == -1

\* queue_create(session_manager.capacity * 2), line 347
WorkCap == 2 * Cap0

Slots == 0 .. SlotBound - 1

VARIABLES
    ulock, slock,              \* holders of user_manager.lock, session_manager.lock
    users, uentries, ucap,     \* users[0 .. last-1], entries, capacity
    sess, scap, slast, sentries, sgen,  \* sessions[], capacity, last, entries, realloc count
    work,                      \* user_manager.work
    db, meta,                  \* users.db and the count in .meta.bin
    tpc, tbuff, tuser, tnew, ubase, running,  \* session_task and its locals
    cpc, cuser, cslot, cgen, cookie,          \* the handlers and their locals
    restarts,
    saved                      \* users whose record and count the task wrote

vars == << ulock, slock, users, uentries, ucap, sess, scap, slast, sentries,
           sgen, work, db, meta, tpc, tbuff, tuser, tnew, ubase, running,
           cpc, cuser, cslot, cgen, cookie, restarts, saved >>

userVars == << ulock, users, uentries, ucap >>
sessVars == << slock, sess, scap, slast, sentries, sgen >>
taskVars == << tpc, tbuff, tuser, tnew, ubase, running >>
diskVars == << db, meta, saved >>
cliVars == << cpc, cuser, cslot, cgen, cookie >>

ZeroSession == [user |-> INVALID, id |-> NoId, exp |-> 0]

\* Ids the program can still tell apart from a fresh uuid
InUse == ({sess[i].id : i \in Slots} \cup {cookie[t] : t \in Threads}) \ {NoId}

\* A thread may enter a region of the lock: it is free, or (EDEADLK) the
\* thread already holds it for writing.
CanLock(l, t) == l \in {None, t}

(***************************************************************************)
(* http_session_get_by_id, lines 140-150: the first slot whose id is set   *)
(* and equal; a missing or empty cookie matches nothing (line 233).        *)
(***************************************************************************)
Resolve(id) ==
    LET hit == {i \in 0 .. scap - 1 : sess[i].id # NoId /\ sess[i].id = id}
    IN IF hit = {} THEN INVALID ELSE Min(hit)

\* user_get, lines 128-138: the first entry with that name, 0-based
UserGet(n) == SelectInSeq(users, LAMBDA u : u = n) - 1

(***************************************************************************)
(* http_session_engine_start and load_user_db, lines 281-353: what a      *)
(* (re)started process holds.  users.db is truncated when the count is 0;  *)
(* otherwise count records are read from its start.                        *)
(***************************************************************************)
Boot ==
    /\ ulock' = None /\ slock' = None
    /\ users' = [i \in 1 .. meta |-> IF i <= Len(db) THEN db[i] ELSE NoName]
    /\ uentries' = meta
    /\ ucap' = meta + Cap0
    /\ db' = IF meta = 0 THEN << >> ELSE db
    /\ sess' = [i \in Slots |-> ZeroSession]
    /\ scap' = Cap0 /\ slast' = 0 /\ sentries' = 0 /\ sgen' = 0
    /\ work' = << >>
    /\ tpc' = "top" /\ tbuff' = << >> /\ tuser' = 0 /\ tnew' = 0
    /\ ubase' = meta /\ running' = TRUE
    /\ cpc' = [t \in Threads |-> "idle"]
    /\ cuser' = [t \in Threads |-> INVALID]
    /\ cslot' = [t \in Threads |-> INVALID]
    /\ cgen' = [t \in Threads |-> 0]

Init ==
    /\ ulock = None /\ slock = None
    /\ users = << >> /\ uentries = 0 /\ ucap = Cap0
    /\ db = << >> /\ meta = 0
    /\ sess = [i \in Slots |-> ZeroSession]
    /\ scap = Cap0 /\ slast = 0 /\ sentries = 0 /\ sgen = 0
    /\ work = << >>
    /\ tpc = "top" /\ tbuff = << >> /\ tuser = 0 /\ tnew = 0
    /\ ubase = 0 /\ running = TRUE
    /\ cpc = [t \in Threads |-> "idle"]
    /\ cuser = [t \in Threads |-> INVALID]
    /\ cslot = [t \in Threads |-> INVALID]
    /\ cgen = [t \in Threads |-> 0]
    /\ cookie = [t \in Threads |-> NoId]
    /\ restarts = 0
    /\ saved = {}

(***************************************************************************)
(* crypto_post_register, app.c lines 138-164: the handler looks up the     *)
(* session of its cookie under the session read lock (400 if there is      *)
(* one), then http_session_register_user, lines 156-179, under the user    *)
(* write lock.  The lookup is folded into this step: a cookie that         *)
(* resolves to nothing never starts resolving, so nothing another thread   *)
(* does in between changes the outcome.  A taken name returns false at     *)
(* line 157 without unlocking.  Otherwise the entry is the first empty     *)
(* record below last while there is room, else last after the array       *)
(* doubled.                                                                *)
(***************************************************************************)
RLock(t, n) ==
    /\ cpc[t] = "idle" /\ slock = None /\ Resolve(cookie[t]) = INVALID
    /\ CanLock(ulock, t)
    /\ IF UserGet(n) # INVALID
       THEN /\ ulock' = t
            /\ cpc' = [cpc EXCEPT ![t] = "idle"]
            /\ UNCHANGED << users, uentries, ucap, cslot >>
       ELSE LET holes == {i \in 0 .. Len(users) - 1 : users[i + 1] = NoName}
                room  == uentries < ucap
                entry == IF room /\ holes # {} THEN Min(holes) ELSE Len(users)
            IN /\ users' = IF entry = Len(users)
                           THEN Append(users, n)
                           ELSE [users EXCEPT ![entry + 1] = n]
               /\ uentries' = uentries + 1
               /\ ucap' = IF room THEN ucap ELSE 2 * ucap
               /\ ulock' = None
               /\ cslot' = [cslot EXCEPT ![t] = entry]
               /\ cpc' = [cpc EXCEPT ![t] = "r_push"]
    /\ UNCHANGED << sessVars, taskVars, diskVars, work, restarts,
                    cuser, cgen, cookie >>

\* push(user_manager.work, entry), line 182: blocks while the queue is full
RPush(t) ==
    /\ cpc[t] = "r_push" /\ Len(work) < WorkCap
    /\ work' = Append(work, cslot[t])
    /\ cpc' = [cpc EXCEPT ![t] = "idle"]
    /\ UNCHANGED << userVars, sessVars, taskVars, diskVars, restarts,
                    cuser, cslot, cgen, cookie >>

(***************************************************************************)
(* crypto_post_login, app.c lines 212-238: the cookie lookup (400 if it    *)
(* names a session), folded in as for register, then line 189 of          *)
(* http_session_login_user: user_get under the user read lock and the      *)
(* password compare after the unlock.  An unknown name or a wrong          *)
(* password returns INVALID_SESSION_ID (401).                              *)
(***************************************************************************)
LGet(t, n) ==
    /\ cpc[t] = "idle" /\ slock = None /\ Resolve(cookie[t]) = INVALID
    /\ sentries < MaxLogins
    /\ CanLock(ulock, t)
    /\ ulock' = None
    /\ \/ /\ UserGet(n) # INVALID
          /\ cuser' = [cuser EXCEPT ![t] = UserGet(n)]
          /\ cpc' = [cpc EXCEPT ![t] = "l_lock"]
       \/ /\ cpc' = [cpc EXCEPT ![t] = "idle"]
          /\ UNCHANGED cuser
    /\ UNCHANGED << users, uentries, ucap, sessVars, taskVars, diskVars, work,
                    restarts, cslot, cgen, cookie >>

(***************************************************************************)
(* Lines 192-215, under the session write lock.  While entries < capacity  *)
(* the entry is the first free slot below last, or last; otherwise the     *)
(* array doubles, the slots from last on are zeroed (memset, user_ref      *)
(* reset, lines 204-207) and the entry is last.                           *)
(* entries is never decremented.                                           *)
(***************************************************************************)
LLock(t) ==
    /\ cpc[t] = "l_lock" /\ slock = None
    /\ LET grow  == ~(sentries < scap)
           free  == {i \in 0 .. slast - 1 : sess[i].user = INVALID}
           entry == IF ~grow /\ free # {} THEN Min(free) ELSE slast
           ncap  == IF grow THEN 2 * scap ELSE scap
       IN /\ ncap <= SlotBound
          /\ LET kept(i) == IF grow /\ i >= slast THEN ZeroSession ELSE sess[i]
             IN sess' = [i \in Slots |->
                           IF i = entry
                           THEN [kept(i) EXCEPT !.user = cuser[t], !.exp = Timeout]
                           ELSE kept(i)]
          /\ scap' = ncap
          /\ sgen' = IF grow THEN sgen + 1 ELSE sgen
          /\ slast' = IF entry = slast THEN slast + 1 ELSE slast
          /\ sentries' = sentries + 1
          /\ cslot' = [cslot EXCEPT ![t] = entry]
          /\ cgen' = [cgen EXCEPT ![t] = sgen']
          /\ cpc' = [cpc EXCEPT ![t] = "l_id"]
    /\ UNCHANGED << slock, userVars, taskVars, diskVars, work, restarts,
                    cuser, cookie >>

(***************************************************************************)
(* Lines 217-219: the uuid is written after the unlock through the pointer *)
(* taken under the lock.  If another login has reallocated the array since,*)
(* the write lands in the freed block and the slot keeps a zero id.        *)
(***************************************************************************)
LId(t) ==
    /\ cpc[t] = "l_id"
    /\ \E id \in Ids \ InUse :
          sess' = IF cgen[t] = sgen
                  THEN [sess EXCEPT ![cslot[t]].id = id]
                  ELSE sess
    /\ cpc' = [cpc EXCEPT ![t] = "l_ref"]
    /\ UNCHANGED << slock, scap, slast, sentries, sgen, userVars, taskVars,
                    diskVars, work, restarts, cuser, cslot, cgen, cookie >>

\* Lines 221-223: refs += 1 under the user write lock
LRef(t) ==
    /\ cpc[t] = "l_ref" /\ CanLock(ulock, t)
    /\ ulock' = None
    /\ cpc' = [cpc EXCEPT ![t] = "l_cookie"]
    /\ UNCHANGED << users, uentries, ucap, sessVars, taskVars, diskVars, work,
                    restarts, cuser, cslot, cgen, cookie >>

\* http_session_set_cookie, lines 263-279: the id is read without a lock
LCookie(t) ==
    /\ cpc[t] = "l_cookie"
    /\ cookie' = [cookie EXCEPT ![t] = sess[cslot[t]].id]
    /\ cpc' = [cpc EXCEPT ![t] = "idle"]
    /\ UNCHANGED << userVars, sessVars, taskVars, diskVars, work, restarts,
                    cuser, cslot, cgen >>

(***************************************************************************)
(* crypto_post_logout, app.c lines 254-258: when the cookie names a        *)
(* session, http_session_logout_user looks it up again (lines 243-248).    *)
(* Both lookups are one read here: when the session goes in between, the   *)
(* second one returns early, which is the same as the first failing.       *)
(***************************************************************************)
OGet(t) ==
    /\ cpc[t] = "idle" /\ slock = None
    /\ Resolve(cookie[t]) # INVALID
    /\ cslot' = [cslot EXCEPT ![t] = Resolve(cookie[t])]
    /\ cpc' = [cpc EXCEPT ![t] = "o_lock"]
    /\ UNCHANGED << userVars, sessVars, taskVars, diskVars, work, restarts,
                    cuser, cgen, cookie >>

\* Lines 250-252: session write lock, the id cleared
OLock(t) ==
    /\ cpc[t] = "o_lock" /\ slock = None
    /\ slock' = t
    /\ sess' = [sess EXCEPT ![cslot[t]].id = NoId]
    /\ cpc' = [cpc EXCEPT ![t] = "o_ulock"]
    /\ UNCHANGED << scap, slast, sentries, sgen, userVars, taskVars, diskVars,
                    work, restarts, cuser, cslot, cgen, cookie >>

(***************************************************************************)
(* Lines 254-260: refs -= 1 under the user write lock (an index of         *)
(* INVALID when the slot was freed meanwhile), the slot freed, last        *)
(* lowered when it was the last one, and the session lock released.        *)
(***************************************************************************)
OULock(t) ==
    /\ cpc[t] = "o_ulock" /\ CanLock(ulock, t)
    /\ ulock' = None
    /\ sess' = [sess EXCEPT ![cslot[t]].user = INVALID]
    /\ slast' = IF cslot[t] = slast - 1 THEN slast - 1 ELSE slast
    /\ slock' = None
    /\ cpc' = [cpc EXCEPT ![t] = "idle"]
    /\ UNCHANGED << users, uentries, ucap, scap, sentries, sgen, taskVars,
                    diskVars, work, restarts, cuser, cslot, cgen, cookie >>

(***************************************************************************)
(* session_task, lines 60-126.  TCycle is the top of an iteration in which *)
(* cycle_counter reaches 0 (the other nineteen only sleep).  running is    *)
(* read twice per iteration, by the while test (line 63) and by the        *)
(* write-back test (line 104), so once http_session_engine_stop has        *)
(* cleared it the task either finishes the iteration whose sleep it        *)
(* interrupted, with the expiry if that one was the twentieth and the      *)
(* write-back in any case, or it had passed line 104 with running still    *)
(* set and leaves at line 63 without writing back.                         *)
(***************************************************************************)
TCycle ==
    /\ tpc = "top" /\ running
    /\ tpc' = "scan"
    /\ UNCHANGED << userVars, sessVars, tbuff, tuser, tnew, ubase, running,
                    diskVars, work, restarts, cliVars >>

TStopSeen ==
    /\ tpc = "top" /\ ~running
    /\ tpc' \in {"scan", "drain", "exit"}
    /\ UNCHANGED << userVars, sessVars, tbuff, tuser, tnew, ubase, running,
                    diskVars, work, restarts, cliVars >>

(***************************************************************************)
(* Lines 71-83, under the session read lock: every live slot's expire_s    *)
(* is decremented, and the slots reaching 0 are collected in increasing    *)
(* order.                                                                  *)
(***************************************************************************)
\* Mutant: the scan drops the user_ref != INVALID test of line 76.
TScanAll ==
    /\ tpc = "scan" /\ slock = None
    /\ LET expired == {i \in 0 .. scap - 1 : sess[i].exp = 1}
       IN /\ sess' = [i \in Slots |->
                        IF i < scap THEN [sess[i] EXCEPT !.exp = @ - 1]
                        ELSE sess[i]]
          /\ tbuff' = SetToSortSeq(expired, <)
          /\ tpc' = IF expired = {} THEN "drain" ELSE "wlock"
    /\ UNCHANGED << userVars, slock, scap, slast, sentries, sgen, tuser, tnew,
                    ubase, running, diskVars, work, restarts, cliVars >>

TScan ==
    /\ tpc = "scan" /\ slock = None
    /\ LET live    == {i \in 0 .. scap - 1 : sess[i].user # INVALID}
           expired == {i \in live : sess[i].exp = 1}
       IN /\ sess' = [i \in Slots |->
                        IF i \in live THEN [sess[i] EXCEPT !.exp = @ - 1]
                        ELSE sess[i]]
          /\ tbuff' = SetToSortSeq(expired, <)
          /\ tpc' = IF expired = {} THEN "drain" ELSE "wlock"
    /\ UNCHANGED << userVars, slock, scap, slast, sentries, sgen, tuser, tnew,
                    ubase, running, diskVars, work, restarts, cliVars >>

\* Line 87: the session write lock, taken after the read lock was dropped
TWLock ==
    /\ tpc = "wlock" /\ slock = None
    /\ slock' = Task
    /\ tpc' = "rm"
    /\ UNCHANGED << userVars, sess, scap, slast, sentries, sgen, tbuff, tuser,
                    tnew, ubase, running, diskVars, work, restarts, cliVars >>

\* Lines 88-91: the last collected slot has its id cleared
TRm ==
    /\ tpc = "rm"
    /\ sess' = [sess EXCEPT ![Last(tbuff)].id = NoId]
    /\ tpc' = "rmu"
    /\ UNCHANGED << userVars, slock, scap, slast, sentries, sgen, tbuff, tuser,
                    tnew, ubase, running, diskVars, work, restarts, cliVars >>

(***************************************************************************)
(* Lines 93-100: refs -= 1 under the user write lock, the slot freed, and  *)
(* last lowered when the loop counter "entries" (the position in buff,     *)
(* not the slot) equals last - 1.  After the last one the lock is dropped. *)
(***************************************************************************)
TRmU ==
    /\ tpc = "rmu" /\ CanLock(ulock, Task)
    /\ ulock' = None
    /\ LET k == Len(tbuff) - 1
       IN /\ sess' = [sess EXCEPT ![Last(tbuff)].user = INVALID]
          /\ slast' = IF k = slast - 1 THEN slast - 1 ELSE slast
          /\ tbuff' = Front(tbuff)
          /\ IF k = 0
             THEN slock' = None /\ tpc' = "drain"
             ELSE slock' = Task /\ tpc' = "rm"
    /\ UNCHANGED << users, uentries, ucap, scap, sentries, sgen, tuser, tnew,
                    ubase, running, diskVars, work, restarts, cliVars >>

(***************************************************************************)
(* Lines 105-121: while !empty(work), pop an entry and append its record   *)
(* to users.db; then, if any was written, rewrite the count.  empty() of   *)
(* queue.c tests head == tail only, so a full queue reads as empty.        *)
(***************************************************************************)
WorkEmpty == Len(work) \in {0, WorkCap}

TDrain ==
    /\ tpc = "drain"
    /\ \/ /\ ~WorkEmpty
          /\ tuser' = Head(work)
          /\ work' = Tail(work)
          /\ tpc' = "write"
       \/ /\ WorkEmpty
          /\ tpc' = IF tnew > 0 THEN "meta" ELSE IF running THEN "top" ELSE "exit"
          /\ UNCHANGED << tuser, work >>
    /\ UNCHANGED << userVars, sessVars, tbuff, tnew, ubase, running, diskVars,
                    restarts, cliVars >>

\* Lines 109-114: fwrite under the user read lock, then fflush
TWrite ==
    /\ tpc = "write" /\ CanLock(ulock, Task)
    /\ ulock' = None
    /\ db' = Append(db, users[tuser + 1])
    /\ tnew' = tnew + 1
    /\ tpc' = "drain"
    /\ UNCHANGED << users, uentries, ucap, sessVars, tbuff, tuser, ubase,
                    running, meta, saved, work, restarts, cliVars >>

(***************************************************************************)
(* Lines 117-120 and the loop test: the new count written over .meta.bin.  *)
(* saved records the users this write made part of the counted prefix.     *)
(***************************************************************************)
\* Mutant: new_entries kept across iterations instead of reset.
TMetaKeepCount ==
    /\ tpc = "meta"
    /\ ubase' = ubase + tnew
    /\ meta' = ubase + tnew
    /\ saved' = saved \cup Range(SubSeq(db, Len(db) - tnew + 1, Len(db)))
    /\ tnew' = tnew
    /\ tpc' = IF running THEN "top" ELSE "exit"
    /\ UNCHANGED << userVars, sessVars, tbuff, tuser, running, db, work,
                    restarts, cliVars >>

TMeta ==
    /\ tpc = "meta"
    /\ ubase' = ubase + tnew
    /\ meta' = ubase + tnew
    /\ saved' = saved \cup Range(SubSeq(db, Len(db) - tnew + 1, Len(db)))
    /\ tnew' = 0
    /\ tpc' = IF running THEN "top" ELSE "exit"
    /\ UNCHANGED << userVars, sessVars, tbuff, tuser, running, db, work,
                    restarts, cliVars >>

\* http_session_engine_stop, line 358, called by main at shutdown
Stop ==
    /\ running
    /\ running' = FALSE
    /\ UNCHANGED << userVars, sessVars, tpc, tbuff, tuser, tnew, ubase,
                    diskVars, work, restarts, cliVars >>

(***************************************************************************)
(* The process dies at any point (or has exited after the stop) and is     *)
(* started again: memory is lost, users.db and .meta.bin are kept, and the *)
(* browsers keep their cookies.                                            *)
(***************************************************************************)
Restart ==
    /\ restarts < MaxRestarts
    /\ Boot
    /\ restarts' = restarts + 1
    /\ UNCHANGED << meta, saved, cookie >>

\* While the process is up; after session_task has returned, main frees
\* everything and exits.
Up == tpc # "exit"

Next ==
    \/ \E t \in Threads, n \in Names : Up /\ RLock(t, n)
    \/ \E t \in Threads : Up /\ RPush(t)
    \/ \E t \in Threads, n \in Names : Up /\ LGet(t, n)
    \/ \E t \in Threads : Up /\ LLock(t)
    \/ \E t \in Threads : Up /\ LId(t)
    \/ \E t \in Threads : Up /\ LRef(t)
    \/ \E t \in Threads : Up /\ LCookie(t)
    \/ \E t \in Threads : Up /\ OGet(t)
    \/ \E t \in Threads : Up /\ OLock(t)
    \/ \E t \in Threads : Up /\ OULock(t)
    \/ TCycle \/ TStopSeen \/ TScan \/ TWLock \/ TRm \/ TRmU
    \/ TDrain \/ TWrite \/ TMeta
    \/ Stop
    \/ Restart

Spec == Init /\ [][Next]_vars

----

TypeOK ==
    /\ ulock \in Threads \cup {Task, None}
    /\ slock \in Threads \cup {Task, None}
    /\ users \in Seq(Names \cup {NoName}) /\ uentries \in Nat /\ ucap \in Nat
    /\ sess \in [Slots -> [user : {INVALID} \cup Nat, id : Ids \cup {NoId},
                           exp : 0 .. Timeout]]
    /\ scap \in Nat /\ slast \in 0 .. scap /\ sentries \in Nat
    /\ work \in Seq(Nat) /\ Len(work) <= WorkCap
    /\ db \in Seq(Names \cup {NoName}) /\ meta \in Nat
    /\ tpc \in {"top", "scan", "wlock", "rm", "rmu", "drain", "write", "meta", "exit"}
    /\ cpc \in [Threads -> {"idle", "r_push", "l_lock", "l_id", "l_ref", "l_cookie",
                            "o_lock", "o_ulock"}]
    /\ cookie \in [Threads -> Ids \cup {NoId}]

(***************************************************************************)
(* users.db is appended and flushed (line 113) before .meta.bin is         *)
(* rewritten (line 120), and a restart reads the count first: the count    *)
(* never claims more records than the file holds, wherever the process     *)
(* dies.                                                                   *)
(***************************************************************************)
MetaWithinDb == meta <= Len(db)

(***************************************************************************)
(* Once the session task has written a user's record and then the count    *)
(* that covers it, every later restart loads that user: it is among the    *)
(* first meta records of users.db (load_user_db, line 326).                *)
(***************************************************************************)
SavedUsersSurvive == saved \subseteq Range(SubSeq(db, 1, meta))

(***************************************************************************)
(* A login never takes a slot that holds a live session: the free-slot     *)
(* search of lines 194-200 only looks below last, so it needs every live   *)
(* session below last, which the shrinking of last in logout (line 259)    *)
(* and in the expiry loop (line 98) must preserve.  A login that took a    *)
(* live slot would hand that session's cookie to the new user.             *)
(***************************************************************************)
LoginTakesFreeSlot ==
    [][\A t \in Threads :
          (cpc[t] = "l_lock" /\ cpc'[t] = "l_id")
              => sess[cslot'[t]].user = INVALID]_vars

====
