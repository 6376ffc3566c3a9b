-------------------------------- MODULE App --------------------------------
(***************************************************************************)
(* The crypto-portfolio application of src/app on the server's request    *)
(* path: the routing trie that app_start builds with http_register_method  *)
(* (src/server/http.c), the method dispatch of http_process_request, the   *)
(* handlers of app.c and the portfolio backend they call (portfolio.c,     *)
(* coin.c, csv.c), run by several pool threads at once.                     *)
(*                                                                         *)
(* A URL is a sequence of tokens: "/" and path segments, which never hold *)
(* a '/'; comparing token sequences is comparing the bytes (memcmp plus    *)
(* the '/' test of http_resolve_path).  The session provider is abstract:  *)
(* the registered names and the users with a live session (SessionManager *)
(* models it in detail).  A coin file is the sequence of its data lines,   *)
(* each an id and the ghost tag of the post that wrote it; the header line *)
(* is implicit.  Response bodies are left out; a response is its code.    *)
(***************************************************************************)
EXTENDS Integers, Sequences, FiniteSets

CONSTANTS
    Threads,    \* pool threads running http_process_request
    Users,      \* user names a client may send
    Coins,      \* tickers a client may send
    Portfolio,  \* the portfolio directory of each name (spaces become '_')
    Requests,   \* the requests clients may send
    Resources,  \* the URL suffixes naming a file under view/resources
    MaxTx,      \* bound on the transactions posted
    None,       \* NULL
    Missing     \* a coin file that does not exist

ASSUME MaxTx \in Nat

Dirs == {Portfolio[u] : u \in Users}
Uninit == "uninit"          \* a method pointer malloc left uninitialised

VARIABLES
    users,      \* names http_session_register_user accepted
    logged,     \* names with a live session
    dirs,       \* portfolio directories that exist
    files,      \* files[d][c]: Missing or the data lines of d/c.csv
    pc,         \* pc[t]: where thread t is in its request
    req,        \* req[t]: the request t handles, with its dispatch
    lastId,     \* lastId[t]: csv.lastId of the coin file t loaded
    off,        \* off[t]: the end-of-file offset t's fseek found, in lines
    resp,       \* resp[t]: the code of t's last response
    ntx,        \* ghost: transactions posted so far (their tags)
    acked,      \* ghost: transactions answered 201 Created
    crashed     \* the process has faulted

vars == <<users, logged, dirs, files, pc, req, lastId, off, resp, ntx,
          acked, crashed>>

----
(* The routing trie (http.c lines 116-210 and 650-699)                     *)
----

\* A trie is a sequence of nodes, the root first; kids lists child nodes
\* in the order http_add_child_path appended them.
NewNode(label) ==
    [label |-> label, kids |-> <<>>, get |-> None, post |-> None,
     put |-> Uninit, patch |-> Uninit, delete |-> Uninit]

\* The handler slot of each method http_process_request knows.
MethodField ==
    [GET |-> "get", POST |-> "post", PUT |-> "put", PATCH |-> "patch",
     DELETE |-> "delete"]

\* The index of the first token of p at or after pos that is not "/".
RECURSIVE SkipSlashes(_, _)
SkipSlashes(p, pos) ==
    IF pos <= Len(p) /\ p[pos] = "/" THEN SkipSlashes(p, pos + 1) ELSE pos

\* Child label lab matches the rest r of the path: all of it, or a prefix
\* of it followed by '/'.
Whole(lab, r) == lab = r
Prefix(lab, r) ==
    Len(lab) < Len(r) /\ SubSeq(r, 1, Len(lab)) = lab /\ r[Len(lab) + 1] = "/"

\* http_resolve_path from node cur at token pos: the node reached and the
\* remaining suffix (None when the whole path was consumed).
RECURSIVE ResolveFrom(_, _, _, _)
ResolveFrom(tr, cur, p, pos) ==
    LET q    == SkipSlashes(p, pos)
        r    == SubSeq(p, q, Len(p))
        kids == tr[cur].kids
        hit  == {k \in 1 .. Len(kids) :
                   Whole(tr[kids[k]].label, r) \/ Prefix(tr[kids[k]].label, r)}
    IN IF r = <<>> THEN [node |-> cur, rest |-> None]
       ELSE IF hit = {} THEN [node |-> cur, rest |-> r]
       ELSE LET c == kids[CHOOSE k \in hit : \A j \in hit : k <= j]
            IN IF Whole(tr[c].label, r) THEN [node |-> c, rest |-> None]
               ELSE ResolveFrom(tr, c, p, q + Len(tr[c].label))

http_resolve_path(tr, p) == ResolveFrom(tr, 1, p, 1)

\* The first segment of r and the '/'s after it.
SegmentEnd(r) ==
    LET s == CHOOSE i \in 1 .. Len(r) + 1 :
               /\ \A j \in 1 .. i - 1 : r[j] # "/"
               /\ i <= Len(r) => r[i] = "/"
    IN SkipSlashes(r, s)

\* Lines 661-670: one node per segment of the unresolved rest, each
\* labelled with the whole rest from that segment on (line 664 passes
\* remain_len where the segment's length new_len is meant), each a child
\* of the one before.  Returns the trie and the last node.
RECURSIVE AddPaths(_, _, _)
AddPaths(tr, parent, r) ==
    IF r = <<>> THEN [trie |-> tr, node |-> parent]
    ELSE LET n   == Len(tr) + 1
             tr2 == [Append(tr, NewNode(r)) EXCEPT ![parent].kids = Append(@, n)]
         IN AddPaths(tr2, n, SubSeq(r, SegmentEnd(r), Len(r)))

\* http_register_method: resolve, add the missing nodes, then set the
\* method's slot unless it is already set (-1, the added nodes stay).
\* app_start registers GET and POST handlers only.
http_register_method(tr, path, m, h) ==
    LET res == http_resolve_path(tr, path)
        add == IF res.rest = None THEN [trie |-> tr, node |-> res.node]
               ELSE AddPaths(tr, res.node, res.rest)
        t2  == add.trie
        u   == add.node
        fld == MethodField[m]
    IN IF t2[u][fld] # None THEN t2
       ELSE [t2 EXCEPT ![u][fld] = h]

\* app_start, app.c lines 425-434: the routes, in the order registered.
AppRoutes ==
    << <<<<"/">>, "GET", "get_resource">>,
       <<<<"/", "login">>, "GET", "get_login">>,
       <<<<"/", "login">>, "POST", "post_login">>,
       <<<<"/", "logout">>, "GET", "post_logout">>,
       <<<<"/", "register">>, "GET", "get_register">>,
       <<<<"/", "register">>, "POST", "post_register">>,
       <<<<"/", "home">>, "GET", "get_home">>,
       <<<<"/", "coins">>, "GET", "get_coins">>,
       <<<<"/", "coin">>, "GET", "get_coin">>,
       <<<<"/", "coin">>, "POST", "post_coin">> >>

RECURSIVE Build(_, _)
Build(tr, rs) ==
    IF rs = <<>> THEN tr
    ELSE Build(http_register_method(tr, Head(rs)[1], Head(rs)[2], Head(rs)[3]),
               Tail(rs))

\* http_init_url_paths and app_start, before http_server_start.
Trie == Build(<<NewNode(<<>>)>>, AppRoutes)

----
(* State and the request path                                               *)
----

Init ==
    /\ users = {} /\ logged = {} /\ dirs = {}
    /\ files = [d \in Dirs |-> [c \in Coins |-> Missing]]
    /\ pc = [t \in Threads |-> "idle"]
    /\ req = [t \in Threads |-> CHOOSE r \in Requests : TRUE]
    /\ lastId = [t \in Threads |-> 0]
    /\ off = [t \in Threads |-> 0]
    /\ resp = [t \in Threads |-> 0]
    /\ ntx = 0 /\ acked = {} /\ crashed = FALSE

\* http_session_get: the request's cookie names a live session.
Valid(r) == r.sess \in logged

\* The portfolio and the coin of t's transaction: get_user_portfolio_path
\* (app.c lines 13-20) and the ticker PortfolioAddCoinTransactions takes
\* from the body (portfolio.c lines 105-115).
Dir(t) == Portfolio[req[t].sess]
Coin(t) == req[t].coin

\* A handler that answers in one step, changing nothing else.
Answer(t, code) ==
    /\ resp' = [resp EXCEPT ![t] = code]
    /\ UNCHANGED <<users, logged, dirs, files, pc, req, lastId, off, ntx,
                   acked, crashed>>

\* Undefined behaviour that the build turns into a crash of the process.
Fault ==
    /\ crashed' = TRUE
    /\ UNCHANGED <<users, logged, dirs, files, pc, req, lastId, off, resp,
                   ntx, acked>>

\* The checks every form handler starts with: a query string, a URL
\* suffix, or a body without a username and a password gives 400.
BadForm(r, suf) == r.args # None \/ suf # None \/ r.user = None

crypto_get_resource(t, r, suf) ==
    Answer(t, CASE r.args # None    -> 400
                [] suf = None       -> 303
                [] suf \in Resources -> 200
                [] OTHER            -> 400)   \* not_found_reply sets 400

crypto_get_register(t, r, suf) ==
    Answer(t, CASE r.args # None \/ suf # None -> 400
                [] Valid(r)                   -> 303
                [] OTHER                      -> 200)

\* The same checks as crypto_get_register; another page.
crypto_get_login(t, r, suf) == crypto_get_register(t, r, suf)

crypto_get_home(t, r, suf) ==
    Answer(t, CASE r.args # None \/ suf # None -> 400
                [] ~Valid(r)                  -> 303
                [] OTHER                      -> 200)

\* The name is registered (the session provider refuses a taken one and
\* the handler, with no return after bad_request_reply, goes on); the
\* portfolio is created in a later step.
crypto_post_register(t, r, suf) ==
    \/ /\ BadForm(r, suf) \/ Valid(r)
       /\ Answer(t, 400)
    \/ /\ ~BadForm(r, suf) /\ ~Valid(r)
       /\ users' = users \cup {r.user}
       /\ pc' = [pc EXCEPT ![t] = "reg_create"]
       /\ req' = [req EXCEPT ![t] = r]
       /\ UNCHANGED <<logged, dirs, files, lastId, off, resp, ntx, acked,
                      crashed>>

\* OpenDirectory: opendir, or mkdir when it does not exist.
OpenDirectory(d) == dirs \cup {d}

\* PortfolioCreate (the name with '_' for ' ' is Portfolio), then 201,
\* whatever the register returned.
RegCreate(t) ==
    /\ ~crashed /\ pc[t] = "reg_create"
    /\ dirs' = OpenDirectory(Portfolio[req[t].user])
    /\ resp' = [resp EXCEPT ![t] = 201]
    /\ pc' = [pc EXCEPT ![t] = "idle"]
    /\ UNCHANGED <<users, logged, files, req, lastId, off, ntx, acked, crashed>>

crypto_post_login(t, r, suf) ==
    \/ /\ BadForm(r, suf) \/ Valid(r)
       /\ Answer(t, 400)
    \/ /\ ~BadForm(r, suf) /\ ~Valid(r)
       /\ ~(r.user \in users /\ r.pwok)
       /\ Answer(t, 401)
    \/ /\ ~BadForm(r, suf) /\ ~Valid(r)
       /\ r.user \in users /\ r.pwok
       /\ logged' = logged \cup {r.user}
       /\ resp' = [resp EXCEPT ![t] = 302]
       /\ UNCHANGED <<users, dirs, files, pc, req, lastId, off, ntx, acked,
                      crashed>>

crypto_post_logout(t, r, suf) ==
    /\ logged' = logged \ {r.sess}
    /\ resp' = [resp EXCEPT ![t] = 303]
    /\ UNCHANGED <<users, dirs, files, pc, req, lastId, off, ntx, acked,
                   crashed>>

\* PortfolioGetCoinsList opens the portfolio, making it if it is missing,
\* and closes the list by overwriting the last ',' with ']' (line 84).
\* With no coin file that is the '[' itself: the body is unterminated and
\* crypto_get_coins' strlen reads on past the buffer.  TRUE when it does.
PortfolioGetCoinsListUnterminated(d) ==
    d \notin dirs \/ \A c \in Coins : files[d][c] = Missing

\* crypto_get_coins: the over-read may fault or answer.
crypto_get_coins(t, r, suf) ==
    LET d     == Portfolio[r.sess]
        empty == PortfolioGetCoinsListUnterminated(d)
    IN \/ ~Valid(r) /\ Answer(t, 401)
       \/ Valid(r) /\ r.args # None /\ Answer(t, 400)
       \/ /\ Valid(r) /\ r.args = None
          /\ \/ /\ dirs' = OpenDirectory(d)
                /\ resp' = [resp EXCEPT ![t] = 200]
                /\ UNCHANGED <<users, logged, files, pc, req, lastId, off,
                               ntx, acked, crashed>>
             \/ empty /\ Fault

\* Coin_getTransactions ignores CSV_load's -1 for a missing file and reads
\* the uninitialised csv; for a file with no line it writes "[" into
\* malloc(0).  TRUE when it runs into either.
Coin_getTransactionsUndefined(f) == f \in {Missing, <<>>}

\* crypto_get_coin: the ticker is the query string; the undefined cases
\* may fault or answer.
crypto_get_coin(t, r, suf) ==
    LET f == files[Portfolio[r.sess]][r.args]
    IN \/ ~Valid(r) /\ Answer(t, 401)
       \/ Valid(r) /\ r.args = None /\ Answer(t, 400)
       \/ Valid(r) /\ r.args # None /\ Answer(t, 200)
       \/ /\ Valid(r) /\ r.args # None
          /\ Coin_getTransactionsUndefined(f) /\ Fault

\* crypto_post_coin up to Coin_addTransacation.  A body without the
\* "coin" key makes strstr return NULL and the ticker loop reads at
\* address 7 (portfolio.c lines 109-112).
crypto_post_coin(t, r, suf) ==
    \/ (r.args # None \/ suf # None) /\ Answer(t, 400)
    \/ r.args = None /\ suf = None /\ ~Valid(r) /\ Answer(t, 401)
    \/ r.args = None /\ suf = None /\ Valid(r) /\ r.coin = None /\ Fault
    \/ /\ r.args = None /\ suf = None /\ Valid(r) /\ r.coin # None
       /\ ntx < MaxTx
       /\ pc' = [pc EXCEPT ![t] = "coin_load"]
       /\ req' = [req EXCEPT ![t] = r]
       /\ UNCHANGED <<users, logged, dirs, files, lastId, off, resp, ntx,
                      acked, crashed>>

\* CSV_load (csv.c lines 30-50): fopen(path, "r+") fails for a missing
\* file; otherwise every line is read and lastId is the id of the last.
CoinLoad(t) ==
    LET f == files[Dir(t)][Coin(t)]
    IN /\ ~crashed /\ pc[t] = "coin_load"
       /\ IF f = Missing
            THEN pc' = [pc EXCEPT ![t] = "coin_create"] /\ UNCHANGED lastId
            ELSE /\ lastId' = [lastId EXCEPT ![t] = IF f = <<>> THEN 0
                                                    ELSE f[Len(f)].id]
                 /\ pc' = [pc EXCEPT ![t] = "coin_seek"]
       /\ UNCHANGED <<users, logged, dirs, files, req, off, resp, ntx, acked,
                      crashed>>

\* CSV_create (csv.c lines 6-18): fopen(path, "w") truncates the file, or
\* returns NULL when the portfolio directory does not exist, and the
\* fprintf to it faults.
CoinCreate(t) ==
    /\ ~crashed /\ pc[t] = "coin_create"
    /\ \/ Dir(t) \notin dirs /\ Fault
       \/ /\ Dir(t) \in dirs
          /\ files' = [files EXCEPT ![Dir(t)][Coin(t)] = <<>>]
          /\ lastId' = [lastId EXCEPT ![t] = 0]
          /\ pc' = [pc EXCEPT ![t] = "coin_seek"]
          /\ UNCHANGED <<users, logged, dirs, req, off, resp, ntx, acked,
                         crashed>>

\* CSV_appendNewLine, fseek(fd, 0, SEEK_END) (csv.c line 99): the offset
\* of the end of the file now.
CoinSeek(t) ==
    /\ ~crashed /\ pc[t] = "coin_seek"
    /\ off' = [off EXCEPT ![t] = Len(files[Dir(t)][Coin(t)])]
    /\ pc' = [pc EXCEPT ![t] = "coin_write"]
    /\ UNCHANGED <<users, logged, dirs, files, req, lastId, resp, ntx, acked,
                   crashed>>

\* fprintf and fflush (csv.c lines 100-101) write the line with id
\* ++lastId at the offset found, over a line another thread appended
\* since (whole when the lines are as long) or at the end; then
\* crypto_post_coin answers 201.
CoinWrite(t) ==
    LET f    == files[Dir(t)][Coin(t)]
        line == [id |-> lastId[t] + 1, tag |-> ntx + 1]
    IN /\ ~crashed /\ pc[t] = "coin_write"
       /\ files' = [files EXCEPT ![Dir(t)][Coin(t)] =
                      IF off[t] < Len(f) THEN [f EXCEPT ![off[t] + 1] = line]
                      ELSE Append(f, line)]
       /\ ntx' = ntx + 1
       /\ acked' = acked \cup {[d |-> Dir(t), c |-> Coin(t), tag |-> ntx + 1]}
       /\ resp' = [resp EXCEPT ![t] = 201]
       /\ pc' = [pc EXCEPT ![t] = "idle"]
       /\ UNCHANGED <<users, logged, dirs, req, lastId, off, crashed>>

\* http_process_request (http.c lines 330-400): resolve the URL, take the
\* node's slot for the method and call it; an empty slot gives 405, a
\* method it does not know 400.  The put, patch and delete slots were
\* never initialised: the call goes through whatever malloc left there.
Call(t, r, suf, h) ==
    CASE h = "get_resource"  -> crypto_get_resource(t, r, suf)
      [] h = "get_login"     -> crypto_get_login(t, r, suf)
      [] h = "get_register"  -> crypto_get_register(t, r, suf)
      [] h = "post_register" -> crypto_post_register(t, r, suf)
      [] h = "post_login"    -> crypto_post_login(t, r, suf)
      [] h = "post_logout"   -> crypto_post_logout(t, r, suf)
      [] h = "get_home"      -> crypto_get_home(t, r, suf)
      [] h = "get_coins"     -> crypto_get_coins(t, r, suf)
      [] h = "get_coin"      -> crypto_get_coin(t, r, suf)
      [] h = "post_coin"     -> crypto_post_coin(t, r, suf)

Receive(t) ==
    /\ ~crashed /\ pc[t] = "idle"
    /\ \E r \in Requests :
         LET res == http_resolve_path(Trie, r.path)
             h   == IF r.m \in DOMAIN MethodField
                      THEN Trie[res.node][MethodField[r.m]] ELSE "unknown"
         IN \/ h = "unknown" /\ Answer(t, 400)
            \/ h \in {None, Uninit} /\ Answer(t, 405)
            \/ h = Uninit /\ Fault
            \/ h \notin {"unknown", None, Uninit} /\ Call(t, r, res.rest, h)

\* The session task expires a session (http_session.c lines 60-99).
Expire ==
    /\ ~crashed
    /\ \E u \in logged : logged' = logged \ {u}
    /\ UNCHANGED <<users, dirs, files, pc, req, lastId, off, resp, ntx, acked,
                   crashed>>

Next ==
    \/ \E t \in Threads :
         \/ Receive(t) \/ RegCreate(t) \/ CoinLoad(t) \/ CoinCreate(t)
         \/ CoinSeek(t) \/ CoinWrite(t)
    \/ Expire

Spec == Init /\ [][Next]_vars

----
(* Properties                                                              *)
----

\* Every transaction crypto_post_coin answered 201 Created for is still a
\* line of its coin's file.  Coin_addTransacation calls CSV_create when
\* CSV_load finds no file, and CSV_create's fopen(path, "w") truncates
\* whatever another thread created and wrote since (csv.c line 7); two
\* appends that seek the same end both write there (csv.c lines 99-101).
TransactionsKept ==
    \A a \in acked :
        \E k \in 1 .. Len(files[a.d][a.c]) : files[a.d][a.c][k].tag = a.tag

====
