---------------------------- MODULE HttpExchange ----------------------------
(***************************************************************************)
(* What the server promises one client connection (spec sections 3, 4.4  *)
(* and 5), stated without slots, queues, TLS records or tasks.  The       *)
(* connection is accepted into the table or turned away, lives until the *)
(* server closes it, and while it lives the server writes responses to   *)
(* it: the k-th response answers the client's k-th request, and only a   *)
(* request the client has sent completely (its blank line received) is  *)
(* answered.  The client sends requests and hangs up when it likes.      *)
(*                                                                         *)
(* Reactor instantiates this module once per client and is checked to   *)
(* implement every instance.                                              *)
(***************************************************************************)
EXTENDS Naturals, Sequences

CONSTANT MaxReqs   \* requests a client sends on one connection

VARIABLES
    conn,     \* server side: "new" (not accepted yet), "open", "closed"
    cli,      \* the client still has its end open
    done,     \* requests the client has sent completely
    replies   \* replies[k]: the request the k-th response answers

vars == <<conn, cli, done, replies>>

Init ==
    /\ conn = "new"
    /\ cli = FALSE
    /\ done = 0
    /\ replies = <<>>

\* The server accepts the connection.  It enters the table after a good
\* handshake; otherwise (failed handshake, full table) it is never served,
\* whether or not the client believes it is connected.
Accept ==
    /\ conn = "new"
    /\ \/ conn' = "open" /\ cli' = TRUE
       \/ conn' = "closed" /\ cli' \in BOOLEAN
    /\ UNCHANGED <<done, replies>>

\* The client completes one more request.
Send ==
    /\ cli
    /\ done < MaxReqs
    /\ done' = done + 1
    /\ UNCHANGED <<conn, cli, replies>>

\* The client closes or resets its end.
Leave ==
    /\ cli
    /\ cli' = FALSE
    /\ UNCHANGED <<conn, done, replies>>

\* The server closes the connection (client hang-up or idle timeout); the
\* client's socket is gone with it.
Close ==
    /\ conn = "open"
    /\ conn' = "closed"
    /\ cli' = FALSE
    /\ UNCHANGED <<done, replies>>

\* The server answers the oldest unanswered complete request.
Reply ==
    /\ conn = "open"
    /\ Len(replies) < done
    /\ replies' = Append(replies, Len(replies) + 1)
    /\ UNCHANGED <<conn, cli, done>>

Next == Accept \/ Send \/ Leave \/ Close \/ Reply

\* The server does not leave a complete request unanswered for ever on a
\* connection it keeps open: time and again every complete request has
\* been answered or the connection is closed.  (Since done is bounded and
\* replies only grow, this is weak fairness of Reply, stated without
\* ENABLED.)
Answered == []<>(conn # "open" \/ Len(replies) >= done)

Spec == Init /\ [][Next]_vars /\ Answered

====
