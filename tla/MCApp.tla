------------------------------- MODULE MCApp -------------------------------
(***************************************************************************)
(* App for TLC: two pool threads, one user with one portfolio and one     *)
(* coin, and the requests a browser of that user sends.                   *)
(***************************************************************************)
EXTENDS App

CONSTANTS th1, th2, u1, d1, c1

MCThreads == {th1, th2}
MCUsers == {u1}
MCCoins == {c1}
MCPortfolio == [u \in MCUsers |-> d1]
\* A file under view/resources, as the URL suffix names it.
MCResources == {<<"app.js">>}

\* A request: method, URL tokens, query string, the name of a login or
\* register body (with a matching password), the coin of a transaction
\* body, and the user whose session cookie it carries.
Rq(m, p, a, u, c, s) ==
    [m |-> m, path |-> p, args |-> a, user |-> u, pwok |-> TRUE, coin |-> c,
     sess |-> s]

MCRequests ==
    { Rq("POST", <<"/", "register">>, None, u1, None, None),
      Rq("POST", <<"/", "login">>, None, u1, None, None),
      Rq("POST", <<"/", "coin">>, None, None, c1, u1),
      Rq("GET", <<"/", "coins">>, None, None, None, u1),
      Rq("GET", <<"/", "coin">>, c1, None, None, u1),
      Rq("GET", <<"/", "logout">>, None, None, None, u1),
      Rq("GET", <<"/", "app.js">>, None, None, None, None),
      Rq("PUT", <<"/", "coin">>, None, None, None, u1) }

====
