------------------------------- MODULE MCDispatch -------------------------------
(* Values for the runs of Dispatch. *)
EXTENDS Dispatch

MCNames == {Empty, "a", "b", "p", "q", "rest", "wildcard"}

A == [kind |-> "static", name |-> "a"]
P == [kind |-> "param", name |-> "p"]
Q == [kind |-> "param", name |-> "q"]
Rest == [kind |-> "wild", name |-> "rest"]

On(kind, method, pattern) == [at |-> 0, kind |-> kind, method |-> method, pattern |-> pattern, errors |-> FALSE]
Route(method, pattern) == On("route", method, pattern)
Use == On("use", "ALL", <<>>)
OnError == [Use EXCEPT !.errors = TRUE]
In(at, registration) == [registration EXCEPT !.at = at]

Alone == {
    Route("GET", <<P>>), Route("GET", <<Q>>), Route("ALL", <<A>>), Route("GET", <<Rest>>),
    Use, OnError, On("static", "ALL", <<A>>), On("ws", "ALL", <<P>>) }

\* A host scope, a router with a tree and one without, as registration n.
Hosts(n) == <<On("scope", "ALL", <<>>), In(n, Use)>>
Tree(n) == <<On("router", "ALL", <<A>>), In(n, Route("GET", <<P>>)), In(n, Route("ALL", <<>>))>>
Chain(n) == <<On("router", "ALL", <<P>>), In(n, Use), In(n, OnError)>>
\* A router within a router.
Nested == <<On("router", "ALL", <<>>), In(1, On("router", "ALL", <<P>>)), In(2, Use), In(1, Route("GET", <<A, Q>>))>>

MCApps ==
    {<<a, b>> : a \in Alone, b \in Alone}
    \cup {Hosts(1) \o <<a>> : a \in Alone}
    \cup {Tree(1) \o <<OnError>>, Tree(1) \o <<Route("GET", <<Rest>>)>>, <<Use>> \o Tree(2),
          Hosts(1) \o Tree(3), Chain(1), <<Use>> \o Chain(2), Nested,
          <<Use, Route("GET", <<P>>), OnError>>,
          <<Route("GET", <<P>>), Route("GET", <<Q, A>>), Route("GET", <<P, P>>)>>}

MCRequests == {
    [method |-> "GET", path |-> <<"a", "b">>, host |-> TRUE],
    [method |-> "HEAD", path |-> <<"a">>, host |-> FALSE],
    [method |-> "GET", path |-> <<"a", Empty, Empty>>, host |-> FALSE] }
================================================================================
