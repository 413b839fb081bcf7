----------------------------- MODULE MCHttpClient -----------------------------
(* Model checking of HttpClient: the calls that are made. *)
EXTENDS HttpClient, TLC

Plain ==
  [kind |-> "request", method |-> "GET", url |-> "absolute", base |-> FALSE,
   body |-> "none", timed |-> TRUE, signal |-> TRUE, middlewares |-> 1,
   noRetry |-> FALSE, extended |-> <<>>, override |-> <<>>,
   retry |-> [attempts |-> 3, delay |-> 1, methods |-> {"GET"}, statuses |-> {"503"}]]

\* Reads that are retried, with a delay or without, and writes that opt in.
Retried ==
  {[Plain EXCEPT !.kind = k, !.signal = s, !.timed = t, !.middlewares = m,
                 !.override = d] :
     k \in {"request", "expectOk"}, s \in BOOLEAN, t \in BOOLEAN, m \in 0 .. 2,
     d \in {[delay |-> 0], [delay |-> 1]}}

Writes ==
  {[Plain EXCEPT !.method = "POST", !.body = b, !.override = o, !.middlewares = m] :
     b \in {"text", "json", "stream", "function", "cyclic"}, m \in 0 .. 1,
     o \in {<<>>, [methods |-> {"GET", "POST"}, attempts |-> 2]}}

Others ==
  {[Plain EXCEPT !.kind = "typed", !.noRetry = TRUE],
   [Plain EXCEPT !.extended = [attempts |-> 2], !.override = [delay |-> -1]],
   [Plain EXCEPT !.override = [attempts |-> 0]],
   [Plain EXCEPT !.kind = "prepared", !.middlewares = 0],
   [Plain EXCEPT !.kind = "prepared", !.middlewares = 0, !.body = "text"],
   [Plain EXCEPT !.url = "missingParam"],
   [Plain EXCEPT !.url = "relative"],
   [Plain EXCEPT !.url = "relative", !.base = TRUE],
   [Plain EXCEPT !.body = "json"],
   [Plain EXCEPT !.override = [statuses |-> {"404", "503"}]]}

Calls == Retried \cup Writes \cup Others
=============================================================================
