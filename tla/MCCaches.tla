------------------------------ MODULE MCCaches ------------------------------
(***************************************************************************)
(* Model checking of the three caches.  They share nothing, so a behaviour *)
(* is of one of them, which it picks at its start.                         *)
(***************************************************************************)
EXTENDS RequestBody, StaticCache, TemporaryCertificates, TLC

Strict == [dotfiles |-> "deny", fallthrough |-> TRUE]
MCServices == {Strict, [dotfiles |-> "ignore", fallthrough |-> FALSE]}
MCIndexOf == "dir" :> "page" @@ "odd" :> "dir"
MCSizesOf == "page" :> {1, 2, 3} @@ "logo" :> {1}
MCKeyOf == "plain" :> "k1" @@ "spelled out" :> "k1" @@ "other" :> "k2"

\* A declared length matters when it exceeds a limit, what is not JSON is empty here, and an
\* HTTP/2 client differs in what need not happen: it is looked at with one body.
BodyOfInterest ==
  /\ body.declared => body.length = MaxBody /\ body.json
  /\ ~body.json => body.length = 0
  /\ ~timed => body = [length |-> MaxBody, declared |-> FALSE, json |-> TRUE]

VARIABLE part   \* "body", "static" or "tls"

vars == <<part, bodyVars, staticVars, tlsVars>>

Init == part \in {"body", "static", "tls"} /\ StaticInit /\ TlsInit /\ BodyInit
        /\ BodyOfInterest
        /\ (part # "body" => body = [length |-> 0, declared |-> FALSE, json |-> FALSE] /\ timed)
        /\ (part # "static" => service = Strict)

Next ==
  \/ part = "body" /\ BodyNext /\ UNCHANGED <<part, staticVars, tlsVars>>
  \/ part = "static" /\ StaticNext /\ UNCHANGED <<part, bodyVars, tlsVars>>
  \/ part = "tls" /\ TlsNext /\ UNCHANGED <<part, bodyVars, staticVars>>

Spec == Init /\ [][Next]_vars /\ BodyFairness
=============================================================================
