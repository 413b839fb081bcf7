------------------------------ MODULE MCServers ------------------------------
(* Model checking of Servers: the launches. *)
EXTENDS Servers, TLC

Plain == [server |-> FALSE, threaded |-> "false", entry |-> "unset",
          port |-> "some", source |-> "file"]
Owned == Plain
External == [Plain EXCEPT !.server = TRUE, !.threaded = "true"]
Threaded == [Plain EXCEPT !.threaded = "unset"]

Launch(o, c, h, a, n, u) ==
  [options |-> o, context |-> c, heard |-> h, awaited |-> a, maxListens |-> n, maxCalls |-> n,
   sockets |-> u]

\* One member: a server or a cluster, whose errors are heard or not.
Single ==
  {Launch("m1" :> Owned, "none", h, TRUE, 2, Sockets) : h \in BOOLEAN} \cup
  {Launch("m1" :> Threaded, "none", x[1], x[2], 2, {}) :
      x \in {<<TRUE, TRUE>>, <<TRUE, FALSE>>, <<FALSE, TRUE>>}}

OneSocket == {CHOOSE s \in Sockets : TRUE}

\* Lists: a server beside one of the application's, and beside a cluster.
Lists ==
  {Launch("m1" :> Owned @@ "m2" :> External, "none", TRUE, TRUE, 1, OneSocket),
   Launch("m1" :> Owned @@ "m2" :> Threaded, "none", TRUE, TRUE, 1, {})}

\* Ways not to have a cluster, and the launches of a file within a thread.
Others ==
  {Launch("m1" :> External @@ "m2" :> o, "file", TRUE, TRUE, 1, {}) :
     o \in {Threaded, [Threaded EXCEPT !.port = "zero"], [Threaded EXCEPT !.source = "test"],
            [Plain EXCEPT !.threaded = "object", !.source = "none"]}} \cup
  {Launch("m1" :> [Plain EXCEPT !.threaded = "object", !.entry = "other"], "file", TRUE, TRUE, 1, {})}

MCLaunches == Single \cup Lists \cup Others
=============================================================================
