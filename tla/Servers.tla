------------------------------- MODULE Servers -------------------------------
(***************************************************************************)
(* The servers of one launch: app.listen() of one member, or               *)
(* app.listenMany() of several, in one process.  createServer              *)
(* (src/internal/http/application.ts) makes of each member's options a     *)
(* thread cluster (ThreadCluster, of which there is one at most here), a   *)
(* placeholder in a thread that imports its entry, or a KenoServer         *)
(* (src/internal/transport/server.ts) over a raw node server of its own or *)
(* of the application.  KenoMultiServer is in transport/multi-server.ts.   *)
(***************************************************************************)
EXTENDS ThreadCluster

CONSTANTS
  Members,     \* places in the list of options
  Sockets,     \* what keeps a raw server from closing: requests, HTTP/2 sessions, websockets
  Launches     \* the launches: records of options, context, heard, awaited, and of the
               \* bounds: the calls of listen() and close() of a member, and its sockets

ASSUME ServersAssumption ==
  \A l \in Launches : /\ DOMAIN l.options \subseteq Members
                      /\ l.maxListens \in Nat \ {0} /\ l.maxCalls \in 0 .. MaxCloses
                      /\ l.sockets \subseteq Sockets

VARIABLES
  launch,     \* the launch
  raw,        \* the raw server of each member, see RawType
  attached,   \* members whose listeners are on the raw server
  sockets,    \* what goes on over the connections: a request in progress or an HTTP/2
              \* session ("serving"), upgrades under way, and websocketClients
  ready,      \* the ready() of each member that listen() of the list waits for
  opened,     \* history: members whose raw server got a handle
  failures,   \* history: members that could not bind
  listens,    \* history: calls of listen() of each member
  reopened,   \* history: members that listened after a close()
  late,       \* history: members with an upgrade that ended after a close()
  calls,      \* calls of close() of the members that are KenoServers
  multi       \* the list: listening, announced, and its own calls of close()

serverVars == <<launch, raw, attached, sockets, ready, opened, failures, listens, reopened, late,
                calls, multi>>
vars == <<clusterVars, serverVars>>

-----------------------------------------------------------------------------
(* createServer.  An option record has the fields server, threaded, entry, *)
(* port and source: is there a server to attach to, the threaded option,   *)
(* its entry, the port, and the file that created the application.         *)

\* shouldDisableImplicitThreading: no file, bun, a test runner or a test file.
ImplicitDisabled(o) == o.source \in {"none", "test"}

\* normalizeThreadedOptions: the entry of the cluster, or "none".
ThreadEntry(o) ==
  IF \/ o.server \/ o.threaded = "false"
     \/ o.threaded = "unset" /\ (ImplicitDisabled(o) \/ o.port \in {"unset", "zero"})
  THEN "none"
  ELSE IF o.threaded = "object" /\ o.entry # "unset" THEN o.entry
  ELSE o.source

\* shouldBootstrapThreadedApplication: the entry, as it was given, is compared
\* with the URL of the context, which a thread has while it imports its entry.
Bootstraps(o, context) ==
  /\ context # "none"
  /\ o.source # "none"
  /\ ThreadEntry(o) = context

ServerKind(o, context) ==
  IF Bootstraps(o, context) THEN "placeholder"
  ELSE IF ThreadEntry(o) # "none" THEN "cluster"
  ELSE IF o.server THEN "external" ELSE "owned"

Listed == DOMAIN launch.options
Kind(m) ==
  IF m \in Listed THEN ServerKind(launch.options[m], launch.context) ELSE "absent"
Of(kinds) == {m \in Members : Kind(m) \in kinds}
KenoServers == Of({"owned", "external"})
HasCluster == Of({"cluster"}) # {}
IsList == Cardinality(Listed) > 1

(***************************************************************************)
(* handle: does the raw server listen?  bind: what node still has to do    *)
(* for a listen(): look a host name up, emit "listening" or "error".       *)
(* closeDue: is it to emit "close"?                                        *)
(***************************************************************************)
RawType == [handle : BOOLEAN, bind : {"none", "lookup", "bound", "failed"}, closeDue : BOOLEAN]

ServersTypeOK ==
  /\ ClusterTypeOK
  /\ launch \in Launches
  /\ raw \in [Members -> RawType]
  /\ attached \cup opened \cup failures \cup reopened \cup late \subseteq Members
  /\ sockets \in [Members -> [Sockets -> {"none", "serving", "upgrading", "open", "told", "gone"}]]
  /\ ready \in [Members -> {"none", "pending", "resolved"}]
  /\ listens \in [Members -> 0 .. launch.maxListens]
  /\ calls \in [Members -> Seq([errs : BOOLEAN, by : {"app", "abort", "list"},
                                state : {"pending", "resolved", "rejected"}])]
  /\ multi \in [listening : BOOLEAN, announced : BOOLEAN,
                close : {"none", "pending", "resolved", "rejected"}, waits : 0 .. MaxCloses]

\* attach() in the constructor.
Init ==
  /\ ClusterInit
  /\ launch \in Launches
  /\ Cardinality(Of({"cluster"})) <= 1
  /\ errorHeard = launch.heard
  /\ readyHeard = (launch.awaited /\ ~IsList)
  /\ raw \in [Members -> [handle : BOOLEAN, bind : {"none"}, closeDue : {FALSE}]]
  /\ \A m \in Members : raw[m].handle => Kind(m) = "external"
  /\ attached = KenoServers
  /\ sockets = [m \in Members |-> [s \in Sockets |-> "none"]]
  /\ ready = [m \in Members |-> "none"]
  /\ opened = {} /\ failures = {} /\ reopened = {} /\ late = {}
  /\ listens = [m \in Members |-> 0]
  /\ calls = [m \in Members |-> <<>>]
  /\ multi = [listening |-> FALSE, announced |-> FALSE, close |-> "none", waits |-> 0]

-----------------------------------------------------------------------------
(* Listening.                                                              *)

\* What listen() leaves for later: an external server only emits "listening".
BindChoices(m) == IF Kind(m) = "owned" THEN {"lookup", "bound", "failed"}
                  ELSE IF Kind(m) = "external" THEN {"bound"} ELSE {"none"}

Opened == opened \cup {m \in Members : raw'[m].handle}

Listened(m, b) ==
  [raw[m] EXCEPT !.bind = b, !.handle = @ \/ (Kind(m) = "owned" /\ b = "bound")]

\* ready() resolves at once when there is an address.
ReadyOf(m, r) ==
  IF ready[m] = "resolved" \/ r.handle \/ Kind(m) = "placeholder" THEN "resolved" ELSE "pending"

\* listen() of the list, or of its only member, and the ready() of all of them.
ListListen ==
  /\ ~multi.listening
  /\ multi' = [multi EXCEPT !.listening = TRUE]
  /\ \E b \in [Members -> {"none", "lookup", "bound", "failed"}] :
       /\ \A m \in Members : b[m] \in BindChoices(m)
       /\ raw' = [m \in Members |-> Listened(m, b[m])]
  /\ ready' = [m \in Members |-> ReadyOf(m, raw'[m])]
  /\ listens' = [m \in Members |-> listens[m] + 1]
  /\ opened' = Opened
  /\ reopened' = reopened \cup {m \in KenoServers : calls[m] # <<>>}
  /\ IF HasCluster /\ ~cluster.listening THEN ClusterListen ELSE UNCHANGED clusterVars
  /\ UNCHANGED <<launch, attached, sockets, failures, late, calls>>

\* The application listens again, after a failure or a close.
ListenAgain(m) ==
  /\ Kind(m) = "owned"
  /\ listens[m] \in 1 .. launch.maxListens - 1
  /\ ~raw[m].handle /\ raw[m].bind = "none"
  /\ \E b \in BindChoices(m) : raw' = [raw EXCEPT ![m] = Listened(m, b)]
  /\ listens' = [listens EXCEPT ![m] = @ + 1]
  /\ opened' = Opened
  /\ reopened' = IF calls[m] # <<>> THEN reopened \cup {m} ELSE reopened
  /\ UNCHANGED <<clusterVars, launch, attached, sockets, ready, failures, late, calls, multi>>

LookupEnds(m) ==
  /\ raw[m].bind = "lookup"
  /\ \E b \in {"bound", "failed"} : raw' = [raw EXCEPT ![m] = Listened(m, b)]
  /\ opened' = Opened
  /\ UNCHANGED <<clusterVars, launch, attached, sockets, ready, failures, listens, reopened,
                 late, calls, multi>>

\* The raw server reports "listening" if it still has its handle, and the KenoServer
\* passes it on while attached; an external one emits it in a microtask of its own.
Announce(m) ==
  LET heard == Kind(m) = "external" \/ (raw[m].handle /\ m \in attached)
  IN  /\ raw[m].bind = "bound"
      /\ raw' = [raw EXCEPT ![m].bind = "none"]
      /\ IF heard
         THEN ready' = [ready EXCEPT ![m] = IF @ = "pending" THEN "resolved" ELSE @]
         ELSE UNCHANGED ready
      /\ UNCHANGED <<clusterVars, launch, attached, sockets, opened, failures, listens,
                     reopened, late, calls, multi>>

\* "error" of the raw server: passed on while attached, and thrown without listener.
BindFails(m) ==
  /\ raw[m].bind = "failed"
  /\ raw' = [raw EXCEPT ![m].bind = "none"]
  /\ failures' = failures \cup {m}
  /\ crashed' = (~errorHeard \/ m \notin attached)
  /\ UNCHANGED <<launchVars, stage, outbox, snapshots, cluster, closes, events, served,
                 attached, launch, sockets, ready, opened, listens, reopened, late, calls, multi>>

\* Mutant: one member that is ready will do.
AllReady_Any ==
  \/ \E m \in KenoServers : ready[m] = "resolved"
  \/ HasCluster /\ cluster.ready = "resolved"

AllReady ==
  /\ \A m \in Listed \ Of({"cluster"}) : ready[m] = "resolved"
  /\ HasCluster => cluster.ready = "resolved"

\* The list emits "listening" when every ready() has resolved.
ListAnnounces ==
  /\ multi.listening /\ ~multi.announced
  /\ AllReady
  /\ multi' = [multi EXCEPT !.announced = TRUE]
  /\ UNCHANGED <<clusterVars, launch, raw, attached, sockets, ready, opened, failures, listens,
                 reopened, late, calls>>

-----------------------------------------------------------------------------
(* Connections.  See Realtime for what happens during an upgrade.          *)

InUse == {"serving", "upgrading", "open", "told"}
Live(m, ss) == \E s \in Sockets : ss[s] \in InUse

\* What node does in the next tick comes before any connection.
Accepts(m) == raw[m].handle /\ raw[m].bind = "none" /\ ~raw[m].closeDue

\* A request, which its handler may never answer, or an HTTP/2 session.
ServingBegins(m, s) ==
  /\ s \in launch.sockets /\ Kind(m) = "owned"
  /\ Accepts(m)
  /\ sockets[m][s] = "none"
  /\ sockets' = [sockets EXCEPT ![m][s] = "serving"]
  /\ UNCHANGED <<clusterVars, launch, raw, attached, ready, opened, failures, listens, reopened, late,
                 calls, multi>>

\* An upgrade comes on a new connection, as the next request of one in use, or as a
\* stream of a session.  The last two need no handle.
UpgradeBegins(m, s) ==
  /\ m \in attached /\ s \in launch.sockets
  /\ \/ /\ sockets[m][s] = "none"
        /\ Accepts(m) \/ \E other \in Sockets : sockets[m][other] = "serving"
     \/ sockets[m][s] = "serving"
  /\ sockets' = [sockets EXCEPT ![m][s] = "upgrading"]
  /\ UNCHANGED <<clusterVars, launch, raw, attached, ready, opened, failures, listens, reopened, late,
                 calls, multi>>

\* registerWebSocket, which does not ask whether close() was called.
Registers(m, s) ==
  /\ sockets[m][s] = "upgrading"
  /\ sockets' = [sockets EXCEPT ![m][s] = "open"]
  /\ late' = IF calls[m] # <<>> THEN late \cup {m} ELSE late
  /\ UNCHANGED <<clusterVars, launch, raw, attached, ready, opened, failures, listens, reopened, calls,
                 multi>>

\* The response or the session ends, an upgrade is rejected, a websocket closes.  A raw
\* server that lost its handle emits "close" with its last connection.
SocketGone(m, s) ==
  /\ sockets[m][s] \in InUse
  /\ sockets' = [sockets EXCEPT ![m][s] = "gone"]
  /\ raw' = [raw EXCEPT ![m].closeDue =
               @ \/ (Kind(m) = "owned" /\ ~raw[m].handle /\ ~Live(m, sockets'[m]))]
  /\ UNCHANGED <<clusterVars, launch, attached, ready, opened, failures, listens, reopened, late, calls,
                 multi>>

-----------------------------------------------------------------------------
(* Closing.                                                                *)


Told(m) == [s \in Sockets |-> IF sockets[m][s] = "open" THEN "told" ELSE sockets[m][s]]

AtOnce(m) == Kind(m) = "external"

\* close() of the members of M.  The raw server calls back with an error when it
\* does not listen, and in either case with its "close" event.
ServersClose(M, by) ==
  /\ sockets' = [m \in Members |-> IF m \in M THEN Told(m) ELSE sockets[m]]
  /\ calls' = [m \in Members |->
       IF m \notin M THEN calls[m]
       ELSE Append(calls[m], [errs |-> ~AtOnce(m) /\ ~raw[m].handle, by |-> by,
                              state |-> IF AtOnce(m) THEN "resolved" ELSE "pending"])]
  /\ raw' = [m \in Members |->
       IF m \in M /\ Kind(m) = "owned"
       THEN [raw[m] EXCEPT !.handle = FALSE, !.closeDue = @ \/ ~Live(m, sockets'[m])]
       ELSE raw[m]]
  /\ attached' = attached \ {m \in M : AtOnce(m)}
  /\ UNCHANGED <<launch, ready, opened, failures, listens, reopened, late>>

\* close() of one member, by the application or by the signal of its options.
MemberCloses(m, by) ==
  /\ m \in KenoServers
  /\ Len(calls[m]) < launch.maxCalls
  /\ by = "abort" => \A k \in DOMAIN calls[m] : calls[m][k].by # "abort"
  /\ ServersClose({m}, by)
  /\ UNCHANGED <<clusterVars, multi>>

ListCloses ==
  /\ IsList
  /\ multi.close = "none"
  /\ \A m \in KenoServers : Len(calls[m]) < launch.maxCalls
  /\ ServersClose(KenoServers, "list")
  /\ IF HasCluster /\ events.close = 0 THEN ClusterClose(FALSE) ELSE UNCHANGED clusterVars
  /\ multi' = [multi EXCEPT !.close = "pending",
                            !.waits = IF Len(closes') > Len(closes) THEN Len(closes') ELSE 0]

\* What the callbacks of "close" settle each call with.
Called(c) == [c EXCEPT !.state = IF @ # "pending" THEN @ ELSE IF c.errs THEN "rejected" ELSE "resolved"]

\* "close" of the raw server: detach(), and every callback of close().  Nobody
\* handles the rejection of the close() of a signal.
RawCloses(m) ==
  /\ raw[m].closeDue
  /\ raw' = [raw EXCEPT ![m].closeDue = FALSE]
  /\ attached' = attached \ {m}
  /\ calls' = [calls EXCEPT ![m] = [k \in DOMAIN @ |-> Called(@[k])]]
  /\ crashed' = (\E k \in DOMAIN calls[m] :
                   /\ calls[m][k].by = "abort"
                   /\ calls[m][k].state = "pending" /\ calls[m][k].errs)
  /\ UNCHANGED <<launchVars, stage, outbox, snapshots, cluster, closes, events, served,
                 launch, sockets, ready, opened, failures, listens, reopened, late, multi>>

\* Promise.all over the close() of the members.
ListCloseSettles ==
  LET Own(m) == {k \in DOMAIN calls[m] : calls[m][k].by = "list"}
      states == UNION {{calls[m][k].state : k \in Own(m)} : m \in KenoServers}
      clusterDone == multi.waits > 0 => closes[multi.waits].done
  IN  /\ multi.close = "pending"
      /\ \/ "rejected" \in states /\ multi' = [multi EXCEPT !.close = "rejected"]
         \/ /\ states \subseteq {"resolved"} /\ clusterDone
            /\ multi' = [multi EXCEPT !.close = "resolved"]
      /\ UNCHANGED <<clusterVars, launch, raw, attached, sockets, ready, opened, failures, listens,
                     reopened, late, calls>>

-----------------------------------------------------------------------------
\* What node does in the next tick comes before messages, exits and timers.
Ticked == \A m \in Members : raw[m].bind \in {"none", "lookup"} /\ ~raw[m].closeDue

ClusterStep ==
  /\ HasCluster /\ Ticked
  /\ ClusterNext
  /\ Len(closes') <= launch.maxCalls
  /\ UNCHANGED serverVars

ServerStep(m) ==
  \/ ListenAgain(m) \/ LookupEnds(m) \/ Announce(m) \/ BindFails(m) \/ RawCloses(m)
  \/ \E s \in Sockets : ServingBegins(m, s) \/ UpgradeBegins(m, s) \/ Registers(m, s) \/ SocketGone(m, s)
  \/ \E by \in {"app", "abort"} : MemberCloses(m, by)

Next ==
  /\ ~crashed
  /\ \/ ListListen \/ ListAnnounces \/ ListCloses \/ ListCloseSettles
     \/ ClusterStep
     \/ \E m \in Members : ServerStep(m)

Spec == Init /\ [][Next]_vars

\* Node emits what is due, a lookup ends, a socket that was told to close closes
\* (by its close timer at the latest), promise jobs run.  No request, session or upgrade need
\* end: a handler may never answer, and a session is the client's to close.
Fairness ==
  /\ WF_vars(~crashed /\ ListAnnounces)
  /\ WF_vars(~crashed /\ ListCloseSettles)
  /\ \A m \in Members :
       /\ WF_vars(~crashed /\ (LookupEnds(m) \/ Announce(m) \/ BindFails(m)))
       /\ WF_vars(~crashed /\ RawCloses(m))
       /\ \A s \in Sockets :
            WF_vars(~crashed /\ sockets[m][s] = "told" /\ SocketGone(m, s))
  /\ \A k \in 1 .. MaxCloses : WF_vars(~crashed /\ Ticked /\ CloseEnds(k) /\ UNCHANGED serverVars)
  /\ \A w \in Workers :
       /\ WF_vars(~crashed /\ Ticked /\ ClusterEvent(w) /\ UNCHANGED serverVars)
       /\ WF_vars(~crashed /\ Ticked /\ Terminate(w) /\ UNCHANGED serverVars)
       /\ WF_vars(~crashed /\ Ticked /\ (Boot(w) \/ Bind(w)) /\ UNCHANGED serverVars)

FairSpec == Spec /\ Fairness

-----------------------------------------------------------------------------
\* A launch that is reported as listening does: every server of its own has been
\* bound, and the cluster's ready() resolved, which takes every thread's address,
\* but for threads that end while the cluster closes (multi-server.ts ready,
\* thread-cluster.ts handleWorkerMessage).  And a server that accepts connections
\* hears their requests, failed binds included, unless its close() was called before
\* it began to listen: attach() is only called by the constructor (server.ts detach).
AnnouncedIsReady ==
  /\ multi.announced => /\ Of({"owned"}) \subseteq opened
                        /\ HasCluster => cluster.ready = "resolved"
  /\ ReadyIsComplete
  /\ \A m \in Of({"owned"}) : raw[m].handle /\ m \notin attached => calls[m] # <<>>

\* When close() has resolved nothing is left that only listening again explains: no
\* thread that the cluster does not know of, no handle, no request in progress, no
\* websocket, no listener on the raw server (thread-cluster.ts and server.ts close).
NothingLeft ==
  /\ NoThreadLeft
  /\ \A m \in Of({"owned"}) \ reopened :
       (\E k \in DOMAIN calls[m] : calls[m][k].state = "resolved") =>
         ~raw[m].handle /\ ~Live(m, sockets[m]) /\ m \notin attached

\* ready() settles, unless a bind failed or something was closed first: then it
\* waits for ever, for nothing rejects it (server.ts ready, thread-cluster.ts close).
ReadySettles ==
  multi.listening ~>
    \/ multi.announced \/ crashed \/ failures # {}
    \/ cluster.ready = "rejected" \/ cluster.closing
    \/ \E m \in KenoServers : calls[m] # <<>>

\* What keeps close() waiting: a websocket that it did not tell, listening again, and
\* what it leaves to others, a request in progress and an HTTP/2 session.
Held(m) == \/ m \in late \cup reopened
           \/ \E s \in Sockets : sockets[m][s] \in {"serving", "upgrading"}

\* Calls of close() that are still to settle, but for the ones that are held.
ClosesPending ==
  \/ \E k \in DOMAIN closes : ~closes[k].done
  \/ \E m \in Members : ~Held(m) /\ \E k \in DOMAIN calls[m] : calls[m][k].state = "pending"
  \/ multi.close = "pending" /\ ~\E m \in Members : Held(m)

=============================================================================
