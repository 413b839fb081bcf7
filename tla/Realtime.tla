------------------------------ MODULE Realtime ------------------------------
(***************************************************************************)
(* The life of a websocket on the server: its upgrade                      *)
(* (http/application.ts, websocket/handshake.ts), the set of the server's  *)
(* clients (transport/server.ts), the rooms it joins (websocket/rooms.ts)  *)
(* and the heartbeat that watches it (websocket/heartbeat.ts).  All of     *)
(* them hear of its end by the close event of KenoWebSocket, which         *)
(* WebSocketConnection models in detail; here it is reduced to readyState  *)
(* and that event.                                                         *)
(*                                                                         *)
(* An action is a turn of the event loop.  The calls of the application    *)
(* may come in a turn of their own or in one of its listeners, which run   *)
(* at the end of the turn that emits the event.                            *)
(***************************************************************************)
EXTENDS Functions

CONSTANTS
  Sockets,
  RoomNames,
  Registries,  \* the KenoWebSocketRooms, which share one heartbeat
  Places       \* bound: the rooms of each registry that each socket may be asked to join

ASSUME RealtimeAssumption == Places \subseteq Registries \X RoomNames \X Sockets

VARIABLES
  stage,        \* readyState of each socket, and what comes before it
  unborn,       \* sockets whose raw socket closed before createWebSocket
  reported,     \* sockets that emitted close
  clients,      \* websocketClients of the server
  rooms,        \* rooms of each registry: members of each room
  socketRooms,  \* socketRooms of each registry: rooms of each member
  bindings,     \* closeBindings of each registry
  listening,    \* sockets that hold a close listener of each registry
  beat,         \* states of the heartbeat, of each tracked socket
  ticking,      \* is the heartbeat's interval running?
  unanswered,   \* sockets whose peer has a ping to answer
  silent,       \* sockets whose peer may be gone, or that were paused
  late,         \* history: joined or tracked after their close event, or unborn
  excused       \* history: untracked by the application, or in two registries at a time

peerVars == <<unanswered, silent>>
lifeVars == <<stage, unborn, reported, clients>>
roomVars == <<rooms, socketRooms, bindings, listening, excused>>
beatVars == <<beat, ticking>>
vars == <<lifeVars, roomVars, beatVars, peerVars, late>>

Stages == {"none", "verifying", "rejected", "open", "closing", "closed"}

\* awaitingPong is false, or true with deadlineAt still to come, or past it.
Beats == {"quiet", "awaiting", "due"}

Exists(s) == stage[s] \in {"open", "closing", "closed"}

Tracked == DOMAIN beat

PartialSets(A, B) == UNION {[D -> SUBSET B] : D \in SUBSET A}

TypeOK ==
  /\ stage \in [Sockets -> Stages]
  /\ {unborn, reported, clients, unanswered, silent, late, excused}
       \subseteq SUBSET Sockets
  /\ rooms \in [Registries -> PartialSets(RoomNames, Sockets)]
  /\ socketRooms \in [Registries -> PartialSets(Sockets, RoomNames)]
  /\ bindings \in [Registries -> SUBSET Sockets]
  /\ listening \in [Registries -> SUBSET Sockets]
  /\ beat \in UNION {[D -> Beats] : D \in SUBSET Sockets}
  /\ ticking \in BOOLEAN
  /\ clients \cup reported \cup Tracked \subseteq {s \in Sockets : Exists(s)}

Empty == <<>>

Init ==
  /\ stage = [s \in Sockets |-> "none"]
  /\ unborn = {} /\ reported = {} /\ clients = {}
  /\ rooms = [g \in Registries |-> Empty]
  /\ socketRooms = [g \in Registries |-> Empty]
  /\ bindings = [g \in Registries |-> {}]
  /\ listening = [g \in Registries |-> {}]
  /\ beat = Empty /\ ticking = TRUE
  /\ unanswered = {} /\ silent = {}
  /\ late = {} /\ excused = {}

-----------------------------------------------------------------------------
(* The upgrade.                                                            *)

\* handleUpgrade, up to the first await of prepareWebSocketSession.
Upgrade(s) ==
  /\ stage[s] = "none"
  /\ stage' = [stage EXCEPT ![s] = "verifying"]
  /\ UNCHANGED <<unborn, reported, clients, roomVars, beatVars, peerVars, late>>

\* The peer hangs up while verifyClient is awaited: nobody listens.
RawDiesEarly(s) ==
  /\ stage[s] = "verifying"
  /\ unborn' = unborn \cup {s}
  /\ UNCHANGED <<stage, reported, clients, roomVars, beatVars, peerVars, late>>

\* verifyClient, headers or handleProtocols refuse or throw; on HTTP/2 the
\* response to a stream that is gone throws as well.
UpgradeRejected(s) ==
  /\ stage[s] = "verifying"
  /\ stage' = [stage EXCEPT ![s] = "rejected"]
  /\ UNCHANGED <<unborn, reported, clients, roomVars, beatVars, peerVars, late>>

\* createWebSocket and registerWebSocket, which do not look whether the raw
\* socket is still there, or the server still open.
UpgradeEnds(s) ==
  /\ stage[s] = "verifying"
  /\ stage' = [stage EXCEPT ![s] = "open"]
  /\ clients' = clients \cup {s}
  /\ late' = IF s \in unborn THEN late \cup {s} ELSE late
  /\ UNCHANGED <<unborn, reported, roomVars, beatVars, peerVars>>

-----------------------------------------------------------------------------
(* KenoWebSocketRooms and the heartbeat's track and untrack.               *)

Without(f, x) == Restrict(f, DOMAIN f \ {x})

Holds(f, x) == IF x \in DOMAIN f THEN f[x] ELSE {}

TrackedToo(s) ==
  IF s \in Tracked THEN beat
  ELSE [t \in Tracked \cup {s} |-> IF t = s THEN "quiet" ELSE beat[t]]

With(f, x, y) ==
  [z \in DOMAIN f \cup {x} |-> IF z = x THEN Holds(f, x) \cup {y} ELSE f[z]]

\* Mutant: the set that became empty stays.
Less_KeepsEmpty(f, x, y) == [f EXCEPT ![x] = @ \ {y}]

\* members or rooms without one entry, and without the set that became empty.
Less(f, x, y) ==
  IF Holds(f, x) \subseteq {y} THEN Without(f, x) ELSE [f EXCEPT ![x] = @ \ {y}]

\* The rooms of a registry after leave(socket) took the socket out of each.
Emptied(f, s) ==
  [room \in {r \in DOMAIN f : f[r] # {s}} |-> f[room] \ {s}]

\* Mutant: a socket that leaves its last room stays among the close bindings.
Unbound_Kept(g, s) == bindings[g]

Unbound(g, s) == bindings[g] \ {s}

\* The end of removeSocketFromRoom, for a socket that is in no room any more.
LastRoomLeft(g, s) ==
  /\ beat' = Without(beat, s)
  /\ bindings' = [bindings EXCEPT ![g] = Unbound(g, s)]
  /\ listening' = [listening EXCEPT ![g] = @ \ {s}]

\* join(), with ensureSocketCleanup and heartbeat.track.
Join(g, room, s) ==
  /\ Exists(s)
  /\ rooms' = [rooms EXCEPT ![g] = With(@, room, s)]
  /\ socketRooms' = [socketRooms EXCEPT ![g] = With(@, s, room)]
  /\ bindings' = [bindings EXCEPT ![g] = @ \cup {s}]
  /\ listening' = IF s \in bindings[g] THEN listening
                  ELSE [listening EXCEPT ![g] = @ \cup {s}]
  /\ beat' = TrackedToo(s)
  /\ late' = IF s \in reported THEN late \cup {s} ELSE late
  /\ excused' = IF \E h \in Registries \ {g} : s \in DOMAIN socketRooms[h]
               THEN excused \cup {s} ELSE excused
  /\ UNCHANGED <<lifeVars, ticking, peerVars>>

\* leave(socket, room): removeSocketFromRoom.
Leave(g, room, s) ==
  /\ s \in DOMAIN socketRooms[g]
  /\ room \in socketRooms[g][s]
  /\ rooms' = [rooms EXCEPT ![g] = Less(@, room, s)]
  /\ socketRooms' = [socketRooms EXCEPT ![g] = Less(@, s, room)]
  /\ IF socketRooms[g][s] = {room}
     THEN LastRoomLeft(g, s)
     ELSE UNCHANGED <<beat, bindings, listening>>
  /\ UNCHANGED <<lifeVars, ticking, peerVars, late, excused>>

\* leave(socket), by the application.
LeaveAll(g, s) ==
  /\ s \in DOMAIN socketRooms[g]
  /\ rooms' = [rooms EXCEPT ![g] = Emptied(@, s)]
  /\ socketRooms' = [socketRooms EXCEPT ![g] = Without(@, s)]
  /\ LastRoomLeft(g, s)
  /\ UNCHANGED <<lifeVars, ticking, peerVars, late, excused>>

\* track(socket), by the application.
Track(s) ==
  /\ Exists(s)
  /\ beat' = TrackedToo(s)
  /\ late' = IF s \in reported THEN late \cup {s} ELSE late
  /\ UNCHANGED <<lifeVars, roomVars, ticking, peerVars>>

\* untrack(socket), by the application.
Untrack(s) ==
  /\ s \in Tracked
  /\ beat' = Without(beat, s)
  /\ excused' = excused \cup {s}
  /\ UNCHANGED <<lifeVars, rooms, socketRooms, bindings, listening, ticking, peerVars, late>>

-----------------------------------------------------------------------------
(* The end of a socket.                                                    *)

\* close(), terminate(), a protocol error or the peer's close frame.
BeginsToClose(s) ==
  /\ stage[s] = "open"
  /\ \E next \in {"closing", "closed"} : stage' = [stage EXCEPT ![s] = next]
  /\ UNCHANGED <<unborn, reported, clients, roomVars, beatVars, peerVars, late>>

\* The registries whose close listener runs.
Hearing(s) == {g \in Registries : s \in listening[g]}

\* The close event of KenoWebSocket: the listeners of the server, of the
\* registries and of the heartbeat.  The peer is of no account any more.
ReportClose(s) ==
  /\ Exists(s)
  /\ s \notin unborn \cup reported
  /\ stage' = [stage EXCEPT ![s] = "closed"]
  /\ reported' = reported \cup {s}
  /\ clients' = clients \ {s}
  /\ rooms' = [g \in Registries |->
                 IF g \in Hearing(s) THEN Emptied(rooms[g], s) ELSE rooms[g]]
  /\ socketRooms' = [g \in Registries |->
                       IF g \in Hearing(s) THEN Without(socketRooms[g], s) ELSE socketRooms[g]]
  /\ bindings' = [g \in Registries |->
                    IF g \in Hearing(s) THEN Unbound(g, s) ELSE bindings[g]]
  /\ listening' = [g \in Registries |-> listening[g] \ {s}]
  /\ beat' = Without(beat, s)
  /\ silent' = silent \ {s}
  /\ unanswered' = unanswered \ {s}
  /\ UNCHANGED <<unborn, ticking, late, excused>>

\* terminate(), by the application or by the close timer.
Terminates(s) ==
  /\ stage[s] = "closing"
  /\ stage' = [stage EXCEPT ![s] = "closed"]
  /\ UNCHANGED <<unborn, reported, clients, roomVars, beatVars, peerVars, late>>

\* KenoServer.close(), up to the close of the raw server.
ServerCloses ==
  /\ stage' = [s \in Sockets |->
                 IF s \in clients /\ stage[s] = "open" THEN "closing" ELSE stage[s]]
  /\ UNCHANGED <<unborn, reported, clients, roomVars, beatVars, peerVars, late>>

-----------------------------------------------------------------------------
(* The heartbeat.                                                          *)

Expired == {s \in Tracked : beat[s] = "due"}

Pinged == {s \in Tracked : stage[s] = "open" /\ beat[s] = "quiet"}

\* Mutant: a socket that awaits its pong is passed over for good.
Untracked_NotOpen == {s \in Tracked : stage[s] # "open"}

Untracked == {s \in Tracked : stage[s] # "open"} \cup Expired

\* Mutant: the missing pong is not checked against the deadline.
Cut_Early == {s \in Tracked : stage[s] = "open" /\ beat[s] # "quiet"}

\* Mutant: the socket is untracked and not closed.
Cut_None == {}

Cut == {s \in Untracked : stage[s] = "open"}

Tick ==
  /\ ticking
  /\ \E left \in {"closing", "closed"} :   \* closed: close() threw, on its code
       stage' = [s \in Sockets |-> IF s \in Cut THEN left ELSE stage[s]]
  /\ beat' = [s \in Tracked \ Untracked |->
                IF s \in Pinged THEN "awaiting" ELSE beat[s]]
  /\ unanswered' = unanswered \cup Pinged
  /\ UNCHANGED <<unborn, reported, clients, roomVars, ticking, silent, late>>

\* timeoutMs after a ping.  A peer that is there and is read has answered.
DeadlinePasses(s) ==
  /\ s \in Tracked
  /\ beat[s] = "awaiting"
  /\ s \in unanswered => s \in silent \cup unborn
  /\ beat' = [beat EXCEPT ![s] = "due"]
  /\ UNCHANGED <<lifeVars, roomVars, ticking, peerVars, late>>

\* The pong event; a paused socket emits it when it is resumed.
Pong(s) ==
  /\ s \in unanswered \ unborn
  /\ stage[s] \in {"open", "closing"}
  /\ unanswered' = unanswered \ {s}
  /\ beat' = [t \in Tracked |-> IF t = s THEN "quiet" ELSE beat[t]]
  /\ UNCHANGED <<lifeVars, roomVars, ticking, silent, late>>

HeartbeatCloses ==
  /\ ticking
  /\ ticking' = FALSE
  /\ beat' = Empty
  /\ UNCHANGED <<lifeVars, roomVars, peerVars, late>>

-----------------------------------------------------------------------------
\* The peer dies, or the application pauses the socket: pings may go unanswered.
FallsSilent(s) ==
  /\ stage[s] = "open"
  /\ silent' = silent \cup {s}
  /\ UNCHANGED <<lifeVars, roomVars, beatVars, unanswered, late>>

-----------------------------------------------------------------------------
Life(s) ==
  \/ Upgrade(s) \/ RawDiesEarly(s) \/ UpgradeRejected(s) \/ UpgradeEnds(s)
  \/ BeginsToClose(s) \/ ReportClose(s) \/ Terminates(s)

Application(s) ==
  \/ Track(s) \/ Untrack(s)
  \/ \E g \in Registries :
       LeaveAll(g, s) \/ \E room \in {r \in RoomNames : <<g, r, s>> \in Places} :
                          Join(g, room, s) \/ Leave(g, room, s)

Heartbeat(s) == DeadlinePasses(s) \/ Pong(s)

Next ==
  \/ ServerCloses \/ Tick \/ HeartbeatCloses
  \/ \E s \in Sockets : Life(s) \/ Application(s) \/ Heartbeat(s) \/ FallsSilent(s)

Spec == Init /\ [][Next]_vars

\* The interval fires, and time passes.
Fairness ==
  /\ WF_vars(Tick)
  /\ \A s \in Sockets : WF_vars(DeadlinePasses(s))

FairSpec == Spec /\ Fairness

-----------------------------------------------------------------------------
\* The two maps of a registry are inverse to each other, hold no empty set, and
\* exactly their members have a close listener, through any joins and leaves.
MapsAgree ==
  \A g \in Registries :
    /\ \A s \in Sockets, room \in RoomNames :
         s \in Holds(rooms[g], room) <=> room \in Holds(socketRooms[g], s)
    /\ {} \notin Range(rooms[g]) \cup Range(socketRooms[g])
    /\ bindings[g] = DOMAIN socketRooms[g]

\* Once its close event is emitted, nothing on the server keeps a socket: neither
\* the clients, nor a room, nor the heartbeat, however it left and came back.
\* What joins after that event is never told of it, and stays.
ForgottenAfterClose ==
  \A s \in reported \ late :
    s \notin clients \cup Tracked \cup UNION {DOMAIN socketRooms[g] : g \in Registries}

\* An open member of a room is watched by the heartbeat as long as that runs,
\* unless the application untracked it, or had it in another registry that shares
\* the heartbeat: that untracks the socket when it leaves the last of its own rooms.
MembersWatched ==
  \A g \in Registries : \A s \in DOMAIN socketRooms[g] \ excused :
    ticking /\ stage[s] = "open" => s \in Tracked

\* The heartbeat closes no socket whose peer answers, unless it was paused, which
\* keeps the answers from being read.
HealthyKept ==
  [][Tick => \A s \in Sockets :
               stage'[s] # stage[s] => s \in silent \cup unborn]_vars

\* A watched socket whose peer leaves a ping unanswered does not stay open, as
\* long as it is watched and the heartbeat runs; even one that never was alive.
DeadFound ==
  \A s \in Sockets :
    s \in (silent \cup unborn) \cap unanswered \cap Tracked /\ stage[s] = "open"
      ~> stage[s] # "open" \/ s \notin unanswered \cap Tracked \/ ~ticking
=============================================================================
