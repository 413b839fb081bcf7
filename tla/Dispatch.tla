-------------------------------- MODULE Dispatch --------------------------------
(***************************************************************************)
(* What happens to one HTTP request in a Keno application: the routers     *)
(* (internal/http/router.ts) find the handlers it is for, one after the    *)
(* other, and the application (handleNodeRequest and sendError of          *)
(* internal/http/application.ts) answers when they do not.                 *)
(*                                                                         *)
(* The application registers handlers (app, in the order of its calls)     *)
(* and a request arrives.  Every call of a handler is an entry of calls: a *)
(* process of its own, for a handler is an async function that may go on   *)
(* while the rest of the chain runs.  From the call of next() or the       *)
(* failure of a handler the walk goes over the layers, one step for each,  *)
(* to the next handler or the end of the chain; nothing is awaited on the  *)
(* way, so that nothing else happens before it is there.  What a promise   *)
(* of next() becomes is told to its caller in a step of its own (Deliver). *)
(*                                                                         *)
(* A handler, and a router that is mounted, is named by the number of its  *)
(* registration; 0 is the application's own router.                        *)
(***************************************************************************)
EXTENDS RouteTree

CONSTANTS
    Apps,       \* what applications register, in order
    Requests    \* [method, path, host]; host: whether a host scope's pattern matches

None == "none"

Mounts == {"router", "scope"}
Kinds == {"route", "use", "static", "ws"} \cup Mounts
\* at is the router that is told, errors whether the handler takes an error.
Registration == [at : Nat, kind : Kinds, method : STRING, pattern : Seq(Segment), errors : BOOLEAN]

\* A router is filled where it is mounted: between a mount and what it holds there is
\* nothing from outside.  A host scope is given what use() takes.  A mount path of static
\* files is taken literally.
InPlace(sequence) ==
    \A k \in DOMAIN sequence :
        LET r == sequence[k] IN
        /\ r.at < k
        /\ r.at > 0 => sequence[r.at].kind \in Mounts
        /\ \A j \in (r.at + 1)..(k - 1) : sequence[j].at >= r.at
        /\ r.at > 0 /\ sequence[r.at].kind = "scope" => r.kind \in {"use", "static", "router"}
        /\ r.kind = "static" => \A i \in DOMAIN r.pattern : r.pattern[i].kind = "static"
        /\ r.errors => r.kind = "use"

ASSUME DispatchAssumption ==
    /\ Apps \subseteq Seq(Registration)
    /\ \A sequence \in Apps : InPlace(sequence)
    /\ Requests \subseteq [method : STRING, path : Seq(Names), host : BOOLEAN]
    /\ \A r \in Requests : r.path # <<>> /\ r.method \notin {None, "UPGRADE"}

VARIABLES
    app,        \* the registrations made
    routers,    \* the routers built from them: 0, and for each registration the one it mounts, if any
    request,    \* the request, NoRequest until it arrives
    scope,      \* request.baseUrl, params (their keys) and routePath
    walk,       \* the way to the next handler, Idle when nobody is on it
    calls,      \* every call of a handler made for it
    settled,    \* promises that settled and whose owner has not been told
    response,   \* [head, ended, gone, status] of the response
    crashed     \* the process ended with an unhandled rejection

vars == <<app, routers, request, scope, walk, calls, settled, response, crashed>>

NoRequest == [method |-> None, path |-> Root, host |-> FALSE]
NoScope == [base |-> <<>>, keys |-> {}, route |-> <<>>]
NotBegun == [head |-> None, ended |-> FALSE, gone |-> FALSE, status |-> 0]
Idle == [on |-> FALSE, frames |-> <<>>, error |-> None, by |-> 0, how |-> None]

(***************************************************************************)
(* Routers                                                                 *)
(***************************************************************************)
NewRouter == [layers |-> <<>>, tree |-> NoRoutes, enabled |-> TRUE]

\* disableRouteTree
Untreed(r) == [r EXCEPT !.tree = NoRoutes, !.enabled = FALSE]

Layered(r, registration, id) ==
    [r EXCEPT !.layers = Append(@, [id |-> id, kind |-> registration.kind, method |-> registration.method,
                                    pattern |-> registration.pattern, errors |-> registration.errors])]

\* get, post, ... and all: a layer, and an entry of the tree while there is one.
AddRoute(r, registration, id) ==
    IF r.enabled
      THEN [Layered(r, registration, id) EXCEPT
              !.tree = AddToTree(@, registration.method, registration.pattern, id)]
      ELSE Layered(r, registration, id)

\* Mutant: the tree stays when something else than a route is registered.
AddOther_Treed(r, registration, id) == Layered(r, registration, id)

\* use, host and ws: a layer in the order of registration, and no tree from now on.
AddOther(r, registration, id) == Layered(Untreed(r), registration, id)

Registered(r, registration, id) ==
    IF registration.kind = "route" THEN AddRoute(r, registration, id) ELSE AddOther(r, registration, id)

(***************************************************************************)
(* dispatch and dispatchLayer.  What is left to do after a handler is a    *)
(* stack of frames, one for each router under way: its place, the index of *)
(* the next of its layers, and the path, keys and base it sees.  A router  *)
(* without layers left is done: its parent goes on behind the mount.       *)
(***************************************************************************)
Base(frame, pattern) == IF pattern = <<>> THEN frame.base ELSE Append(frame.base, pattern)

Walk(frames, error, by, how) ==
    [on |-> TRUE, frames |-> frames, error |-> error, by |-> by, how |-> how]

TopFrame(path) == [place |-> 0, index |-> 1, base |-> <<>>, keys |-> {}, path |-> path]

Top == walk.frames[1]
Others == Tail(walk.frames)
Layers == routers[Top.place].layers
Layer == Layers[Top.index]
AtLayer == walk.on /\ walk.frames # <<>> /\ Top.index <= Len(Layers)

\* Mutant: the rest of the chain begins with the layer itself.
BehindWith_Again(keys) == <<[Top EXCEPT !.keys = keys]>> \o Others

\* The frames behind the layer, and those behind a handler with these keys.
Behind == <<[Top EXCEPT !.index = @ + 1]>> \o Others
BehindWith(keys) == <<[Top EXCEPT !.index = @ + 1, !.keys = keys]>> \o Others

Call(handler, layer, errors, direct, others, rest, own, by, how) ==
    [handler |-> handler, layer |-> layer, errors |-> errors, direct |-> direct, others |-> others,
     rest |-> rest, scope |-> own, before |-> scope, by |-> by, how |-> how,
     phase |-> IF layer = "ws" THEN "returned" ELSE "running", nexted |-> FALSE, error |-> None]

\* dispatchDirectRoute: the handlers of one entry, in order, under one scope.
DirectCall(handlers, own, rest, by, how) ==
    Call(Head(handlers), "route", FALSE, TRUE, Tail(handlers), rest, own, by, how)

\* dispatch: a router of routes resolves a request without an error in its tree
\* first.  The error has a default, which an error that is undefined falls into.
Dispatched(method, frame, rest, error, by, how) ==
    LET r == routers[frame.place]
        e == IF error = "undefined" THEN None ELSE error
        found == IF e = None /\ r.enabled /\ method # "UPGRADE"
                 THEN ResolveInTree(r.tree, method, frame.path) ELSE {} IN
    \/ /\ found = {}
       /\ walk' = Walk(<<frame>> \o rest, e, by, how)
       /\ UNCHANGED <<scope, calls>>
    \/ \E match \in found :
       LET own == [base |-> frame.base, keys |-> frame.keys \cup match.keys, route |-> <<match.path>>] IN
       /\ walk' = Idle
       /\ scope' = own
       /\ calls' = Append(calls, DirectCall(match.handlers, own, rest, by, how))

\* The mounted router that a layer leads the request into, as a frame.
Entered ==
    IF Layer.kind = "scope" THEN [Top EXCEPT !.place = Layer.id, !.index = 1]
    ELSE [place |-> Layer.id, index |-> 1,
          base |-> Base(Top, Layer.pattern),
          keys |-> Top.keys \cup PrefixKeys(Layer.pattern),
          path |-> Consumed(Layer.pattern, Top.path)]

Enters ==
    \/ Layer.kind = "scope" /\ request.host
    \/ Layer.kind = "router" /\ MatchesPrefix(Layer.pattern, Top.path)

\* A handler of errors is for a request with an error, the others for one without;
\* resolveWebSocketRoute looks for the first WebSocket layer.
Takes ==
    IF request.method = "UPGRADE" THEN Layer.kind = "ws" /\ Matches(Layer.pattern, Top.path)
    ELSE \/ /\ Layer.kind = "static" /\ walk.error = None
            /\ MatchesPrefix(Layer.pattern, Top.path)
         \/ /\ Layer.kind = "route" /\ walk.error = None
            /\ Matches(Layer.pattern, Top.path) /\ MethodMatches(Layer.method, request.method)
         \/ /\ Layer.kind = "use" /\ Layer.errors = (walk.error # None)
            /\ MatchesPrefix(Layer.pattern, Top.path)

\* What the handler finds in the request beside what the routers before it put there.
OwnKeys ==
    CASE Layer.kind \in {"route", "ws"} -> Keys(Layer.pattern)
      [] Layer.kind = "use" -> PrefixKeys(Layer.pattern)
      [] OTHER -> {}

(***************************************************************************)
(* The request's life.  A handler's phase is "running"; "waiting" for the  *)
(* promise its next() gave it; "sending" a file; "silent" when it returned *)
(* without a next(); "returned"; or "failed".                              *)
(***************************************************************************)
Init ==
    /\ app = <<>>
    /\ routers = [m \in {0} |-> NewRouter]
    /\ request = NoRequest
    /\ scope = NoScope
    /\ walk = Idle
    /\ calls = <<>>
    /\ settled = {}
    /\ response = NotBegun
    /\ crashed = FALSE

Finished == response.ended \/ response.gone

Ids == {k \in DOMAIN app : app[k].kind \notin Mounts}

\* use, get, host, ws, ...: the application registers before it listens.
Register(registration) ==
    /\ request = NoRequest
    /\ \E sequence \in Apps : IsPrefix(Append(app, registration), sequence)
    /\ app' = Append(app, registration)
    /\ LET id == Len(app) + 1 IN
       routers' = [m \in 0..id |->
                     IF m = registration.at THEN Registered(routers[m], registration, id)
                     ELSE IF m = id THEN NewRouter ELSE routers[m]]
    /\ UNCHANGED <<request, scope, walk, calls, settled, response, crashed>>

\* handleNodeRequest: the tree, then the layers.
Receive(req) ==
    /\ request = NoRequest
    /\ request' = req
    /\ Dispatched(req.method, TopFrame(req.path), <<>>, None, 0, "root")
    /\ UNCHANGED <<app, routers, settled, response, crashed>>

\* handleUpgrade: the route of a WebSocket is looked for in the layers.
Upgrade(req) ==
    /\ request = NoRequest
    /\ request' = [req EXCEPT !.method = "UPGRADE"]
    /\ Dispatched("UPGRADE", TopFrame(req.path), <<>>, None, 0, "root")
    /\ UNCHANGED <<app, routers, settled, response, crashed>>

\* A layer that is not for the request.
PassLayer ==
    /\ AtLayer /\ ~Enters /\ ~Takes
    /\ walk' = [walk EXCEPT !.frames = Behind]
    /\ UNCHANGED <<app, routers, request, scope, calls, settled, response, crashed>>

EnterRouter ==
    /\ AtLayer /\ Enters
    /\ Dispatched(request.method, Entered, Behind, walk.error, walk.by, walk.how)
    /\ UNCHANGED <<app, routers, request, settled, response, crashed>>

LeaveRouter ==
    /\ walk.on /\ walk.frames # <<>> /\ Top.index > Len(Layers)
    /\ walk' = [walk EXCEPT !.frames = Others]
    /\ UNCHANGED <<app, routers, request, scope, calls, settled, response, crashed>>

\* A layer that takes the request: invokeHandler, or the socket of an upgrade taken over.
\* invokeHandler takes an undefined error for no error.
CallHandler ==
    /\ AtLayer /\ Takes
    /\ LET keys == Top.keys \cup OwnKeys
           own == [base |-> Top.base, keys |-> keys, route |-> <<Layer.pattern>>] IN
       /\ scope' = own
       /\ calls' = Append(calls, Call(Layer.id, Layer.kind, Layer.errors /\ walk.error # "undefined",
                                      FALSE, <<>>, BehindWith(keys), own, walk.by, walk.how))
    /\ response' = IF Layer.kind = "ws" THEN [response EXCEPT !.ended = TRUE, !.status = 101] ELSE response
    /\ walk' = Idle
    /\ UNCHANGED <<app, routers, request, settled, crashed>>

\* The end of the chain.  finish and sendError: an answer of the framework's own unless
\* there is one.  The head of an answer that was sent without its length cannot be set any
\* more.  An upgrade without a route gets a 404.
EndChain ==
    /\ walk.on /\ walk.frames = <<>>
    /\ LET rejects == ~Finished /\ response.head = "sent" IN
       /\ settled' = IF request.method = "UPGRADE" THEN settled
                     ELSE settled \cup {[by |-> walk.by, how |-> walk.how, rejects |-> rejects]}
       /\ response' = IF Finished \/ rejects THEN response
                      ELSE [response EXCEPT !.ended = TRUE, !.status = IF walk.error = None THEN 404 ELSE 500]
    /\ walk' = Idle
    /\ UNCHANGED <<app, routers, request, scope, calls, crashed>>

WalkOn == PassLayer \/ EnterRouter \/ LeaveRouter \/ CallHandler \/ EndChain

(***************************************************************************)
(* What a handler does                                                     *)
(***************************************************************************)
IsStatic(c) == calls[c].layer = "static"

\* A handler of the chain that failed after it called next(): of itself, which one handler
\* of a request does (a bound of this model), or because the next() it waits for rejects,
\* the answer having begun so that no error can be answered.
FailedAfterNext ==
    \E c \in DOMAIN calls : ~calls[c].direct /\ calls[c].nexted /\ calls[c].phase = "failed"

\* wrappedNext: the request gets its scope back and the rest runs inside the call.
\* The handler waits for it or not; a handler that has returned cannot.  Calling next()
\* twice, which runs the rest twice, is left out.
ChainNext(c, error, how) ==
    /\ ~calls[c].direct
    /\ calls[c].layer # "ws"
    /\ \/ calls[c].phase = "running"
       \/ calls[c].phase = "silent" /\ how = "dropped" /\ ~IsStatic(c)
    /\ ~calls[c].nexted
    /\ IsStatic(c) => error = None /\ how = "awaited"
    /\ calls' = [calls EXCEPT ![c].nexted = TRUE,
                              ![c].phase = IF how = "awaited" THEN "waiting"
                                           ELSE IF @ = "silent" THEN "returned" ELSE @]
    /\ scope' = calls[c].before
    /\ walk' = Walk(calls[c].rest, error, c, how)
    /\ UNCHANGED <<app, routers, request, settled, response, crashed>>

\* next() in a route of the tree only says that the handler wants the rest to run:
\* that is looked at when the handler returns, and a next() after that changes nothing.
DirectNext(c, error) ==
    /\ calls[c].direct
    /\ calls[c].phase = "running"
    /\ ~calls[c].nexted
    /\ calls' = [calls EXCEPT ![c].nexted = TRUE, ![c].error = error]
    /\ UNCHANGED <<app, routers, request, scope, walk, settled, response, crashed>>

\* Mutant: the scope is given back whether next() was called or not.
ChainReturn_Restores(c) ==
    /\ ~calls[c].direct
    /\ calls[c].phase = "running"
    /\ IsStatic(c) => calls[c].nexted \/ Finished
    /\ calls' = [calls EXCEPT ![c].phase = IF calls[c].nexted THEN "returned" ELSE "silent"]
    /\ scope' = calls[c].before
    /\ settled' = settled \cup {[by |-> calls[c].by, how |-> calls[c].how, rejects |-> FALSE]}
    /\ UNCHANGED <<app, routers, request, walk, response, crashed>>

\* A handler of the chain returns: the scope is its predecessor's again unless next() saw to that.
ChainReturn(c) ==
    /\ ~calls[c].direct
    /\ calls[c].phase = "running"
    /\ IsStatic(c) => calls[c].nexted \/ Finished
    /\ calls' = [calls EXCEPT ![c].phase = IF calls[c].nexted THEN "returned" ELSE "silent"]
    /\ scope' = IF calls[c].nexted THEN scope ELSE calls[c].before
    /\ settled' = settled \cup {[by |-> calls[c].by, how |-> calls[c].how, rejects |-> FALSE]}
    /\ UNCHANGED <<app, routers, request, walk, response, crashed>>

\* Mutant: the last handler of the route is not followed by done.
DirectReturn_NoDone(c) ==
    /\ calls[c].direct
    /\ calls[c].phase = "running"
    /\ LET h == calls[c] IN
       IF h.nexted /\ h.error = None /\ h.others # <<>>
         THEN /\ calls' = Append([calls EXCEPT ![c].phase = "returned"],
                                 DirectCall(h.others, h.scope, h.rest, h.by, h.how))
              /\ scope' = h.scope
              /\ UNCHANGED settled
         ELSE /\ calls' = [calls EXCEPT ![c].phase = IF h.nexted THEN "returned" ELSE "silent"]
              /\ settled' = settled \cup {[by |-> h.by, how |-> h.how, rejects |-> FALSE]}
              /\ UNCHANGED scope
    /\ UNCHANGED <<app, routers, request, walk, response, crashed>>

\* A handler of the tree's route returns: the next one, done, or nothing.
DirectReturn(c) ==
    /\ calls[c].direct
    /\ calls[c].phase = "running"
    /\ LET h == calls[c]
           returned == [calls EXCEPT ![c].phase = "returned"] IN
       \/ /\ ~h.nexted
          /\ calls' = [calls EXCEPT ![c].phase = "silent"]
          /\ settled' = settled \cup {[by |-> h.by, how |-> h.how, rejects |-> FALSE]}
          /\ UNCHANGED <<scope, walk>>
       \/ /\ h.nexted /\ h.error = None /\ h.others # <<>>
          /\ calls' = Append(returned, DirectCall(h.others, h.scope, h.rest, h.by, h.how))
          /\ scope' = h.scope
          /\ UNCHANGED <<walk, settled>>
       \/ /\ h.nexted /\ (h.error # None \/ h.others = <<>>)
          /\ calls' = returned
          /\ walk' = Walk(h.rest, h.error, h.by, h.how)
          /\ UNCHANGED <<scope, settled>>
    /\ UNCHANGED <<app, routers, request, response, crashed>>

\* A handler fails, whatever it did before: the rest runs with its error.
Fails(c, error, told) ==
    LET h == calls[c] IN
    /\ calls' = [calls EXCEPT ![c].phase = "failed", ![c].error = error]
    /\ scope' = IF h.direct THEN scope ELSE h.before
    /\ settled' = told
    /\ walk' = Walk(h.rest, error, h.by, h.how)
    /\ UNCHANGED <<app, routers, request, response, crashed>>

Throw(c, error) ==
    /\ calls[c].phase = "running"
    /\ IsStatic(c) => ~calls[c].nexted /\ error = "error"
    /\ calls[c].nexted => error = "error" /\ (calls[c].direct \/ ~FailedAfterNext)
    /\ Fails(c, error, settled)

\* send, json, redirect, end, or a small file: the whole answer.  On an answer that has
\* ended they throw (Throw).
Respond(c) ==
    /\ \/ calls[c].phase = "running"
       \/ calls[c].phase = "silent" /\ ~IsStatic(c)
    /\ IsStatic(c) => ~calls[c].nexted
    /\ ~Finished
    /\ response' = [response EXCEPT !.ended = TRUE, !.status = 200]
    /\ UNCHANGED <<app, routers, request, scope, walk, calls, settled, crashed>>

\* A handler writes the head and a part of its answer itself.
Stream(c) ==
    /\ calls[c].phase = "running"
    /\ ~calls[c].nexted
    /\ ~IsStatic(c)
    /\ ~Finished
    /\ response.head = None
    /\ response' = [response EXCEPT !.head = "sent"]
    /\ UNCHANGED <<app, routers, request, scope, walk, calls, settled, crashed>>

\* sendFile sets the head of the file and pipes it: it waits for "finish".  (A handler's
\* own sendFile does the same.)
FileBegins(c) ==
    /\ IsStatic(c)
    /\ calls[c].phase = "running"
    /\ ~calls[c].nexted
    /\ ~response.ended
    /\ response.head # "sent"
    /\ response' = [response EXCEPT !.head = "file"]
    /\ calls' = [calls EXCEPT ![c].phase = "sending"]
    /\ UNCHANGED <<app, routers, request, scope, walk, settled, crashed>>

FileEnds(c) ==
    /\ calls[c].phase = "sending"
    /\ ~response.gone
    /\ response' = [response EXCEPT !.ended = TRUE, !.status = IF response.ended THEN @ ELSE 200]
    /\ calls' = [calls EXCEPT ![c].phase = "running"]
    /\ UNCHANGED <<app, routers, request, scope, walk, settled, crashed>>

\* The file cannot be opened or read on.
FileFails(c) ==
    /\ calls[c].phase = "sending"
    /\ Fails(c, "error", settled)

\* The client closes: the response counts as finished, as an answered one does, and no
\* "finish" event comes, which only a file being sent can tell from an answer.
ClientGone ==
    /\ \E c \in DOMAIN calls : calls[c].phase = "sending"
    /\ ~Finished
    /\ response' = [response EXCEPT !.gone = TRUE]
    /\ UNCHANGED <<app, routers, request, scope, walk, calls, settled, crashed>>

\* A promise of next(), or of the whole dispatch, tells its owner how it ended.
Deliver(d) ==
    \/ /\ d.how = "awaited" /\ ~d.rejects
       /\ settled' = settled \ {d}
       /\ calls' = [calls EXCEPT ![d.by].phase = "running"]
       /\ UNCHANGED <<app, routers, request, scope, walk, response, crashed>>
    \/ /\ d.how = "awaited" /\ d.rejects
       /\ Fails(d.by, "error", settled \ {d})
    \/ \* Nobody handles a rejection of a dropped promise, and sendError, tried again
       \* by handleNodeRequest, fails as it did: the process ends.
       /\ d.how \in {"dropped", "root"}
       /\ settled' = settled \ {d}
       /\ crashed' = (d.rejects /\ (d.how = "root" => ~Finished))
       /\ UNCHANGED <<app, routers, request, scope, walk, calls, response>>

HandlerEnds(c) ==
    \/ ChainReturn(c)
    \/ DirectReturn(c)
    \/ \E error \in {"error", "undefined"} : Throw(c, error)

HandlerActs(c) ==
    \/ \E error \in {None, "error"}, how \in {"awaited", "dropped"} : ChainNext(c, error, how)
    \/ \E error \in {None, "error"} : DirectNext(c, error)
    \/ Respond(c)
    \/ Stream(c)
    \/ FileBegins(c)
    \/ FileEnds(c)
    \/ FileFails(c)

Next ==
    /\ ~crashed
    /\ \/ WalkOn
       \/ /\ ~walk.on
          /\ \/ \E registration \in UNION {Range(sequence) : sequence \in Apps} : Register(registration)
             \/ \E req \in Requests : Receive(req) \/ Upgrade(req)
             \/ \E c \in DOMAIN calls : HandlerEnds(c) \/ HandlerActs(c)
             \/ \E d \in settled : Deliver(d)
             \/ ClientGone

Spec == Init /\ [][Next]_vars

\* The walk is code that runs without an await; the runtime settles promises and moves
\* files; a handler that was called comes to an end: the application's code is given that
\* much.
Turn == ~crashed /\ ~walk.on
Fairness ==
    /\ WF_vars(~crashed /\ WalkOn)
    /\ WF_vars(Turn /\ \E d \in settled : Deliver(d))
    /\ WF_vars(Turn /\ \E c \in DOMAIN calls : HandlerEnds(c))
    /\ WF_vars(Turn /\ \E c \in DOMAIN calls : FileEnds(c) \/ FileFails(c))

FairSpec == Spec /\ Fairness

(***************************************************************************)
(* What the registrations say, without layers and trees                    *)
(***************************************************************************)
\* A handler's own method and path admit the request.
Admits(registration, method, path) ==
    \/ /\ registration.kind = "route"
       /\ method # "UPGRADE"
       /\ Matches(registration.pattern, path) /\ MethodMatches(registration.method, method)
    \/ /\ registration.kind \in {"use", "static"}
       /\ method # "UPGRADE"
       /\ MatchesPrefix(registration.pattern, path)
    \/ /\ registration.kind = "ws"
       /\ method = "UPGRADE"
       /\ Matches(registration.pattern, path)

\* Whether the request comes into each router that is mounted, and the path it has there.
Inside(sequence, req) ==
    LET inside[m \in 0..Len(sequence)] ==
          IF m = 0 THEN [reached |-> TRUE, path |-> req.path]
          ELSE LET outer == inside[sequence[m].at] IN
               IF sequence[m].kind = "router"
               THEN [reached |-> outer.reached /\ MatchesPrefix(sequence[m].pattern, outer.path),
                     path |-> Consumed(sequence[m].pattern, outer.path)]
               ELSE [reached |-> outer.reached /\ sequence[m].kind = "scope" /\ req.host,
                     path |-> outer.path]
    IN  inside

IsFor(id) ==
    LET router == Inside(app, request)[app[id].at] IN
    router.reached /\ Admits(app[id], request.method, router.path)

\* "//" in a path: the tree takes the nothing between for a parameter, the expressions do not.
EmptySegment(path) == \E i \in 1..(Len(path) - 1) : path[i] = Empty

\* A handler failed with undefined, which an error handler mistakes for no error.
FailedWithUndefined == \E c \in DOMAIN calls : calls[c].error = "undefined"

\* Another route shares a parameter's or wildcard's node of the tree with this one.
SharesNode(id) ==
    \E other \in Ids \ {id}, i \in Nodes(app[id].pattern) :
        /\ app[other].at = app[id].at
        /\ i \in Nodes(app[other].pattern)
        /\ SubSeq(Shape(app[other].pattern), 1, i) = SubSeq(Shape(app[id].pattern), 1, i)

\* Every handler that is called was registered for the request: its method and path
\* (with those of the router or host scope it is mounted in) admit it, a handler of
\* errors is called with an error and only then, and the request has the keys its path
\* names (PathParams of shared/types.ts:75).  The first one called is the first registered
\* for the request, but for the routes of one tree, and a 404 without a call means that
\* there is none.  The tree, which is there for speed, and the nested layers must both
\* come to that.  Known exceptions are in the statement.
RightHandler ==
    /\ \A c \in DOMAIN calls :
        LET h == calls[c]
            r == app[h.handler] IN
        /\ IsFor(h.handler) \/ (h.direct /\ EmptySegment(request.path))
        /\ h.errors = r.errors \/ FailedWithUndefined
        /\ \/ NamedKeys(r.pattern) \subseteq h.scope.keys
           \/ Everything(r.pattern)
           \/ h.direct /\ SharesNode(h.handler)
    /\ \A id \in {i \in Ids : IsFor(i) /\ ~app[i].errors} :
        /\ response.status = 404 => calls # <<>>
        /\ (calls # <<>> /\ id < calls[1].handler) =>
              calls[1].direct /\ app[id].at = app[calls[1].handler].at

\* No handler runs twice for a request, over errors, nested routers and trees, unless
\* one before it failed after its next().
RunsOnce ==
    ~FailedAfterNext => \A c, d \in DOMAIN calls : c # d => calls[c].handler # calls[d].handler

\* While a handler runs and has not called next(), what it reads of the request (baseUrl,
\* params, routePath) is its own, whatever the handlers before it still do.
ScopeIsOwn ==
    ~FailedAfterNext => \A c \in DOMAIN calls :
        (calls[c].phase = "running" /\ ~calls[c].nexted) => scope = calls[c].scope

\* Every request is answered, or its client is gone, or one of these holds the answer
\* back for ever: a handler ended and never answers or calls next() (or, in a route of a
\* tree, calls next() too late), or began an answer of its own: an error after that
\* cannot be answered and, when nobody is left to be told, ends the process.  A handler
\* that is silent for a while and goes on from a callback explains nothing.
Explained ==
    \/ Finished
    \/ response.head = "sent"
    \/ \E c \in DOMAIN calls : calls[c].phase = "silent"
AnsweredOrExplained == <>[](request # NoRequest => Explained)
================================================================================
