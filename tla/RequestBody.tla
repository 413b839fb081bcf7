----------------------------- MODULE RequestBody -----------------------------
(***************************************************************************)
(* The body of one request (src/internal/http/request.ts, buffer, text and *)
(* json): handlers and middleware read it, several of them and more than   *)
(* one at a time, each with a limit of its own.  The bytes are read once,  *)
(* by the first call that gets to open the stream; what they decode to is  *)
(* cached by each layer.                                                   *)
(*                                                                         *)
(* A body is its length, whether a content-length declared it, and whether *)
(* it is JSON.  The object a json() call parsed is named by the call.      *)
(***************************************************************************)
EXTENDS Naturals, FiniteSets

CONSTANTS
  Calls,        \* bound: calls of buffer(), text() and json()
  Limits,       \* the limits they pass
  MaxBody       \* bound: the length of a body

ASSUME BodyAssumption == Calls \in Nat /\ MaxBody \in Nat /\ Limits \subseteq Nat

\* The calls are numbered in the order in which they begin; 0 is none of them.
Readers == 1..Calls

VARIABLES
  timed,        \* does node cut a client off that stops sending? HTTP/1 has a time limit
                \* for requests, an HTTP/2 server is made without one (transport/server.ts)
  answered,     \* end() of the response was called
  body,         \* the body the client sends
  stream,       \* the raw request: state, and bytes that reached the data listener
  opener,       \* bodyCache.bufferPromise: the call that made it, its limit, what it found
                \* when it attached its listeners, its state
  caches,       \* bodyCache.buffer and .text are set; .json, by the call that parsed it
  readers,      \* the calls: kind, limit, phase, what they wait for or got
  beside        \* history: for each call of json(), those it ran beside

connectionVars == <<timed, answered>>
bodyVars == <<connectionVars, body, stream, opener, caches, readers, beside>>

Settled == {"got", "tooLarge", "aborted", "invalid"}

BodyTypeOK ==
  /\ timed \in BOOLEAN /\ answered \in BOOLEAN
  /\ body \in [length : 0..MaxBody, declared : BOOLEAN, json : BOOLEAN]
  /\ stream \in [state : {"open", "ended", "cut", "gone", "destroyed"}, received : 0..MaxBody]
  /\ opener \in [by : 0..Calls, limit : Limits \cup {0},
                 found : {"none", "open", "answered", "gone"},
                 state : {"none", "pending", "got", "tooLarge", "aborted"}]
  /\ caches \in [buffer : BOOLEAN, text : BOOLEAN, json : 0..Calls]
  /\ readers \in [Readers ->
       [kind : {"buffer", "text", "json"}, limit : Limits \cup {0}, value : 0..Calls,
        phase : {"idle", "waiting", "buffered", "parsing"} \cup Settled]]
  /\ beside \in [Readers -> SUBSET Readers]

BodyInit ==
  /\ timed \in BOOLEAN /\ answered = FALSE
  /\ body \in [length : 0..MaxBody, declared : BOOLEAN, json : BOOLEAN]
  /\ body.json => body.length > 0
  /\ stream = [state |-> "open", received |-> 0]
  /\ opener = [by |-> 0, limit |-> 0, found |-> "none", state |-> "none"]
  /\ caches = [buffer |-> FALSE, text |-> FALSE, json |-> 0]
  /\ readers = [r \in Readers |-> [kind |-> "buffer", limit |-> 0, phase |-> "idle", value |-> 0]]
  /\ beside = [r \in Readers |-> {}]

Running(r) == readers[r].phase \notin {"idle"} \cup Settled

(***************************************************************************)
(* A call runs down to the cache that is set, without a pause: json() to   *)
(* text() to buffer().                                                     *)
(***************************************************************************)
\* Where a call of this kind first awaits, or that it returns, if a cache serves it.
Cached(kind) ==
  CASE kind = "json" /\ caches.json # 0 -> "got"
    [] kind = "json" /\ caches.json = 0 /\ caches.text -> "parsing"
    [] kind = "text" /\ caches.text -> "got"
    [] OTHER -> IF kind = "buffer" THEN "got" ELSE "buffered"

CacheServes(kind) ==
  \/ caches.buffer
  \/ kind # "buffer" /\ caches.text
  \/ kind = "json" /\ caches.json # 0

TooLong(limit) == body.declared /\ body.length > limit

Begins(r, kind, limit, phase) ==
  /\ readers[r].phase = "idle"
  /\ \A q \in Readers : q < r => readers[q].phase # "idle"
  /\ readers' = [readers EXCEPT ![r] =
       [kind |-> kind, limit |-> limit, phase |-> phase,
        value |-> IF kind = "json" /\ phase = "got" THEN caches.json ELSE 0]]
  /\ beside' = [s \in Readers |->
       IF kind # "json" THEN beside[s]
       ELSE IF s = r THEN {q \in Readers : Running(q) /\ readers[q].kind = "json"}
       ELSE IF Running(s) /\ readers[s].kind = "json" THEN beside[s] \cup {r}
       ELSE beside[s]]
  /\ UNCHANGED <<connectionVars, body, stream, caches>>

ReadCached(r, kind, limit) ==
  /\ CacheServes(kind)
  /\ Begins(r, kind, limit, Cached(kind))
  /\ UNCHANGED opener

\* The promise of an earlier call: this call's limit is not looked at.
ReadShared(r, kind, limit) ==
  /\ ~CacheServes(kind)
  /\ opener.state # "none"
  /\ Begins(r, kind, limit, "waiting")
  /\ UNCHANGED opener

\* A declared length above the limit is refused before anything is cached.
ReadRefused(r, kind, limit) ==
  /\ opener.state = "none"
  /\ TooLong(limit)
  /\ Begins(r, kind, limit, "tooLarge")
  /\ UNCHANGED opener

\* The listeners are attached, which starts the stream; a stream that is gone has said so
\* already, and one whose response has ended is about to be thrown away.
ReadOpens(r, kind, limit) ==
  /\ opener.state = "none"
  /\ ~TooLong(limit)
  /\ Begins(r, kind, limit, "waiting")
  /\ opener' = [by |-> r, limit |-> limit, state |-> "pending",
                found |-> IF stream.state = "gone" THEN "gone"
                          ELSE IF answered THEN "answered" ELSE "open"]

(***************************************************************************)
(* The raw request                                                         *)
(***************************************************************************)
Flowing == stream.state = "open" /\ opener.state # "none"

\* Mutant: the bytes that arrive are not counted: only a declared length is checked.
Chunk_Uncounted ==
  /\ Flowing
  /\ \E n \in 1..(body.length - stream.received) :
       stream' = [stream EXCEPT !.received = @ + n]
  /\ UNCHANGED <<connectionVars, body, opener, caches, readers, beside>>

Chunk ==
  /\ Flowing
  /\ \E n \in 1..(body.length - stream.received) :
       LET total == stream.received + n IN
       IF total > opener.limit
       THEN /\ stream' = [state |-> "destroyed", received |-> total]
            /\ opener' = [opener EXCEPT !.state = "tooLarge"]
       ELSE /\ stream' = [stream EXCEPT !.received = total]
            /\ UNCHANGED opener
  /\ UNCHANGED <<connectionVars, body, caches, readers, beside>>

StreamEnds ==
  /\ Flowing
  /\ stream.received = body.length
  /\ stream' = [stream EXCEPT !.state = "ended"]
  /\ opener' = [opener EXCEPT !.state = "got"]
  /\ caches' = [caches EXCEPT !.buffer = TRUE]
  /\ UNCHANGED <<connectionVars, body, readers, beside>>

\* The handlers end the response, whoever still reads.  When it has been sent node forgets
\* the request.
ResponseEnds ==
  /\ ~answered /\ stream.state = "open"
  /\ answered' = TRUE
  /\ UNCHANGED <<timed, body, stream, opener, caches, readers, beside>>

\* A body that nobody had begun to read when the response ended is thrown away: who attaches
\* listeners meanwhile hears of the end, after some of the bytes or none.
ThrownAway ==
  /\ answered /\ stream.state = "open"
  /\ opener.state = "pending" /\ opener.found = "answered"
  /\ stream' = [stream EXCEPT !.state = "cut"]
  /\ opener' = [opener EXCEPT !.state = "got"]
  /\ caches' = [caches EXCEPT !.buffer = TRUE]
  /\ UNCHANGED <<connectionVars, body, readers, beside>>

\* Mutant: nobody listens to "aborted".
Goes_Unheard ==
  /\ stream.state = "open"
  /\ stream' = [stream EXCEPT !.state = "gone"]
  /\ UNCHANGED <<connectionVars, body, opener, caches, readers, beside>>

\* The client goes away or is timed out, or an unread body has been thrown away.  "aborted"
\* is for who listens, and is emitted only until the response has ended: an HTTP/1 request
\* leaves node's list when the response is sent, an HTTP/2 stream must still be writable.
Goes ==
  /\ stream.state = "open"
  /\ stream' = [stream EXCEPT !.state = "gone"]
  /\ \/ /\ opener.state = "pending"
        /\ opener' = [opener EXCEPT !.state = "aborted"]
     \/ /\ opener.state = "none" \/ answered
        /\ UNCHANGED opener
  /\ UNCHANGED <<connectionVars, body, caches, readers, beside>>

(***************************************************************************)
(* The calls go on, each in a turn of its own                              *)
(***************************************************************************)
BufferSettles(r) ==
  /\ readers[r].phase = "waiting"
  /\ opener.state \notin {"none", "pending"}
  /\ readers' = [readers EXCEPT ![r].phase =
       IF opener.state = "got" /\ readers[r].kind # "buffer" THEN "buffered" ELSE opener.state]
  /\ UNCHANGED <<connectionVars, body, stream, opener, caches, beside>>

TextSettles(r) ==
  /\ readers[r].phase = "buffered"
  /\ caches' = [caches EXCEPT !.text = TRUE]
  /\ readers' = [readers EXCEPT ![r].phase = IF readers[r].kind = "text" THEN "got" ELSE "parsing"]
  /\ UNCHANGED <<connectionVars, body, stream, opener, beside>>

\* A parse that fails is not cached: the next call parses the text again.  A part of a
\* body may be JSON or not, whatever the whole is.
JsonSettles(r) ==
  /\ readers[r].phase = "parsing"
  /\ \/ /\ IF stream.state = "cut" THEN stream.received > 0 ELSE body.json
        /\ caches' = [caches EXCEPT !.json = r]
        /\ readers' = [readers EXCEPT ![r].phase = "got", ![r].value = r]
     \/ /\ ~body.json \/ stream.state = "cut"
        /\ readers' = [readers EXCEPT ![r].phase = "invalid"]
        /\ UNCHANGED caches
  /\ UNCHANGED <<connectionVars, body, stream, opener, beside>>

Reads(r, kind, limit) ==
  \/ ReadCached(r, kind, limit)
  \/ ReadShared(r, kind, limit)
  \/ ReadRefused(r, kind, limit)
  \/ ReadOpens(r, kind, limit)

GoesOn(r) == BufferSettles(r) \/ TextSettles(r) \/ JsonSettles(r)

BodyNext ==
  \/ \E r \in Readers, kind \in {"buffer", "text", "json"}, limit \in Limits : Reads(r, kind, limit)
  \/ Chunk \/ StreamEnds \/ ResponseEnds \/ ThrownAway \/ Goes
  \/ \E r \in Readers : GoesOn(r)

\* Turns are taken.  An HTTP/1 client that stops sending while it is read is cut off by
\* node's limit for the time of a request; an HTTP/2 client may stop for ever.
BodyFairness ==
  /\ WF_bodyVars(timed /\ Flowing /\ (Chunk \/ StreamEnds \/ ThrownAway \/ Goes))
  /\ \A r \in Readers : WF_bodyVars(GoesOn(r))

BodySpec == BodyInit /\ [][BodyNext]_bodyVars /\ BodyFairness

(***************************************************************************)
(* Properties                                                              *)
(***************************************************************************)
\* One object per body: two calls of json() get different ones only if some calls of json()
\* overlapped, of which each parses the text anew.
OneObject ==
  \A r, s \in Readers :
    readers[r].value # 0 /\ readers[s].value # 0 /\ readers[r].value # readers[s].value =>
      beside[readers[r].value] # {} /\ beside[readers[s].value] # {}

\* What a call is told is explained by the body, its own limit and the limit of the call
\* that opened the stream: the whole body only within the opener's limit, and part of one
\* only if the stream was opened after the response had ended; 413 only for a declared
\* length above its own limit or bytes above the opener's; 400 only for a client that left
\* while the stream was read, or for what is not JSON.
\* And the objects that json() gives are one, as above.
BodyExplained ==
  /\ \A r \in Readers :
    /\ readers[r].phase = "got" =>
         /\ stream.received <= opener.limit
         /\ \/ stream = [state |-> "ended", received |-> body.length]
            \/ stream.state = "cut" /\ opener.found = "answered"
    /\ readers[r].phase = "tooLarge" =>
         \/ TooLong(readers[r].limit)
         \/ stream.state = "destroyed" /\ body.length > opener.limit
    /\ readers[r].phase = "aborted" => stream.state = "gone" /\ opener.found # "gone"
    /\ readers[r].phase = "invalid" =>
         readers[r].kind = "json" /\ (~body.json \/ stream.state = "cut")
  /\ OneObject

\* A call of buffer(), text() or json() settles, unless the stream was gone before the first
\* call attached its listeners, or it went after the response had ended (nobody is told), or
\* an HTTP/2 client neither sends on nor leaves: then it waits for ever, and so does every
\* later one.
BodySettles ==
  \A r \in Readers :
    Running(r) ~> \/ ~Running(r)
                  \/ opener.found = "gone"
                  \/ answered /\ stream.state = "gone"
                  \/ [](~timed /\ stream.state = "open")
=============================================================================
