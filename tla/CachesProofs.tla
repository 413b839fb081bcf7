----------------------------- MODULE CachesProofs -----------------------------
(***************************************************************************)
(* What the three caches of KenoJS promise their readers, for every number *)
(* of readers, requests and callers: the body of a request, the small      *)
(* files of a static service and the temporary certificates.  They share   *)
(* nothing, and each part is about the variables of its module alone.      *)
(***************************************************************************)
EXTENDS RequestBody, StaticCache, TemporaryCertificates, SequenceTheorems, TLAPS

-----------------------------------------------------------------------------
(* RequestBody: what readers of a body are told is explained by the body   *)
(* and by the limits.                                                      *)

\* The promise that the opener made says what became of the stream.
OpenerAgrees ==
  /\ stream.received <= body.length
  /\ opener.state = "none" => opener.by = 0 /\ opener.found = "none" /\ stream.received = 0
                              /\ stream.state \in {"open", "gone"}
  /\ opener.state = "pending" =>
       stream.received <= opener.limit /\ stream.state \in {"open", "gone"}
  /\ opener.state = "got" =>
       /\ stream.received <= opener.limit
       /\ \/ stream = [state |-> "ended", received |-> body.length]
          \/ stream.state = "cut" /\ opener.found = "answered"
  /\ opener.state = "tooLarge" => stream.state = "destroyed" /\ body.length > opener.limit
  /\ opener.state = "aborted" => stream.state = "gone" /\ opener.found # "gone"
  /\ opener.found = "gone" => stream.state = "gone"

\* Each cache is filled from the one below it.
CachesNested ==
  /\ caches.buffer => opener.state = "got"
  /\ opener.state = "got" => caches.buffer
  /\ caches.text => caches.buffer
  /\ caches.json # 0 => caches.text /\ (body.json \/ stream.state = "cut")

\* A call has passed what its phase says it has.
PhasesEarned ==
  \A r \in Readers :
    /\ readers[r].phase \in {"waiting"} => opener.state # "none"
    /\ readers[r].phase \in {"buffered", "parsing", "got"} => opener.state = "got"
    /\ readers[r].phase = "tooLarge" =>
         TooLong(readers[r].limit) \/ (stream.state = "destroyed" /\ body.length > opener.limit)
    /\ readers[r].phase = "aborted" =>
         stream.state = "gone" /\ opener.found # "gone" /\ opener.state = "aborted"
    /\ readers[r].phase \in {"parsing", "invalid"} => readers[r].kind = "json"
    /\ readers[r].phase = "parsing" => caches.text
    /\ readers[r].phase = "buffered" => readers[r].kind # "buffer"
    /\ readers[r].phase = "invalid" => ~body.json \/ stream.state = "cut"

Parses(r) == Running(r) /\ readers[r].kind = "json"

\* The object of a call is one that it parsed itself, or one that was in the cache.
ValuesParsed ==
  /\ \A r \in Readers : readers[r].value # 0 =>
       /\ readers[r].phase = "got" /\ caches.json # 0
       /\ readers[r].value \in Readers
       /\ readers[readers[r].value].value = readers[r].value
  /\ caches.json # 0 => caches.json \in Readers /\ readers[caches.json].value = caches.json

Beside(r, s) == r \in beside[s] /\ s \in beside[r]

\* Calls of json() that run at a time have seen each other, and so has one that parsed with
\* those that still run and with any other that parsed.
OverlapSeen ==
  \A r, s \in Readers : r # s =>
    /\ Parses(r) /\ Parses(s) => Beside(r, s)
    /\ readers[r].value = r /\ Parses(s) => Beside(r, s)
    /\ readers[r].value = r /\ readers[s].value = s => Beside(r, s)

BodyInv ==
  BodyTypeOK /\ OpenerAgrees /\ CachesNested /\ PhasesEarned /\ ValuesParsed /\ OverlapSeen

LEMMA CallNumbers == Readers \subseteq 0..Calls /\ 0 \notin Readers
BY BodyAssumption DEF Readers

\* The numbers of the bytes are numbers.
LEMMA ByteCounts ==
  BodyInv => /\ body.length \in 0..MaxBody /\ body.length \in Nat
             /\ stream.received \in 0..MaxBody /\ stream.received \in Nat
             /\ opener.limit \in Limits \cup {0} /\ opener.limit \in Nat
<1>1. BodyInv => /\ body.length \in 0..MaxBody
                 /\ stream.received \in 0..MaxBody
                 /\ opener.limit \in Limits \cup {0}
  BY DEF BodyInv, BodyTypeOK, connectionVars
<1>2. \A n \in 0..MaxBody : n \in Nat
  BY BodyAssumption
<1>3. \A l \in Limits \cup {0} : l \in Nat
  BY BodyAssumption
<1>. QED
  BY <1>1, <1>2, <1>3

LEMMA InitBodyInv == BodyInit => BodyInv
<1>. SUFFICES ASSUME BodyInit PROVE BodyInv
  OBVIOUS
<1>. USE BodyAssumption, CallNumbers DEF BodyInit
<1>1. BodyTypeOK
  <2>1. timed \in BOOLEAN /\ answered \in BOOLEAN
    OBVIOUS
  <2>2. /\ body \in [length : 0..MaxBody, declared : BOOLEAN, json : BOOLEAN]
        /\ readers \in [Readers ->
             [kind : {"buffer", "text", "json"}, limit : Limits \cup {0}, value : 0..Calls,
              phase : {"idle", "waiting", "buffered", "parsing"} \cup Settled]]
        /\ beside \in [Readers -> SUBSET Readers]
    OBVIOUS
  <2>3. 0 \in 0..MaxBody /\ 0 \in 0..Calls
    OBVIOUS
  <2>. QED
    BY <2>1, <2>2, <2>3 DEF BodyTypeOK
<1>2. OpenerAgrees /\ CachesNested
  BY DEF OpenerAgrees, CachesNested
<1>3. PhasesEarned /\ ValuesParsed
  BY DEF PhasesEarned, ValuesParsed
<1>4. OverlapSeen
  BY DEF OverlapSeen, Parses, Running
<1>. QED
  BY <1>1, <1>2, <1>3, <1>4 DEF BodyInv

-----------------------------------------------------------------------------
(* The calls begin.                                                        *)

Kinds == {"buffer", "text", "json"}

\* What a call does to the table of calls, whatever serves it.
NewRead(r, kind, limit, phase) ==
  /\ readers' \in [Readers ->
       [kind : Kinds, limit : Limits \cup {0}, value : 0..Calls,
        phase : {"idle", "waiting", "buffered", "parsing"} \cup Settled]]
  /\ beside' \in [Readers -> SUBSET Readers]
  /\ readers[r].phase = "idle"
  /\ readers'[r].kind = kind /\ readers'[r].limit = limit /\ readers'[r].phase = phase
  /\ readers'[r].value = IF kind = "json" /\ phase = "got" THEN caches.json ELSE 0
  /\ \A q \in Readers \ {r} : readers'[q] = readers[q]
  /\ \A q \in Readers \ {r} : beside[q] \subseteq beside'[q]
  /\ kind = "json" => \A q \in Readers \ {r} : Parses(q) => Beside(r, q)'
  /\ UNCHANGED <<connectionVars, body, stream, caches>>

LEMMA BeginsIsNewRead ==
  ASSUME BodyInv, NEW r \in Readers, NEW kind \in Kinds, NEW limit \in Limits,
         NEW phase \in {"waiting", "buffered", "parsing"} \cup Settled,
         Begins(r, kind, limit, phase)
  PROVE  NewRead(r, kind, limit, phase)
<1>. USE DEF BodyInv, BodyTypeOK, Kinds
<1>1. caches.json \in 0..Calls /\ 0 \in 0..Calls
  BY BodyAssumption
<1>2. /\ readers' = [readers EXCEPT ![r] =
           [kind |-> kind, limit |-> limit, phase |-> phase,
            value |-> IF kind = "json" /\ phase = "got" THEN caches.json ELSE 0]]
      /\ readers[r].phase = "idle" /\ UNCHANGED <<connectionVars, body, stream, caches>>
  BY DEF Begins
<1>3. readers' \in [Readers ->
        [kind : Kinds, limit : Limits \cup {0}, value : 0..Calls,
         phase : {"idle", "waiting", "buffered", "parsing"} \cup Settled]]
  BY <1>1, <1>2
<1>4. beside' = [s \in Readers |->
        IF kind # "json" THEN beside[s]
        ELSE IF s = r THEN {q \in Readers : Parses(q)}
        ELSE IF Parses(s) THEN beside[s] \cup {r}
        ELSE beside[s]]
  BY DEF Begins, Parses
<1>5. beside' \in [Readers -> SUBSET Readers]
  BY <1>4
<1>6. \A q \in Readers \ {r} : beside[q] \subseteq beside'[q]
  BY <1>4
<1>7. kind = "json" => \A q \in Readers \ {r} : Parses(q) => Beside(r, q)'
  BY <1>4 DEF Beside
<1>. QED
  BY <1>2, <1>3, <1>5, <1>6, <1>7 DEF NewRead

\* A call that begins has no value of its own, and when one has, it does not parse.
LEMMA NewReadSeen ==
  ASSUME BodyInv, NEW r \in Readers, NEW kind \in Kinds, NEW limit \in Limits,
         NEW phase \in {"waiting", "buffered", "parsing"} \cup Settled,
         NewRead(r, kind, limit, phase),
         kind = "json" /\ caches.json # 0 => phase \in {"got", "tooLarge"}
  PROVE  ValuesParsed' /\ OverlapSeen'
<1>. USE CallNumbers
<1>1. readers[r].value = 0 /\ ~Parses(r) /\ readers[r].phase = "idle" /\ caches' = caches
  BY DEF BodyInv, ValuesParsed, NewRead, Parses, Running
<1>2. \A q \in Readers \ {r} : readers'[q] = readers[q] /\ beside[q] \subseteq beside'[q]
  BY DEF NewRead
<1>3. readers'[r].value # 0 => readers'[r].value = caches.json /\ readers'[r].phase = "got"
  BY DEF NewRead
<1>4. caches.json # 0 => caches.json \in Readers \ {r} /\ readers[caches.json].value = caches.json
  BY <1>1 DEF BodyInv, ValuesParsed
<1>5. readers'[r].value # r
  BY <1>3, <1>4
<1>6. Parses(r)' => kind = "json" /\ caches.json = 0
  BY DEF NewRead, Parses, Running, Settled
<1>7. ValuesParsed'
  <2>1. ASSUME NEW q \in Readers, readers'[q].value # 0
        PROVE  /\ readers'[q].phase = "got" /\ caches'.json # 0
               /\ readers'[q].value \in Readers
               /\ readers'[readers'[q].value].value = readers'[q].value
    <3>1. CASE q = r
      BY <2>1, <3>1, <1>1, <1>2, <1>3, <1>4
    <3>2. CASE q # r
      <4>1. /\ readers[q].value # 0 /\ readers'[q] = readers[q]
            /\ readers[q].phase = "got" /\ caches.json # 0 /\ readers[q].value \in Readers
            /\ readers[readers[q].value].value = readers[q].value
        BY <2>1, <3>2, <1>2 DEF BodyInv, ValuesParsed
      <4>2. readers[q].value # r
        BY <4>1, <1>1
      <4>. QED
        BY <4>1, <4>2, <1>1, <1>2
    <3>. QED
      BY <3>1, <3>2
  <2>2. caches'.json # 0 => caches'.json \in Readers /\ readers'[caches'.json].value = caches'.json
    BY <1>1, <1>2, <1>4
  <2>. QED
    BY <2>1, <2>2 DEF ValuesParsed
<1>8. \A q \in Readers \ {r} : (Parses(q)' <=> Parses(q)) /\ (Parses(r)' /\ Parses(q) => Beside(r, q)')
  BY <1>2, <1>6 DEF Parses, Running, NewRead
<1>9. \A q \in Readers : Parses(r)' => readers[q].value # q
  BY <1>6 DEF BodyInv, ValuesParsed
<1>10. \A q, s \in Readers \ {r} : Beside(q, s) => Beside(q, s)'
  BY <1>2 DEF Beside
<1>11. ASSUME NEW q \in Readers, NEW s \in Readers, q # s
       PROVE  /\ Parses(q)' /\ Parses(s)' => Beside(q, s)'
              /\ readers'[q].value = q /\ Parses(s)' => Beside(q, s)'
              /\ readers'[q].value = q /\ readers'[s].value = s => Beside(q, s)'
  <2>1. CASE q # r /\ s # r
    BY <2>1, <1>2, <1>8, <1>10, <1>11 DEF BodyInv, OverlapSeen
  <2>2. CASE q = r
    BY <2>2, <1>5, <1>8, <1>11
  <2>3. CASE s = r
    BY <2>3, <1>2, <1>5, <1>8, <1>9, <1>11 DEF Beside
  <2>. QED
    BY <2>1, <2>2, <2>3
<1>12. OverlapSeen'
  BY <1>11 DEF OverlapSeen
<1>. QED
  BY <1>7, <1>12

\* The phase a call begins in is one that the caches, the opener or its limit give it.
LEMMA NewReadEarned ==
  ASSUME BodyInv, NEW r \in Readers, NEW kind \in Kinds, NEW limit \in Limits,
         NEW phase \in {"waiting", "buffered", "parsing", "got", "tooLarge"},
         NewRead(r, kind, limit, phase),
         phase = "waiting" => opener'.state # "none",
         phase \in {"buffered", "parsing", "got"} => opener'.state = "got",
         phase = "tooLarge" => TooLong(limit),
         phase = "parsing" => kind = "json" /\ caches.text, phase = "buffered" => kind # "buffer",
         opener' = opener \/ (opener.state = "none" /\ opener'.state # "none")
  PROVE  PhasesEarned'
<1>1. \A q \in Readers \ {r} : readers'[q] = readers[q]
  BY DEF NewRead
<1>2. \A l : TooLong(l)' = TooLong(l)
  BY DEF NewRead, TooLong
<1>3. stream' = stream /\ body' = body
  BY DEF NewRead
<1>4. CASE opener' = opener
  BY <1>1, <1>2, <1>3, <1>4 DEF BodyInv, PhasesEarned, NewRead
<1>5. CASE opener.state = "none" /\ opener'.state # "none"
  <2>1. stream.state # "destroyed"
    BY <1>5 DEF BodyInv, OpenerAgrees
  <2>. QED
    BY <2>1, <1>1, <1>2, <1>3, <1>5 DEF BodyInv, PhasesEarned, NewRead
<1>. QED
  BY <1>4, <1>5

LEMMA ReadsStep ==
  ASSUME BodyInv, NEW r \in Readers, NEW kind \in Kinds, NEW limit \in Limits, Reads(r, kind, limit)
  PROVE  BodyInv'
<1>1. CASE ReadCached(r, kind, limit)
  <2>. DEFINE phase == Cached(kind)
  <2>1. phase \in {"buffered", "parsing", "got"} /\ Begins(r, kind, limit, phase) /\ opener' = opener
    BY <1>1 DEF ReadCached, Cached
  <2>2. /\ opener.state = "got" /\ (phase = "parsing" => kind = "json" /\ caches.text)
        /\ phase = "buffered" => kind # "buffer"
        /\ kind = "json" /\ caches.json # 0 => phase = "got"
    <3>1. opener.state = "got"
      BY <1>1 DEF ReadCached, CacheServes, BodyInv, CachesNested
    <3>2. kind = "json" /\ caches.json # 0 => phase = "got"
      BY DEF Cached
    <3>3. kind # "json" \/ ~caches.text => phase # "parsing"
      BY DEF Cached
    <3>4. phase = "buffered" => kind # "buffer"
      BY DEF Cached
    <3>. QED
      BY <3>1, <3>2, <3>3, <3>4
  <2>. HIDE DEF phase
  <2>3. NewRead(r, kind, limit, phase)
    BY <2>1, BeginsIsNewRead DEF Settled
  <2>4. BodyTypeOK' /\ OpenerAgrees' /\ CachesNested'
    BY <2>1, <2>3 DEF NewRead, BodyInv, BodyTypeOK, connectionVars, OpenerAgrees, CachesNested, Kinds
  <2>5. PhasesEarned'
    BY <2>1, <2>2, <2>3, NewReadEarned
  <2>6. ValuesParsed' /\ OverlapSeen'
    BY <2>1, <2>2, <2>3, NewReadSeen DEF Settled
  <2>. QED
    BY <2>4, <2>5, <2>6 DEF BodyInv
<1>2. CASE ReadShared(r, kind, limit)
  <2>1. Begins(r, kind, limit, "waiting") /\ opener' = opener /\ opener.state # "none" /\ ~CacheServes(kind)
    BY <1>2 DEF ReadShared
  <2>2. NewRead(r, kind, limit, "waiting")
    BY <2>1, BeginsIsNewRead
  <2>3. BodyTypeOK' /\ OpenerAgrees' /\ CachesNested'
    BY <2>1, <2>2 DEF NewRead, BodyInv, BodyTypeOK, connectionVars, OpenerAgrees, CachesNested, Kinds
  <2>4. PhasesEarned'
    BY <2>1, <2>2, NewReadEarned
  <2>5. ValuesParsed' /\ OverlapSeen'
    BY <2>1, <2>2, NewReadSeen DEF CacheServes
  <2>. QED
    BY <2>3, <2>4, <2>5 DEF BodyInv
<1>3. CASE ReadRefused(r, kind, limit)
  <2>1. Begins(r, kind, limit, "tooLarge") /\ opener' = opener /\ TooLong(limit)
    BY <1>3 DEF ReadRefused
  <2>2. NewRead(r, kind, limit, "tooLarge")
    BY <2>1, BeginsIsNewRead DEF Settled
  <2>3. BodyTypeOK' /\ OpenerAgrees' /\ CachesNested'
    BY <2>1, <2>2 DEF NewRead, BodyInv, BodyTypeOK, connectionVars, OpenerAgrees, CachesNested, Kinds
  <2>4. PhasesEarned'
    BY <2>1, <2>2, NewReadEarned
  <2>5. ValuesParsed' /\ OverlapSeen'
    BY <2>1, <2>2, NewReadSeen DEF Settled
  <2>. QED
    BY <2>3, <2>4, <2>5 DEF BodyInv
<1>4. CASE ReadOpens(r, kind, limit)
  <2>1. /\ Begins(r, kind, limit, "waiting") /\ opener.state = "none"
        /\ opener' = [by |-> r, limit |-> limit, state |-> "pending",
                      found |-> IF stream.state = "gone" THEN "gone"
                                ELSE IF answered THEN "answered" ELSE "open"]
    BY <1>4 DEF ReadOpens
  <2>2. NewRead(r, kind, limit, "waiting")
    BY <2>1, BeginsIsNewRead
  <2>3. BodyTypeOK'
    BY <2>1, <2>2, CallNumbers DEF NewRead, BodyInv, BodyTypeOK, connectionVars, Kinds
  <2>4. OpenerAgrees'
    <3>1. stream' = stream /\ body' = body /\ stream.received = 0 /\ stream.state \in {"open", "gone"}
      BY <2>1, <2>2 DEF NewRead, BodyInv, OpenerAgrees
    <3>2. opener'.state = "pending" /\ opener'.limit = limit
          /\ (opener'.found = "gone" => stream.state = "gone")
      BY <2>1
    <3>3. 0 <= limit /\ 0 <= body.length
      BY BodyAssumption, ByteCounts
    <3>4. opener'.state \notin {"none", "got", "tooLarge", "aborted"}
      BY <3>2
    <3>. QED
      BY <3>1, <3>2, <3>3, <3>4 DEF OpenerAgrees
  <2>5. CachesNested' /\ caches.json = 0
    BY <2>1, <2>2 DEF NewRead, BodyInv, CachesNested
  <2>6. PhasesEarned'
    BY <2>1, <2>2, NewReadEarned
  <2>7. ValuesParsed' /\ OverlapSeen'
    BY <2>2, <2>5, NewReadSeen
  <2>. QED
    BY <2>3, <2>4, <2>5, <2>6, <2>7 DEF BodyInv
<1>. QED
  BY <1>1, <1>2, <1>3, <1>4 DEF Reads

-----------------------------------------------------------------------------
(* The raw request, and the calls that wait for it.                        *)

LEMMA ChunkStep == BodyInv /\ Chunk => BodyInv'
<1>. SUFFICES ASSUME BodyInv, Chunk PROVE BodyInv'
  OBVIOUS
<1>1. /\ UNCHANGED connectionVars /\ body' = body /\ caches' = caches /\ readers' = readers /\ beside' = beside
      /\ stream.state = "open" /\ opener.state # "none"
  BY DEF Chunk, Flowing
<1>2. PICK n \in 1..(body.length - stream.received) :
        LET total == stream.received + n IN
        IF total > opener.limit
        THEN /\ stream' = [state |-> "destroyed", received |-> total]
             /\ opener' = [opener EXCEPT !.state = "tooLarge"]
        ELSE /\ stream' = [stream EXCEPT !.received = total]
             /\ UNCHANGED opener
  BY DEF Chunk
<1>3. /\ body.length \in 0..MaxBody /\ stream.received \in 0..MaxBody /\ opener.limit \in Nat
      /\ stream.received + n \in 0..MaxBody /\ stream.received + n <= body.length
  BY BodyAssumption, ByteCounts
<1>4. opener.state = "pending" /\ opener.found # "gone"
  BY <1>1 DEF BodyInv, BodyTypeOK, connectionVars, OpenerAgrees
<1>5. BodyTypeOK' /\ OpenerAgrees' /\ CachesNested' /\ PhasesEarned'
  <2>1. CASE stream.received + n > opener.limit
    <3>1. /\ stream' = [state |-> "destroyed", received |-> stream.received + n]
          /\ opener' = [opener EXCEPT !.state = "tooLarge"]
      BY <1>2, <2>1
    <3>2. BodyTypeOK'
      BY <3>1, <1>1, <1>3 DEF BodyInv, BodyTypeOK, connectionVars
    <3>3. /\ opener'.state = "tooLarge" /\ opener'.found # "gone" /\ opener'.limit = opener.limit
          /\ stream'.state = "destroyed" /\ stream'.received <= body.length /\ body.length > opener.limit
      BY <3>1, <1>3, <1>4, <2>1 DEF BodyInv, BodyTypeOK, connectionVars
    <3>4. OpenerAgrees'
      BY <3>3, <1>1 DEF OpenerAgrees
    <3>5. CachesNested' /\ PhasesEarned'
      BY <3>3, <1>1, <1>4 DEF BodyInv, CachesNested, PhasesEarned, TooLong
    <3>. QED
      BY <3>2, <3>4, <3>5
  <2>2. CASE stream.received + n <= opener.limit
    <3>1. stream' = [stream EXCEPT !.received = stream.received + n] /\ opener' = opener
      BY <1>2, <1>3, <2>2
    <3>2. BodyTypeOK'
      BY <3>1, <1>1, <1>3 DEF BodyInv, BodyTypeOK, connectionVars
    <3>3. stream'.state = "open" /\ stream'.received = stream.received + n
      BY <3>1, <1>1 DEF BodyInv, BodyTypeOK, connectionVars
    <3>4. OpenerAgrees'
      BY <3>1, <3>3, <1>1, <1>3, <1>4, <2>2 DEF OpenerAgrees
    <3>5. CachesNested' /\ PhasesEarned'
      BY <3>1, <3>3, <1>1, <1>4 DEF BodyInv, CachesNested, PhasesEarned, TooLong
    <3>. QED
      BY <3>2, <3>4, <3>5
  <2>. QED
    BY <1>3, <2>1, <2>2
<1>6. ValuesParsed' /\ OverlapSeen'
  BY <1>1 DEF BodyInv, ValuesParsed, OverlapSeen, Parses, Running, Beside
<1>. QED
  BY <1>5, <1>6 DEF BodyInv

LEMMA StreamEndsStep == BodyInv /\ StreamEnds => BodyInv'
<1>. SUFFICES ASSUME BodyInv, StreamEnds PROVE BodyInv'
  OBVIOUS
<1>1. /\ UNCHANGED connectionVars /\ body' = body /\ readers' = readers /\ beside' = beside
      /\ stream' = [stream EXCEPT !.state = "ended"] /\ opener' = [opener EXCEPT !.state = "got"]
      /\ caches' = [caches EXCEPT !.buffer = TRUE]
      /\ stream.state = "open" /\ opener.state # "none" /\ stream.received = body.length
  BY DEF StreamEnds, Flowing
<1>2. opener.state = "pending" /\ opener.found # "gone" /\ stream.received <= opener.limit
  BY <1>1 DEF BodyInv, BodyTypeOK, connectionVars, OpenerAgrees
<1>3. BodyTypeOK'
  BY <1>1 DEF BodyInv, BodyTypeOK, connectionVars
<1>4. /\ opener'.state = "got" /\ opener'.found = opener.found /\ opener'.limit = opener.limit
      /\ stream' = [state |-> "ended", received |-> body.length]
      /\ caches'.buffer /\ caches'.text = caches.text /\ caches'.json = caches.json
  BY <1>1 DEF BodyInv, BodyTypeOK, connectionVars
<1>5. OpenerAgrees'
  BY <1>1, <1>2, <1>4 DEF BodyInv, BodyTypeOK, connectionVars, OpenerAgrees
<1>6. CachesNested' /\ PhasesEarned'
  BY <1>1, <1>2, <1>4 DEF BodyInv, CachesNested, PhasesEarned, TooLong
<1>7. ValuesParsed' /\ OverlapSeen'
  BY <1>1, <1>4 DEF BodyInv, ValuesParsed, OverlapSeen, Parses, Running, Beside
<1>. QED
  BY <1>3, <1>5, <1>6, <1>7 DEF BodyInv

LEMMA ResponseEndsStep == BodyInv /\ ResponseEnds => BodyInv'
<1>. SUFFICES ASSUME BodyInv, ResponseEnds PROVE BodyInv'
  OBVIOUS
<1>1. /\ timed' = timed /\ answered' \in BOOLEAN
      /\ UNCHANGED <<body, stream, opener, caches, readers, beside>>
  BY DEF ResponseEnds
<1>2. BodyTypeOK'
  BY <1>1 DEF BodyInv, BodyTypeOK, connectionVars
<1>3. OpenerAgrees' /\ CachesNested' /\ PhasesEarned'
  BY <1>1 DEF BodyInv, OpenerAgrees, CachesNested, PhasesEarned, TooLong
<1>4. ValuesParsed' /\ OverlapSeen'
  BY <1>1 DEF BodyInv, ValuesParsed, OverlapSeen, Parses, Running, Beside
<1>. QED
  BY <1>2, <1>3, <1>4 DEF BodyInv

LEMMA ThrownAwayStep == BodyInv /\ ThrownAway => BodyInv'
<1>. SUFFICES ASSUME BodyInv, ThrownAway PROVE BodyInv'
  OBVIOUS
<1>1. /\ UNCHANGED connectionVars /\ body' = body /\ readers' = readers /\ beside' = beside
      /\ stream' = [stream EXCEPT !.state = "cut"] /\ opener' = [opener EXCEPT !.state = "got"]
      /\ caches' = [caches EXCEPT !.buffer = TRUE]
      /\ stream.state = "open" /\ opener.state = "pending" /\ opener.found = "answered"
  BY DEF ThrownAway
<1>2. BodyTypeOK'
  BY <1>1 DEF BodyInv, BodyTypeOK, connectionVars
<1>3. /\ opener'.state = "got" /\ opener'.found = "answered" /\ opener'.limit = opener.limit
      /\ stream'.state = "cut" /\ stream'.received = stream.received
      /\ caches'.buffer /\ caches'.text = caches.text /\ caches'.json = caches.json
  BY <1>1 DEF BodyInv, BodyTypeOK, connectionVars
<1>4. OpenerAgrees'
  BY <1>1, <1>3 DEF BodyInv, OpenerAgrees
<1>5. CachesNested' /\ PhasesEarned'
  BY <1>1, <1>3 DEF BodyInv, CachesNested, PhasesEarned, TooLong
<1>6. ValuesParsed' /\ OverlapSeen'
  BY <1>1, <1>3 DEF BodyInv, ValuesParsed, OverlapSeen, Parses, Running, Beside
<1>. QED
  BY <1>2, <1>4, <1>5, <1>6 DEF BodyInv

LEMMA GoesStep == BodyInv /\ Goes => BodyInv'
<1>. SUFFICES ASSUME BodyInv, Goes PROVE BodyInv'
  OBVIOUS
<1>1. /\ UNCHANGED connectionVars /\ body' = body /\ readers' = readers /\ beside' = beside
      /\ caches' = caches /\ stream.state = "open" /\ stream' = [stream EXCEPT !.state = "gone"]
      /\ \/ opener.state = "pending" /\ opener' = [opener EXCEPT !.state = "aborted"]
         \/ opener' = opener
  BY DEF Goes
<1>2. opener.state \in {"none", "pending"} /\ opener.found # "gone"
  BY <1>1 DEF BodyInv, BodyTypeOK, connectionVars, OpenerAgrees
<1>3. BodyTypeOK'
  BY <1>1 DEF BodyInv, BodyTypeOK, connectionVars
<1>4. /\ opener'.state = opener.state \/ (opener.state = "pending" /\ opener'.state = "aborted")
      /\ opener'.found = opener.found /\ opener'.limit = opener.limit /\ opener'.by = opener.by
      /\ stream'.state = "gone" /\ stream'.received = stream.received
  BY <1>1 DEF BodyInv, BodyTypeOK, connectionVars
<1>5. OpenerAgrees'
  BY <1>1, <1>2, <1>4 DEF BodyInv, OpenerAgrees
<1>6. CachesNested' /\ PhasesEarned'
  BY <1>1, <1>2, <1>4 DEF BodyInv, CachesNested, PhasesEarned, TooLong
<1>7. ValuesParsed' /\ OverlapSeen'
  BY <1>1 DEF BodyInv, ValuesParsed, OverlapSeen, Parses, Running, Beside
<1>. QED
  BY <1>3, <1>5, <1>6, <1>7 DEF BodyInv

\* A call that goes on changes its own entry only; all but the parse leave the values.
LEMMA PhaseStep ==
  ASSUME BodyInv, NEW r \in Readers, Running(r),
         NEW phase \in {"buffered", "parsing"} \cup Settled,
         readers' = [readers EXCEPT ![r].phase = phase],
         beside' = beside, caches'.json = caches.json
  PROVE  ValuesParsed' /\ OverlapSeen'
<1>1. readers[r].value = 0 /\ readers[r].phase # "got"
  BY DEF BodyInv, ValuesParsed, Running, Settled
<1>2. \A q \in Readers :
        /\ readers'[q].value = readers[q].value /\ readers'[q].kind = readers[q].kind
        /\ readers'[q].phase = IF q = r THEN phase ELSE readers[q].phase
  BY DEF BodyInv, BodyTypeOK, connectionVars
<1>3. ValuesParsed'
  BY <1>1, <1>2 DEF BodyInv, ValuesParsed
<1>4. \A q \in Readers : Parses(q)' => Parses(q)
  BY <1>2 DEF Parses, Running
<1>5. OverlapSeen'
  BY <1>2, <1>4 DEF BodyInv, OverlapSeen, Beside
<1>. QED
  BY <1>3, <1>5

LEMMA BufferSettlesStep ==
  ASSUME BodyInv, NEW r \in Readers, BufferSettles(r)
  PROVE  BodyInv'
<1>. DEFINE phase == IF opener.state = "got" /\ readers[r].kind # "buffer" THEN "buffered" ELSE opener.state
<1>1. /\ readers' = [readers EXCEPT ![r].phase = phase] /\ readers[r].phase = "waiting"
      /\ opener.state \in {"got", "tooLarge", "aborted"}
      /\ UNCHANGED connectionVars /\ body' = body /\ stream' = stream /\ opener' = opener /\ caches' = caches /\ beside' = beside
  BY DEF BufferSettles, BodyInv, BodyTypeOK, connectionVars
<1>2. phase \in {"buffered"} \cup Settled /\ Running(r)
  BY <1>1 DEF Settled, Running
<1>3. /\ phase \in {"buffered", "got"} => opener.state = "got"
      /\ phase = "tooLarge" => stream.state = "destroyed" /\ body.length > opener.limit
      /\ phase = "aborted" => stream.state = "gone" /\ opener.found # "gone" /\ opener.state = "aborted"
      /\ phase \in {"buffered", "got", "tooLarge", "aborted"}
      /\ phase = "buffered" => readers[r].kind # "buffer"
  BY <1>1 DEF BodyInv, OpenerAgrees
<1>. HIDE DEF phase
<1>4. BodyTypeOK'
  BY <1>1, <1>2 DEF BodyInv, BodyTypeOK, connectionVars
<1>5. OpenerAgrees' /\ CachesNested'
  BY <1>1 DEF BodyInv, OpenerAgrees, CachesNested
<1>6. \A q \in Readers :
        /\ readers'[q].kind = readers[q].kind /\ readers'[q].limit = readers[q].limit
        /\ readers'[q].phase = IF q = r THEN phase ELSE readers[q].phase
  BY <1>1 DEF BodyInv, BodyTypeOK, connectionVars
<1>7. PhasesEarned'
  BY <1>1, <1>3, <1>6 DEF BodyInv, PhasesEarned, TooLong
<1>8. ValuesParsed' /\ OverlapSeen'
  BY <1>1, <1>2, PhaseStep
<1>. QED
  BY <1>4, <1>5, <1>7, <1>8 DEF BodyInv

LEMMA TextSettlesStep ==
  ASSUME BodyInv, NEW r \in Readers, TextSettles(r)
  PROVE  BodyInv'
<1>. DEFINE phase == IF readers[r].kind = "text" THEN "got" ELSE "parsing"
<1>1. /\ readers' = [readers EXCEPT ![r].phase = phase] /\ readers[r].phase = "buffered"
      /\ caches' = [caches EXCEPT !.text = TRUE]
      /\ UNCHANGED connectionVars /\ body' = body /\ stream' = stream /\ opener' = opener /\ beside' = beside
  BY DEF TextSettles
<1>2. phase \in {"parsing"} \cup Settled /\ Running(r) /\ opener.state = "got"
  BY <1>1 DEF Settled, Running, BodyInv, PhasesEarned
<1>3. caches'.json = caches.json /\ caches'.text /\ caches'.buffer = caches.buffer
  BY <1>1 DEF BodyInv, BodyTypeOK, connectionVars
<1>4. /\ phase = "parsing" => readers[r].kind = "json"
      /\ phase \in {"parsing", "got"}
  BY <1>1 DEF BodyInv, BodyTypeOK, connectionVars, PhasesEarned
<1>. HIDE DEF phase
<1>5. BodyTypeOK'
  <2>1. caches' \in [buffer : BOOLEAN, text : BOOLEAN, json : 0..Calls]
    BY <1>1 DEF BodyInv, BodyTypeOK, connectionVars
  <2>2. readers' \in [Readers ->
          [kind : Kinds, limit : Limits \cup {0}, value : 0..Calls,
           phase : {"idle", "waiting", "buffered", "parsing"} \cup Settled]]
    BY <1>1, <1>2 DEF BodyInv, BodyTypeOK, connectionVars, Kinds
  <2>. QED
    BY <2>1, <2>2, <1>1 DEF BodyInv, BodyTypeOK, connectionVars, Kinds
<1>6. OpenerAgrees' /\ CachesNested'
  BY <1>1, <1>2, <1>3 DEF BodyInv, OpenerAgrees, CachesNested
<1>7. \A q \in Readers :
        /\ readers'[q].kind = readers[q].kind /\ readers'[q].limit = readers[q].limit
        /\ readers'[q].phase = IF q = r THEN phase ELSE readers[q].phase
  BY <1>1 DEF BodyInv, BodyTypeOK, connectionVars
<1>8. PhasesEarned'
  BY <1>1, <1>2, <1>4, <1>7 DEF BodyInv, PhasesEarned, TooLong
<1>9. ValuesParsed' /\ OverlapSeen'
  BY <1>1, <1>2, <1>3, PhaseStep
<1>. QED
  BY <1>5, <1>6, <1>8, <1>9 DEF BodyInv

LEMMA JsonSettlesStep ==
  ASSUME BodyInv, NEW r \in Readers, JsonSettles(r)
  PROVE  BodyInv'
<1>1. /\ readers[r].phase = "parsing" /\ readers[r].kind = "json" /\ Running(r) /\ Parses(r)
      /\ opener.state = "got" /\ readers[r].value = 0
      /\ UNCHANGED connectionVars /\ body' = body /\ stream' = stream /\ opener' = opener /\ beside' = beside
  BY DEF JsonSettles, BodyInv, PhasesEarned, ValuesParsed, Parses, Running, Settled
<1>2. CASE /\ ~body.json \/ stream.state = "cut"
          /\ readers' = [readers EXCEPT ![r].phase = "invalid"] /\ caches' = caches
  <2>1. readers' = [readers EXCEPT ![r].phase = "invalid"] /\ caches' = caches
    BY <1>2
  <2>2. BodyTypeOK'
    BY <1>1, <2>1 DEF BodyInv, BodyTypeOK, connectionVars, Settled
  <2>3. OpenerAgrees' /\ CachesNested'
    BY <1>1, <2>1 DEF BodyInv, OpenerAgrees, CachesNested
  <2>4. \A q \in Readers :
          /\ readers'[q].kind = readers[q].kind /\ readers'[q].limit = readers[q].limit
          /\ readers'[q].phase = IF q = r THEN "invalid" ELSE readers[q].phase
    BY <2>1 DEF BodyInv, BodyTypeOK, connectionVars
  <2>5. PhasesEarned'
    BY <1>1, <1>2, <2>1, <2>4 DEF BodyInv, PhasesEarned, TooLong
  <2>6. ValuesParsed' /\ OverlapSeen'
    BY <1>1, <2>1, PhaseStep DEF Settled
  <2>. QED
    BY <2>2, <2>3, <2>5, <2>6 DEF BodyInv
<1>3. CASE /\ body.json \/ stream.state = "cut"
          /\ readers' = [readers EXCEPT ![r].phase = "got", ![r].value = r]
          /\ caches' = [caches EXCEPT !.json = r]
  <2>1. /\ readers' = [readers EXCEPT ![r].phase = "got", ![r].value = r]
        /\ caches' = [caches EXCEPT !.json = r]
    BY <1>3
  <2>2. r \in 0..Calls /\ r # 0
    BY CallNumbers
  <2>3. BodyTypeOK'
    <3>1. caches' \in [buffer : BOOLEAN, text : BOOLEAN, json : 0..Calls]
      BY <2>1, <2>2 DEF BodyInv, BodyTypeOK, connectionVars
    <3>. DEFINE Entries == [kind : Kinds, limit : Limits \cup {0}, value : 0..Calls,
                            phase : {"idle", "waiting", "buffered", "parsing"} \cup Settled]
                first == [readers EXCEPT ![r].phase = "got"]
    <3>. SUFFICES caches' \in [buffer : BOOLEAN, text : BOOLEAN, json : 0..Calls]
                  /\ readers' \in [Readers -> Entries]
      BY <1>1 DEF BodyInv, BodyTypeOK, connectionVars, Kinds
    <3>2. readers \in [Readers -> Entries]
      BY DEF BodyInv, BodyTypeOK, connectionVars, Kinds
    <3>3. first \in [Readers -> Entries]
      BY <3>2 DEF Settled
    <3>4. [first EXCEPT ![r].value = r] \in [Readers -> Entries]
      <4>. HIDE DEF first
      <4>. QED
        BY <3>3, <2>2
    <3>5. readers' = [first EXCEPT ![r].value = r]
      BY <2>1, <3>2
    <3>. QED
      BY <3>1, <3>4, <3>5
  <2>4. \A q \in Readers :
          /\ readers'[q].kind = readers[q].kind /\ readers'[q].limit = readers[q].limit
          /\ readers'[q].phase = IF q = r THEN "got" ELSE readers[q].phase
          /\ readers'[q].value = IF q = r THEN r ELSE readers[q].value
    BY <2>1 DEF BodyInv, BodyTypeOK, connectionVars
  <2>5. caches'.json = r /\ caches'.buffer = caches.buffer /\ caches'.text = caches.text
    <3>1. caches \in [buffer : BOOLEAN, text : BOOLEAN, json : 0..Calls]
      BY DEF BodyInv, BodyTypeOK, connectionVars
    <3>. QED
      BY <2>1, <3>1
  <2>6. OpenerAgrees' /\ CachesNested'
    <3>1. caches.text
      BY <1>1 DEF BodyInv, PhasesEarned
    <3>2. CachesNested'
      BY <3>1, <1>1, <1>3, <2>5 DEF BodyInv, CachesNested
    <3>3. OpenerAgrees'
      BY <1>1 DEF BodyInv, OpenerAgrees
    <3>. QED
      BY <3>2, <3>3
  <2>7. PhasesEarned'
    BY <1>1, <2>4, <2>5 DEF BodyInv, PhasesEarned, TooLong
  <2>8. ValuesParsed'
    <3>1. ASSUME NEW q \in Readers, readers'[q].value # 0
          PROVE  /\ readers'[q].phase = "got" /\ caches'.json # 0
                 /\ readers'[q].value \in Readers
                 /\ readers'[readers'[q].value].value = readers'[q].value
      <4>1. CASE q = r
        BY <2>2, <2>4, <2>5, <4>1
      <4>2. CASE q # r
        <5>1. /\ readers[q].phase = "got" /\ readers[q].value \in Readers
              /\ readers[readers[q].value].value = readers[q].value /\ readers[q].value # 0
              /\ readers'[q].value = readers[q].value /\ readers'[q].phase = "got"
          BY <2>4, <3>1, <4>2 DEF BodyInv, ValuesParsed
        <5>2. readers[q].value # r
          BY <1>1, <5>1
        <5>. QED
          BY <2>2, <2>4, <2>5, <5>1, <5>2
      <4>. QED
        BY <4>1, <4>2
    <3>. QED
      BY <2>2, <2>4, <2>5, <3>1 DEF ValuesParsed
  <2>9. \A q \in Readers : (Parses(q)' => q # r /\ Parses(q)) /\ (readers'[q].value = q => q = r \/ readers[q].value = q)
    BY <2>4 DEF Parses, Running, Settled
  <2>10. OverlapSeen'
    BY <1>1, <2>4, <2>9 DEF BodyInv, OverlapSeen, Beside
  <2>. QED
    BY <2>3, <2>6, <2>7, <2>8, <2>10 DEF BodyInv
<1>. QED
  BY <1>2, <1>3 DEF JsonSettles

-----------------------------------------------------------------------------
(* The invariant, and what it gives.                                       *)

LEMMA BodyInvStep == BodyInv /\ [BodyNext]_bodyVars => BodyInv'
<1>. SUFFICES ASSUME BodyInv, [BodyNext]_bodyVars PROVE BodyInv'
  OBVIOUS
<1>1. CASE \E r \in Readers, kind \in {"buffer", "text", "json"}, limit \in Limits : Reads(r, kind, limit)
  BY <1>1, ReadsStep DEF Kinds
<1>2. CASE Chunk \/ StreamEnds \/ ResponseEnds \/ ThrownAway \/ Goes
  BY <1>2, ChunkStep, StreamEndsStep, ResponseEndsStep, ThrownAwayStep, GoesStep
<1>3. CASE \E r \in Readers : GoesOn(r)
  BY <1>3, BufferSettlesStep, TextSettlesStep, JsonSettlesStep DEF GoesOn
<1>4. CASE UNCHANGED bodyVars
  BY <1>4 DEF bodyVars, connectionVars, BodyInv, BodyTypeOK, OpenerAgrees, CachesNested, PhasesEarned, TooLong,
              ValuesParsed, OverlapSeen, Parses, Running, Beside
<1>. QED
  BY <1>1, <1>2, <1>3, <1>4 DEF BodyNext

LEMMA BodyInvAlways == BodySpec => []BodyInv
BY InitBodyInv, BodyInvStep, PTL DEF BodySpec

\* Every variable of a body keeps its type, for any number of calls and any length.
THEOREM BodyTyped == BodySpec => []BodyTypeOK
<1>1. BodyInv => BodyTypeOK
  BY DEF BodyInv
<1>. QED
  BY <1>1, BodyInvAlways, PTL

\* Two objects are those of two calls that parsed, and such calls ran at a time.
LEMMA ObjectsExplained == BodyInv => OneObject
<1>. SUFFICES ASSUME BodyInv, NEW r \in Readers, NEW s \in Readers,
                     readers[r].value # 0, readers[s].value # 0, readers[r].value # readers[s].value
              PROVE  beside[readers[r].value] # {} /\ beside[readers[s].value] # {}
  BY DEF OneObject
<1>. DEFINE v == readers[r].value
            w == readers[s].value
<1>1. v \in Readers /\ w \in Readers /\ readers[v].value = v /\ readers[w].value = w /\ v # w
  BY DEF BodyInv, ValuesParsed
<1>. HIDE DEF v, w
<1>2. Beside(v, w)
  BY <1>1 DEF BodyInv, OverlapSeen
<1>. QED
  BY <1>2 DEF Beside, v, w

\* What a call is told is explained by the body, its limit and that of the call that opened
\* the stream, and different objects only by calls of json() that ran at a time.
THEOREM BodyIsExplained == BodySpec => []BodyExplained
<1>1. BodyInv => BodyExplained
  <2>. SUFFICES ASSUME BodyInv, NEW r \in Readers
                PROVE  /\ readers[r].phase = "got" =>
                            /\ stream.received <= opener.limit
                            /\ \/ stream = [state |-> "ended", received |-> body.length]
                               \/ stream.state = "cut" /\ opener.found = "answered"
                       /\ readers[r].phase = "tooLarge" =>
                            \/ TooLong(readers[r].limit)
                            \/ stream.state = "destroyed" /\ body.length > opener.limit
                       /\ readers[r].phase = "aborted" => stream.state = "gone" /\ opener.found # "gone"
                       /\ readers[r].phase = "invalid" =>
                            readers[r].kind = "json" /\ (~body.json \/ stream.state = "cut")
    BY ObjectsExplained DEF BodyExplained
  <2>. QED
    BY DEF BodyInv, PhasesEarned, OpenerAgrees
<1>. QED
  BY <1>1, BodyInvAlways, PTL

-----------------------------------------------------------------------------
(* StaticCache: a static service answers with a content no older than the  *)
(* file it looked at.                                                      *)

Entry == [path : Files, mtime : 0..MaxWrites, size : Sizes \cup {0}, buffer : Versions]
Phases == {"idle", "stat", "statIndex", "found", "reading", "streaming",
           "sent", "next", "failed", "400", "403", "404"}
Request == [for : Files \cup Directories \cup {"none"}, stat : Versions, sent : Versions,
            how : {"none", "buffer", "stream"}, phase : Phases]

\* The files that are somewhere: on the disk, in the cache, or seen or sent by a request.
Seen ==
  {NoFile} \cup {disk[f] : f \in Files} \cup {smallFiles[i].buffer : i \in DOMAIN smallFiles}
  \cup {requests[r].stat : r \in Requests} \cup {requests[r].sent : r \in Requests}

\* A write makes one version, and the clock does not go back.
History ==
  /\ clock.mtime <= clock.writes
  /\ \A v \in Seen : v.version <= clock.writes /\ v.mtime <= clock.mtime
  /\ \A v, w \in Seen : v.version <= w.version => v.mtime <= w.mtime
  /\ \A v, w \in Seen : v.version = w.version => v = w

\* While a request waits for the content, the disk has no older file than stat saw.
FilesAhead ==
  \A r \in Requests : requests[r].phase \in {"found", "reading", "streaming"} =>
    LET path == requests[r].for IN
    /\ path \in Files
    /\ disk[path] = NoFile \/ disk[path].version >= requests[r].stat.version

\* One request for what was sent, as in FileAnswerRight.
AnswerRight(r) ==
  LET sent == requests[r].sent
      stat == requests[r].stat
  IN /\ sent.version >= stat.version \/ Fresh(sent, stat)
     /\ sent.size = DeclaredLength(r) \/ sent.version > stat.version

AnswersRight == \A r \in Requests : requests[r].phase = "sent" => AnswerRight(r)

\* A buffer is kept under its own size, and was written no earlier than the stat it is under.
BufferKept(entry) == entry.buffer.size = entry.size /\ entry.mtime <= entry.buffer.mtime

CacheRight ==
  /\ Len(smallFiles) <= CacheLimit
  /\ \A i, j \in DOMAIN smallFiles : i # j => smallFiles[i].path # smallFiles[j].path
  /\ \A i \in DOMAIN smallFiles : BufferKept(smallFiles[i])

StaticInv == StaticTypeOK /\ History /\ FilesAhead /\ AnswersRight /\ CacheRight

LEMMA NoFileTyped == NoFile \in Versions
BY StaticAssumption DEF NoFile, Versions

LEMMA VersionsTyped ==
  \A v \in Versions : v.version \in Nat /\ v.mtime \in Nat
BY StaticAssumption DEF Versions

LEMMA SeenTyped == StaticTypeOK => Seen \subseteq Versions
<1>. SUFFICES ASSUME StaticTypeOK PROVE Seen \subseteq Versions
  OBVIOUS
<1>1. \A f \in Files : disk[f] \in Versions
  BY DEF StaticTypeOK
<1>2. \A r \in Requests : requests[r].stat \in Versions /\ requests[r].sent \in Versions
  BY DEF StaticTypeOK
<1>3. \A i \in DOMAIN smallFiles : smallFiles[i].buffer \in Versions
  <2>1. smallFiles \in Seq(Entry)
    BY DEF StaticTypeOK, Entry
  <2>2. \A i \in DOMAIN smallFiles : smallFiles[i] \in Entry
    BY <2>1
  <2>. QED
    BY <2>2 DEF Entry
<1>. QED
  BY <1>1, <1>2, <1>3, NoFileTyped DEF Seen

LEMMA InitStaticInv == StaticInit => StaticInv
<1>. SUFFICES ASSUME StaticInit PROVE StaticInv
  OBVIOUS
<1>1. StaticTypeOK
  BY NoFileTyped, StaticAssumption DEF StaticInit, StaticTypeOK, NotYet
<1>2. Seen = {NoFile}
  <2>1. \A r \in Requests : requests[r].stat = NoFile /\ requests[r].sent = NoFile
    BY DEF StaticInit, NotYet
  <2>2. \A f \in Files : disk[f] = NoFile
    BY DEF StaticInit
  <2>3. DOMAIN smallFiles = {}
    BY DEF StaticInit
  <2>. QED
    BY <2>1, <2>2, <2>3 DEF Seen
<1>3. History
  BY <1>2 DEF History, StaticInit, NoFile
<1>4. FilesAhead /\ AnswersRight
  BY DEF StaticInit, NotYet, FilesAhead, AnswersRight
<1>5. CacheRight
  BY StaticAssumption DEF StaticInit, CacheRight
<1>. QED
  BY <1>1, <1>3, <1>4, <1>5 DEF StaticInv

-----------------------------------------------------------------------------
(* What steps have in common.                                              *)

\* Who only looks at files that are there leaves the history as it was.
LEMMA HistoryKept == History /\ Seen' \subseteq Seen /\ clock' = clock => History'
BY DEF History

\* A request that goes on without a content leaves the rest to the others.
LEMMA MovesOn ==
  ASSUME StaticInv, NEW r \in Requests,
         requests' \in [Requests -> Request],
         \A q \in Requests \ {r} : requests'[q] = requests[q],
         requests'[r].phase # "sent", requests'[r].stat \in Seen, requests'[r].sent = requests[r].sent,
         requests'[r].phase \in {"found", "reading", "streaming"} =>
           LET path == requests'[r].for IN
           path \in Files /\ (disk[path] = NoFile \/ disk[path].version >= requests'[r].stat.version),
         UNCHANGED <<service, disk, clock, smallFiles>>
  PROVE  StaticInv'
<1>1. StaticTypeOK'
  BY DEF StaticInv, StaticTypeOK, Request, Phases
<1>2. Seen' \subseteq Seen
  <2>1. \A q \in Requests : requests'[q].stat \in Seen /\ requests'[q].sent \in Seen
    BY DEF Seen
  <2>. QED
    BY <2>1 DEF Seen
<1>3. History'
  BY <1>2, HistoryKept DEF StaticInv
<1>4. FilesAhead'
  BY DEF StaticInv, FilesAhead
<1>5. AnswersRight'
  BY DEF StaticInv, AnswersRight, AnswerRight, DeclaredLength
<1>6. CacheRight'
  BY DEF StaticInv, CacheRight
<1>. QED
  BY <1>1, <1>3, <1>4, <1>5, <1>6 DEF StaticInv

\* A request that sends a content that is right leaves the history and the disk.
LEMMA AnswerSent ==
  ASSUME StaticInv, NEW r \in Requests, NEW content \in Seen, NEW how \in {"buffer", "stream"},
         Sends(r, content, how),
         content.version >= requests[r].stat.version \/ Fresh(content, requests[r].stat),
         how = "stream" => content.version >= requests[r].stat.version,
         UNCHANGED <<service, disk, clock>>,
         smallFiles' \in Seq(Entry), CacheRight',
         \A i \in DOMAIN smallFiles' : smallFiles'[i].buffer \in Seen
  PROVE  StaticInv'
<1>1. requests \in [Requests -> Request] /\ content \in Versions
  BY SeenTyped DEF StaticInv, StaticTypeOK, Request, Phases
<1>2. requests' = [requests EXCEPT ![r] = [@ EXCEPT !.phase = "sent", !.sent = content, !.how = how]]
  BY <1>1 DEF Sends, Request
<1>3. /\ requests' \in [Requests -> Request]
      /\ \A q \in Requests \ {r} : requests'[q] = requests[q]
      /\ requests'[r].for = requests[r].for /\ requests'[r].phase = "sent"
      /\ requests'[r].stat = requests[r].stat
      /\ requests'[r].sent = content /\ requests'[r].how = how
  BY <1>1, <1>2 DEF Request, Phases
<1>4. StaticTypeOK'
  BY <1>3 DEF StaticInv, StaticTypeOK, Request, Phases, Entry
<1>5. Seen' \subseteq Seen
  BY <1>3 DEF Seen
<1>6. History'
  BY <1>5, HistoryKept DEF StaticInv
<1>7. FilesAhead'
  BY <1>3 DEF StaticInv, FilesAhead
<1>8. AnswerRight(r)'
  <2>1. requests[r].stat \in Seen
    BY DEF Seen
  <2>2. content.version = requests[r].stat.version => content = requests[r].stat
    BY <2>1 DEF StaticInv, History
  <2>3. content.version \in Nat /\ requests[r].stat.version \in Nat
    BY <1>1, <2>1, VersionsTyped, SeenTyped DEF StaticInv
  <2>4. content.size = DeclaredLength(r)' \/ content.version > requests[r].stat.version
    BY <1>3, <2>2, <2>3 DEF DeclaredLength
  <2>. QED
    BY <1>3, <2>4 DEF AnswerRight, Fresh
<1>9. AnswersRight'
  BY <1>3, <1>8 DEF StaticInv, AnswersRight, AnswerRight, DeclaredLength
<1>. QED
  BY <1>4, <1>6, <1>7, <1>9 DEF StaticInv

-----------------------------------------------------------------------------
(* The disk.                                                               *)

LEMMA DeletesStep ==
  ASSUME StaticInv, NEW f \in Files, Deletes(f)
  PROVE  StaticInv'
<1>1. /\ disk' = [disk EXCEPT ![f] = NoFile]
      /\ UNCHANGED <<service, clock, smallFiles, requests>>
  BY DEF Deletes
<1>2. /\ disk' \in [Files -> Versions]
      /\ \A g \in Files : disk'[g] = IF g = f THEN NoFile ELSE disk[g]
  BY <1>1, NoFileTyped DEF StaticInv, StaticTypeOK
<1>3. StaticTypeOK'
  BY <1>1, <1>2 DEF StaticInv, StaticTypeOK
<1>4. Seen' \subseteq Seen
  BY <1>1, <1>2 DEF Seen
<1>5. History'
  BY <1>1, <1>4, HistoryKept DEF StaticInv
<1>6. FilesAhead'
  BY <1>1, <1>2 DEF StaticInv, FilesAhead
<1>7. AnswersRight' /\ CacheRight'
  BY <1>1 DEF StaticInv, AnswersRight, AnswerRight, DeclaredLength, CacheRight
<1>. QED
  BY <1>3, <1>5, <1>6, <1>7 DEF StaticInv

LEMMA WritesStep ==
  ASSUME StaticInv, NEW f \in Files, Writes(f)
  PROVE  StaticInv'
<1>1. PICK size \in SizesOf[f], tick \in {0, 1} :
        /\ clock' = [mtime |-> clock.mtime + tick, writes |-> clock.writes + 1]
        /\ disk' = [disk EXCEPT ![f] =
             [version |-> clock.writes + 1, size |-> size, mtime |-> clock.mtime + tick]]
  BY DEF Writes
<1>. DEFINE new == [version |-> clock.writes + 1, size |-> size, mtime |-> clock.mtime + tick]
<1>2. clock.writes < MaxWrites /\ UNCHANGED <<service, smallFiles, requests>>
  BY DEF Writes
<1>3. /\ clock.mtime \in Nat /\ clock.writes \in 0..MaxWrites /\ clock.mtime <= clock.writes
      /\ clock.writes \in Nat /\ MaxWrites \in Nat
  BY StaticAssumption DEF StaticInv, StaticTypeOK, History
<1>4. /\ clock'.mtime = clock.mtime + tick /\ clock'.writes = clock.writes + 1
      /\ clock' \in [mtime : Nat, writes : 0..MaxWrites] /\ clock'.mtime <= clock'.writes
  BY <1>1, <1>2, <1>3
<1>5. new \in Versions
  <2>1. size \in Sizes
    BY StaticAssumption DEF Sizes
  <2>2. clock.writes + 1 \in 0..MaxWrites /\ clock.mtime + tick \in 0..MaxWrites
    BY <1>2, <1>3
  <2>. QED
    BY <2>1, <2>2 DEF Versions
<1>6. /\ new.version = clock'.writes /\ new.mtime = clock'.mtime
  BY <1>4
<1>7. disk' = [disk EXCEPT ![f] = new]
  BY <1>1
<1>. HIDE DEF new
<1>8. disk' \in [Files -> Versions] /\ \A g \in Files : disk'[g] = IF g = f THEN new ELSE disk[g]
  BY <1>5, <1>7 DEF StaticInv, StaticTypeOK
<1>9. StaticTypeOK'
  BY <1>2, <1>4, <1>8 DEF StaticInv, StaticTypeOK
<1>10. Seen' \subseteq Seen \cup {new}
  BY <1>2, <1>8 DEF Seen
<1>11. \A v \in Seen : /\ v.version <= clock.writes /\ v.version < new.version /\ v.mtime <= new.mtime
                       /\ v.version <= clock'.writes /\ v.mtime <= clock'.mtime
                       /\ v.version \in Nat
  <2>1. \A v \in Seen : v.version \in Nat /\ v.mtime \in Nat /\ v.version <= clock.writes /\ v.mtime <= clock.mtime
    BY VersionsTyped, SeenTyped DEF StaticInv, History
  <2>2. tick \in {0, 1}
    OBVIOUS
  <2>. QED
    BY <2>1, <2>2, <1>3, <1>4, <1>6
<1>12. new.version \in Nat /\ new.mtime \in Nat
  BY <1>5, VersionsTyped
<1>13. History'
  <2>1. \A v \in Seen' : v.version <= clock'.writes /\ v.mtime <= clock'.mtime
    BY <1>6, <1>10, <1>11, <1>12
  <2>2. ASSUME NEW v \in Seen', NEW w \in Seen'
        PROVE  (v.version <= w.version => v.mtime <= w.mtime) /\ (v.version = w.version => v = w)
    <3>1. CASE v \in Seen /\ w \in Seen
      BY <3>1 DEF StaticInv, History
    <3>2. CASE v \in Seen /\ w = new
      BY <3>2, <1>11, <1>12
    <3>3. CASE v = new /\ w \in Seen
      BY <3>3, <1>11, <1>12
    <3>4. CASE v = new /\ w = new
      BY <3>4, <1>12
    <3>. QED
      BY <3>1, <3>2, <3>3, <3>4, <1>10
  <2>. QED
    BY <2>1, <2>2, <1>4 DEF History
<1>14. FilesAhead'
  <2>. SUFFICES ASSUME NEW r \in Requests, requests[r].phase \in {"found", "reading", "streaming"}
                PROVE  LET path == requests[r].for IN
                       path \in Files /\ (disk'[path] = NoFile \/ disk'[path].version >= requests[r].stat.version)
    BY <1>2 DEF FilesAhead
  <2>1. requests[r].for \in Files
        /\ (disk[requests[r].for] = NoFile \/ disk[requests[r].for].version >= requests[r].stat.version)
    BY DEF StaticInv, FilesAhead
  <2>2. requests[r].stat \in Seen
    BY DEF Seen
  <2>3. new.version >= requests[r].stat.version
    BY <2>2, <1>11, <1>12
  <2>. QED
    BY <2>1, <2>3, <1>8
<1>15. AnswersRight' /\ CacheRight'
  BY <1>2 DEF StaticInv, AnswersRight, AnswerRight, DeclaredLength, CacheRight
<1>. QED
  BY <1>9, <1>13, <1>14, <1>15 DEF StaticInv

-----------------------------------------------------------------------------
(* A request looks for its file.                                           *)

\* A step that only changes the phase of a request, to one in which it waits for no content.
LEMMA PhaseMoves ==
  ASSUME StaticInv, NEW r \in Requests, NEW phase \in Phases \ {"sent"}, Step(r, phase),
         phase \in {"found", "reading", "streaming"} =>
           requests[r].phase \in {"found", "reading", "streaming"}
  PROVE  StaticInv'
<1>1. requests \in [Requests -> Request]
  BY DEF StaticInv, StaticTypeOK, Request, Phases
<1>2. /\ requests' \in [Requests -> Request]
      /\ \A q \in Requests \ {r} : requests'[q] = requests[q]
      /\ requests'[r].for = requests[r].for /\ requests'[r].phase = phase
      /\ requests'[r].stat = requests[r].stat /\ requests'[r].sent = requests[r].sent
  BY <1>1 DEF Step, Request
<1>3. requests[r].stat \in Seen
  BY DEF Seen
<1>4. phase \in {"found", "reading", "streaming"} =>
        /\ requests[r].for \in Files
        /\ disk[requests[r].for] = NoFile \/ disk[requests[r].for].version >= requests[r].stat.version
  BY DEF StaticInv, FilesAhead
<1>. QED
  BY <1>2, <1>3, <1>4, MovesOn DEF Step

LEMMA PassedOnPhase ==
  ASSUME NEW error \in {"400", "403", "404"}
  PROVE  PassedOn(error) \in Phases \ {"sent", "found", "reading", "streaming"}
BY DEF PassedOn, Phases

LEMMA HandleStep ==
  ASSUME StaticInv, NEW r \in Requests, Handle(r)
  PROVE  StaticInv'
<1>1. requests \in [Requests -> Request] /\ requests[r].stat \in Seen
  BY DEF StaticInv, StaticTypeOK, Request, Phases, Seen
<1>2. CASE \E path \in Files \cup Directories :
             requests' = [requests EXCEPT ![r].for = path, ![r].phase = "stat"]
  <2>1. PICK path \in Files \cup Directories :
          requests' = [requests EXCEPT ![r].for = path, ![r].phase = "stat"]
    BY <1>2
  <2>2. /\ requests' \in [Requests -> Request]
        /\ \A q \in Requests \ {r} : requests'[q] = requests[q]
        /\ requests'[r].phase = "stat"
        /\ requests'[r].stat = requests[r].stat /\ requests'[r].sent = requests[r].sent
    BY <1>1, <2>1 DEF Request, Phases
  <2>. QED
    BY <1>1, <2>2, MovesOn DEF Handle
<1>3. CASE \E why \in Unsafe :
             Screened(why) # "stat" /\ requests' = [requests EXCEPT ![r].phase = Screened(why)]
  <2>1. PICK why \in Unsafe :
          Screened(why) # "stat" /\ requests' = [requests EXCEPT ![r].phase = Screened(why)]
    BY <1>3
  <2>2. Screened(why) \in Phases \ {"sent", "found", "reading", "streaming"}
    <3>1. Screened(why) \in {PassedOn("400"), "403", PassedOn("404"), PassedOn("403"), "stat"}
      BY DEF Screened
    <3>2. {"403", "stat"} \subseteq Phases \ {"sent", "found", "reading", "streaming"}
      BY DEF Phases
    <3>. QED
      BY <3>1, <3>2, PassedOnPhase
  <2>. DEFINE phase == Screened(why)
  <2>3. Step(r, phase)
    BY <2>1 DEF Handle, Step
  <2>. QED
    BY <2>2, <2>3, PhaseMoves
<1>. QED
  BY <1>2, <1>3 DEF Handle

LEMMA StatDirectoryStep ==
  ASSUME StaticInv, NEW r \in Requests, StatDirectory(r)
  PROVE  StaticInv'
<1>1. requests \in [Requests -> Request] /\ requests[r].stat \in Seen
  BY DEF StaticInv, StaticTypeOK, Request, Phases, Seen
<1>2. IndexOf[requests[r].for] \in Files \cup Directories
  BY StaticAssumption DEF StatDirectory
<1>. DEFINE path == IndexOf[requests[r].for]
<1>3. /\ requests' = [requests EXCEPT ![r].phase = "statIndex", ![r].for = path]
      /\ UNCHANGED <<service, disk, clock, smallFiles>>
  BY DEF StatDirectory
<1>. HIDE DEF path
<1>4. /\ requests' \in [Requests -> Request]
      /\ \A q \in Requests \ {r} : requests'[q] = requests[q]
      /\ requests'[r].phase = "statIndex"
      /\ requests'[r].stat = requests[r].stat /\ requests'[r].sent = requests[r].sent
  BY <1>1, <1>2, <1>3 DEF Request, Phases, path
<1>. QED
  BY <1>1, <1>3, <1>4, MovesOn

LEMMA StatFileStep ==
  ASSUME StaticInv, NEW r \in Requests, StatFile(r)
  PROVE  StaticInv'
<1>1. CASE Step(r, PassedOn("404"))
  <2>. DEFINE phase == PassedOn("404")
  <2>1. phase \in Phases \ {"sent", "found", "reading", "streaming"}
    BY PassedOnPhase
  <2>. QED
    BY <1>1, <2>1, PhaseMoves
<1>2. CASE /\ requests[r].for \in Files
           /\ requests' = [requests EXCEPT ![r].phase = "found", ![r].stat = disk[requests[r].for]]
           /\ UNCHANGED <<service, disk, clock, smallFiles>>
  <2>1. requests \in [Requests -> Request] /\ disk[requests[r].for] \in Seen
    BY <1>2 DEF StaticInv, StaticTypeOK, Request, Phases, Seen
  <2>. DEFINE file == disk[requests[r].for]
  <2>2. file \in Versions /\ file.version >= file.version
    BY <2>1, SeenTyped, VersionsTyped DEF StaticInv
  <2>3. requests' = [requests EXCEPT ![r].phase = "found", ![r].stat = file]
    BY <1>2
  <2>4. /\ requests' \in [Requests -> Request]
        /\ \A q \in Requests \ {r} : requests'[q] = requests[q]
        /\ requests'[r].phase = "found" /\ requests'[r].for = requests[r].for
        /\ requests'[r].stat = file /\ requests'[r].sent = requests[r].sent
    <3>. HIDE DEF file
    <3>. QED
      BY <2>1, <2>2, <2>3 DEF Request, Phases
  <2>. QED
    BY <1>2, <2>1, <2>2, <2>4, MovesOn
<1>. QED
  BY <1>1, <1>2 DEF StatFile

LEMMA ReadBeginsStep ==
  ASSUME StaticInv, NEW r \in Requests, ReadBegins(r)
  PROVE  StaticInv'
BY PhaseMoves DEF ReadBegins, Phases

LEMMA StreamBeginsStep ==
  ASSUME StaticInv, NEW r \in Requests, StreamBegins(r)
  PROVE  StaticInv'
BY PhaseMoves DEF StreamBegins, Phases

-----------------------------------------------------------------------------
(* The content is sent.                                                    *)

LEMMA StreamOpensStep ==
  ASSUME StaticInv, NEW r \in Requests, StreamOpens(r)
  PROVE  StaticInv'
<1>1. CASE Step(r, "failed")
  BY <1>1, PhaseMoves DEF Phases
<1>2. CASE /\ disk[requests[r].for] # NoFile
           /\ Sends(r, disk[requests[r].for], "stream")
           /\ UNCHANGED <<service, disk, clock, smallFiles>>
  <2>1. requests[r].for \in Files /\ disk[requests[r].for].version >= requests[r].stat.version
    BY <1>2 DEF StreamOpens, StaticInv, FilesAhead
  <2>2. disk[requests[r].for] \in Seen
    BY <2>1 DEF Seen
  <2>3. smallFiles' \in Seq(Entry) /\ CacheRight'
    BY <1>2 DEF StaticInv, StaticTypeOK, Entry, CacheRight
  <2>4. \A i \in DOMAIN smallFiles' : smallFiles'[i].buffer \in Seen
    BY <1>2 DEF Seen
  <2>. QED
    BY <1>2, <2>1, <2>2, <2>3, <2>4, AnswerSent
<1>. QED
  BY <1>1, <1>2 DEF StreamOpens

\* At(path) is the place of the path's entry in the cache, of which there is one, or 0.
LEMMA AtFinds ==
  ASSUME StaticInv, NEW path \in Files
  PROVE  \/ At(path) \in DOMAIN smallFiles /\ smallFiles[At(path)].path = path
         \/ At(path) = 0 /\ \A j \in DOMAIN smallFiles : smallFiles[j].path # path
<1>. DEFINE I == {j \in 1..Len(smallFiles) : smallFiles[j].path = path}
<1>1. At(path) = IF I # {} THEN CHOOSE x \in I : \A y \in I : x =< y ELSE 0
  BY DEF At, SelectInSeq, Min
<1>2. smallFiles \in Seq(Entry) /\ DOMAIN smallFiles = 1..Len(smallFiles) /\ Len(smallFiles) \in Nat
  BY DEF StaticInv, StaticTypeOK, Entry
<1>3. CASE I = {}
  BY <1>1, <1>2, <1>3
<1>4. CASE I # {}
  <2>1. PICK i \in I : TRUE
    BY <1>4
  <2>2. i \in DOMAIN smallFiles /\ i \in Nat /\ smallFiles[i].path = path
    BY <1>2, <2>1
  <2>3. I = {i}
    BY <1>2, <2>1, <2>2 DEF StaticInv, CacheRight
  <2>4. \A y \in {i} : i =< y
    BY <2>2
  <2>5. (CHOOSE x \in {i} : \A y \in {i} : x =< y) = i
    BY <2>4
  <2>. QED
    BY <1>1, <1>4, <2>2, <2>3, <2>5
<1>. QED
  BY <1>3, <1>4

\* The sequence that a Map becomes when an entry is deleted and set again.
LEMMA MovedToEnd ==
  ASSUME NEW S, NEW s \in Seq(S), NEW i \in DOMAIN s
  PROVE  LET t == Append(RemoveAt(s, i), s[i]) IN
         /\ t \in Seq(S) /\ Len(t) = Len(s)
         /\ \A j \in DOMAIN t : t[j] = s[IF j < i THEN j ELSE IF j < Len(s) THEN j + 1 ELSE i]
<1>. DEFINE n == Len(s)
            head == SubSeq(s, 1, i - 1)
            tail == SubSeq(s, i + 1, n)
            rest == head \o tail
            t == Append(rest, s[i])
<1>1. n \in Nat /\ i \in 1..n /\ s[i] \in S
  OBVIOUS
<1>2. head \in Seq(S) /\ Len(head) = i - 1 /\ \A j \in 1..(i - 1) : head[j] = s[j]
  BY <1>1
<1>3. tail \in Seq(S) /\ Len(tail) = n - i /\ \A j \in 1..(n - i) : tail[j] = s[j + i]
  BY <1>1
<1>. HIDE DEF head, tail
<1>4. /\ rest \in Seq(S) /\ Len(rest) = n - 1
      /\ \A j \in 1..(n - 1) : rest[j] = IF j < i THEN s[j] ELSE s[j + 1]
  <2>0. /\ rest \in Seq(S) /\ Len(rest) = (i - 1) + (n - i)
        /\ \A j \in 1..((i - 1) + (n - i)) :
             rest[j] = IF j <= i - 1 THEN head[j] ELSE tail[j - (i - 1)]
    <3>1. /\ rest \in Seq(S) /\ Len(rest) = Len(head) + Len(tail)
          /\ \A j \in 1..(Len(head) + Len(tail)) :
               rest[j] = IF j <= Len(head) THEN head[j] ELSE tail[j - Len(head)]
      <4>1. head \in Seq(S) /\ tail \in Seq(S)
        BY <1>2, <1>3
      <4>. QED
        BY <4>1, ConcatProperties, ZenonT(20)
    <3>2. Len(head) = i - 1 /\ Len(tail) = n - i
      BY <1>2, <1>3
    <3>. HIDE DEF rest
    <3>. QED
      BY <3>1, <3>2
  <2>a. (i - 1) + (n - i) = n - 1
    BY <1>1
  <2>. HIDE DEF rest
  <2>1. rest \in Seq(S) /\ Len(rest) = n - 1
    BY <2>0, <2>a
  <2>2. ASSUME NEW j \in 1..(n - 1)
        PROVE  rest[j] = IF j < i THEN s[j] ELSE s[j + 1]
    <3>1. CASE j < i
      BY <3>1, <1>1, <1>2, <2>0, <2>a
    <3>2. CASE ~(j < i)
      <4>1. rest[j] = tail[j - (i - 1)]
        BY <3>2, <1>1, <2>0, <2>a
      <4>2. j - (i - 1) \in 1..(n - i) /\ (j - (i - 1)) + i = j + 1
        BY <3>2, <1>1
      <4>3. rest[j] = s[j + 1]
        BY <4>1, <4>2, <1>3
      <4>. QED
        BY <4>3, <3>2, <1>1
    <3>. QED
      BY <3>1, <3>2, <1>1
  <2>. QED
    BY <2>1, <2>2
<1>. HIDE DEF rest
<1>5. /\ t \in Seq(S) /\ Len(t) = n /\ t[n] = s[i]
      /\ \A j \in 1..(n - 1) : t[j] = rest[j]
  BY <1>1, <1>4
<1>6. \A j \in 1..n : t[j] = s[IF j < i THEN j ELSE IF j < n THEN j + 1 ELSE i]
  <2>. HIDE DEF t
  <2>1. ASSUME NEW j \in 1..n
        PROVE  t[j] = s[IF j < i THEN j ELSE IF j < n THEN j + 1 ELSE i]
    <3>1. CASE j = n
      BY <3>1, <1>1, <1>5
    <3>2. CASE j # n
      BY <3>2, <1>1, <1>4, <1>5
    <3>. QED
      BY <3>1, <3>2
  <2>. QED
    BY <2>1
<1>7. Append(RemoveAt(s, i), s[i]) = t
  BY DEF RemoveAt, rest, head, tail
<1>8. DOMAIN t = 1..n
  BY <1>5
<1>. QED
  BY <1>5, <1>6, <1>7, <1>8

LEMMA ServeCachedStep ==
  ASSUME StaticInv, NEW r \in Requests, ServeCached(r)
  PROVE  StaticInv'
<1>. DEFINE path == requests[r].for
            stat == requests[r].stat
            i == At(path)
            entry == smallFiles[i]
            moved == [j \in DOMAIN smallFiles |->
                        IF j < i THEN j ELSE IF j < Len(smallFiles) THEN j + 1 ELSE i]
<1>1. /\ i # 0 /\ Fresh(entry, stat) /\ Sends(r, entry.buffer, "buffer")
      /\ smallFiles' = Append(RemoveAt(smallFiles, i), entry)
      /\ path \in Files /\ UNCHANGED <<service, disk, clock>>
  BY DEF ServeCached, IsCached, StaticInv, FilesAhead
<1>2. i \in DOMAIN smallFiles /\ smallFiles \in Seq(Entry) /\ Len(smallFiles) \in Nat
  BY <1>1, AtFinds DEF StaticInv, StaticTypeOK, Entry
<1>3. /\ smallFiles' \in Seq(Entry) /\ Len(smallFiles') = Len(smallFiles)
      /\ \A j \in DOMAIN smallFiles' : smallFiles'[j] = smallFiles[moved[j]]
  <2>. HIDE DEF i
  <2>. QED
    BY <1>1, <1>2, MovedToEnd
<1>4. /\ DOMAIN smallFiles' = DOMAIN smallFiles
      /\ \A j \in DOMAIN smallFiles : moved[j] \in DOMAIN smallFiles
      /\ \A j, k \in DOMAIN smallFiles : j # k => moved[j] # moved[k]
  <2>. HIDE DEF i
  <2>. QED
    BY <1>2, <1>3
<1>. HIDE DEF moved
<1>5. CacheRight'
  BY <1>3, <1>4 DEF StaticInv, CacheRight, BufferKept
<1>6. \A j \in DOMAIN smallFiles' : smallFiles'[j].buffer \in Seen
  BY <1>3, <1>4 DEF Seen
<1>7. entry.buffer \in Seen /\ stat \in Seen
  BY <1>2 DEF Seen
<1>8. entry.buffer.version >= stat.version \/ Fresh(entry.buffer, stat)
  <2>. DEFINE buffer == entry.buffer
  <2>1. buffer.size = stat.size /\ stat.mtime <= buffer.mtime
    BY <1>1, <1>2 DEF StaticInv, CacheRight, BufferKept, Fresh
  <2>2. buffer.version <= stat.version => buffer.mtime <= stat.mtime
    BY <1>7 DEF StaticInv, History
  <2>3. buffer \in Versions /\ stat \in Versions
    BY <1>7, SeenTyped DEF StaticInv
  <2>. HIDE DEF buffer, stat
  <2>4. /\ buffer.version \in Nat /\ buffer.mtime \in Nat
        /\ stat.version \in Nat /\ stat.mtime \in Nat
    BY <2>3, VersionsTyped
  <2>5. buffer.version >= stat.version \/ buffer.mtime = stat.mtime
    BY <2>1, <2>2, <2>4
  <2>. QED
    BY <2>1, <2>5 DEF Fresh, buffer
<1>. QED
  BY <1>1, <1>3, <1>5, <1>6, <1>7, <1>8, AnswerSent

\* Cache() keeps the order of the Map, its paths distinct, and its number within the limit.
LEMMA CacheKeeps ==
  ASSUME StaticInv, NEW path \in Files, NEW entry \in Entry, entry.path = path,
         BufferKept(entry), entry.buffer \in Seen, smallFiles' = Cache(path, entry)
  PROVE  /\ smallFiles' \in Seq(Entry) /\ CacheRight'
         /\ \A i \in DOMAIN smallFiles' : smallFiles'[i].buffer \in Seen
<1>. DEFINE n == Len(smallFiles)
            k == At(path)
            grown == IF k # 0 THEN [smallFiles EXCEPT ![k] = entry] ELSE Append(smallFiles, entry)
            Good(s) == /\ s \in Seq(Entry)
                       /\ \A i, j \in 1..Len(s) : i # j => s[i].path # s[j].path
                       /\ \A i \in 1..Len(s) : BufferKept(s[i]) /\ s[i].buffer \in Seen
<1>1. /\ smallFiles \in Seq(Entry) /\ DOMAIN smallFiles = 1..n /\ n \in Nat /\ n <= CacheLimit
      /\ Good(smallFiles)
  BY DEF StaticInv, StaticTypeOK, Entry, CacheRight, Seen
<1>2. \/ k \in 1..n /\ smallFiles[k].path = path
      \/ k = 0 /\ \A j \in 1..n : smallFiles[j].path # path
  BY <1>1, AtFinds
<1>3. smallFiles' = IF Len(grown) > CacheLimit THEN Tail(grown) ELSE grown
  BY DEF Cache
<1>. HIDE DEF k
<1>4. Good(grown) /\ Len(grown) \in Nat /\ Len(grown) <= CacheLimit + 1
  <2>1. CASE k # 0
    <3>1. /\ grown \in Seq(Entry) /\ Len(grown) = n
          /\ \A i \in 1..n : grown[i] = IF i = k THEN entry ELSE smallFiles[i]
      BY <1>1, <1>2, <2>1
    <3>2. n <= CacheLimit + 1
      BY <1>1, StaticAssumption
    <3>. HIDE DEF grown
    <3>3. \A i, j \in 1..n : i # j => grown[i].path # grown[j].path
      BY <3>1, <1>1, <1>2, <2>1
    <3>4. \A i \in 1..n : BufferKept(grown[i]) /\ grown[i].buffer \in Seen
      BY <3>1, <1>1
    <3>. QED
      BY <3>1, <3>2, <3>3, <3>4, <1>1
  <2>2. CASE k = 0
    <3>1. /\ grown \in Seq(Entry) /\ Len(grown) = n + 1
          /\ \A i \in 1..(n + 1) : grown[i] = IF i = n + 1 THEN entry ELSE smallFiles[i]
      BY <1>1, <2>2
    <3>2. \A i \in 1..(n + 1) : i # n + 1 => i \in 1..n
      BY <1>1
    <3>3. n + 1 <= CacheLimit + 1
      BY <1>1, StaticAssumption
    <3>. HIDE DEF grown
    <3>. QED
      BY <3>1, <3>2, <3>3, <1>1, <1>2, <2>2
  <2>. QED
    BY <2>1, <2>2
<1>. HIDE DEF grown
<1>5. Good(smallFiles') /\ Len(smallFiles') <= CacheLimit
  <2>1. CASE Len(grown) > CacheLimit
    <3>1. /\ smallFiles' \in Seq(Entry) /\ Len(smallFiles') = Len(grown) - 1
          /\ \A i \in 1..Len(smallFiles') : smallFiles'[i] = grown[i + 1]
      BY <1>3, <1>4, <2>1, StaticAssumption
    <3>2. \A i \in 1..Len(smallFiles') : i + 1 \in 1..Len(grown)
      BY <3>1, <1>4
    <3>3. \A i, j \in 1..Len(smallFiles') : i # j => i + 1 # j + 1
      OBVIOUS
    <3>4. Len(smallFiles') <= CacheLimit
      BY <3>1, <1>4, StaticAssumption
    <3>5. \A i, j \in 1..Len(smallFiles') : i # j => smallFiles'[i].path # smallFiles'[j].path
      BY <3>1, <3>2, <3>3, <1>4
    <3>6. \A i \in 1..Len(smallFiles') : BufferKept(smallFiles'[i]) /\ smallFiles'[i].buffer \in Seen
      BY <3>1, <3>2, <1>4
    <3>. QED
      BY <3>1, <3>4, <3>5, <3>6
  <2>2. CASE Len(grown) <= CacheLimit
    BY <1>3, <1>4, <2>2, StaticAssumption
  <2>. QED
    BY <1>4, <2>1, <2>2, StaticAssumption
<1>. QED
  BY <1>5 DEF CacheRight

LEMMA ReadEndsStep ==
  ASSUME StaticInv, NEW r \in Requests, ReadEnds(r)
  PROVE  StaticInv'
<1>. DEFINE path == requests[r].for
            stat == requests[r].stat
            buffer == disk[path]
            entry == [path |-> path, mtime |-> stat.mtime, size |-> stat.size, buffer |-> buffer]
<1>1. /\ requests[r].phase = "reading"
      /\ IF buffer = NoFile
         THEN Step(r, "failed")
         ELSE /\ Sends(r, buffer, "buffer")
              /\ smallFiles' = IF buffer.size # stat.size THEN smallFiles ELSE Cache(path, entry)
              /\ UNCHANGED <<service, disk, clock>>
  BY DEF ReadEnds
<1>2. CASE buffer = NoFile
  BY <1>1, <1>2, PhaseMoves DEF Phases
<1>3. CASE buffer # NoFile
  <2>1. path \in Files /\ buffer.version >= stat.version
    BY <1>1, <1>3 DEF StaticInv, FilesAhead
  <2>2. buffer \in Seen /\ stat \in Seen /\ buffer \in Versions /\ stat \in Versions
    BY <2>1, SeenTyped DEF StaticInv, Seen
  <2>3. stat.mtime <= buffer.mtime
    <3>1. stat.version <= buffer.version
      BY <2>1, <2>2, VersionsTyped
    <3>. QED
      BY <3>1, <2>2 DEF StaticInv, History
  <2>4. CASE buffer.size # stat.size
    <3>1. smallFiles' = smallFiles
      BY <1>1, <1>3, <2>4
    <3>2. smallFiles' \in Seq(Entry) /\ CacheRight'
      BY <3>1 DEF StaticInv, StaticTypeOK, Entry, CacheRight
    <3>3. \A i \in DOMAIN smallFiles' : smallFiles'[i].buffer \in Seen
      BY <3>1 DEF Seen
    <3>. QED
      BY <1>1, <1>3, <2>1, <2>2, <3>2, <3>3, AnswerSent
  <2>5. CASE buffer.size = stat.size
    <3>1. entry \in Entry /\ entry.path = path /\ BufferKept(entry) /\ entry.buffer \in Seen
      BY <2>1, <2>2, <2>3, <2>5 DEF Entry, BufferKept, Versions
    <3>2. smallFiles' = Cache(path, entry)
      BY <1>1, <1>3, <2>5
    <3>. HIDE DEF entry
    <3>3. /\ smallFiles' \in Seq(Entry) /\ CacheRight'
          /\ \A i \in DOMAIN smallFiles' : smallFiles'[i].buffer \in Seen
      BY <2>1, <3>1, <3>2, CacheKeeps
    <3>. QED
      BY <1>1, <1>3, <2>1, <2>2, <3>3, AnswerSent
  <2>. QED
    BY <2>4, <2>5
<1>. QED
  BY <1>2, <1>3

-----------------------------------------------------------------------------
(* The invariant, and what it gives.                                       *)

LEMMA StaticInvStep == StaticInv /\ [StaticNext]_staticVars => StaticInv'
<1>. SUFFICES ASSUME StaticInv, [StaticNext]_staticVars PROVE StaticInv'
  OBVIOUS
<1>1. CASE \E f \in Files : Writes(f) \/ Deletes(f)
  BY <1>1, WritesStep, DeletesStep
<1>2. CASE \E r \in Requests : Handle(r) \/ StatDirectory(r) \/ StatFile(r)
  BY <1>2, HandleStep, StatDirectoryStep, StatFileStep
<1>3. CASE \E r \in Requests : ServeCached(r) \/ ReadBegins(r) \/ ReadEnds(r)
  BY <1>3, ServeCachedStep, ReadBeginsStep, ReadEndsStep
<1>4. CASE \E r \in Requests : StreamBegins(r) \/ StreamOpens(r)
  BY <1>4, StreamBeginsStep, StreamOpensStep
<1>5. CASE UNCHANGED staticVars
  <2>1. Seen' = Seen /\ UNCHANGED <<service, disk, clock, smallFiles, requests>>
    BY <1>5 DEF staticVars, Seen
  <2>2. StaticTypeOK' /\ CacheRight'
    BY <2>1 DEF StaticInv, StaticTypeOK, CacheRight
  <2>3. History' /\ FilesAhead'
    BY <2>1 DEF StaticInv, History, FilesAhead
  <2>4. AnswersRight'
    BY <2>1 DEF StaticInv, AnswersRight, AnswerRight, DeclaredLength
  <2>. QED
    BY <2>2, <2>3, <2>4 DEF StaticInv
<1>. QED
  BY <1>1, <1>2, <1>3, <1>4, <1>5 DEF StaticNext

LEMMA StaticInvAlways == StaticSpec => []StaticInv
BY InitStaticInv, StaticInvStep, PTL DEF StaticSpec

\* The files, the cache and the requests keep their types, for any number of them.
THEOREM StaticTyped == StaticSpec => []StaticTypeOK
<1>1. StaticInv => StaticTypeOK
  BY DEF StaticInv
<1>. QED
  BY <1>1, StaticInvAlways, PTL

\* What is sent is at least as new as the file that stat saw, or has its mtime and size; its
\* length is the one declared, unless a streamed file changed; and the cache keeps its limit.
THEOREM AnswersAreRight == StaticSpec => []FileAnswerRight
<1>1. StaticInv => FileAnswerRight
  BY DEF StaticInv, FileAnswerRight, AnswersRight, AnswerRight, CacheRight, BufferKept
<1>. QED
  BY <1>1, StaticInvAlways, PTL

-----------------------------------------------------------------------------
(* TemporaryCertificates: callers share certificates until one is removed. *)

\* A call that has not been made began no generation, and nobody waits for one of it.
CallsBegin ==
  \A c \in Callers :
    /\ callers[c].phase = "idle" => generations[c] = "none" /\ ~callers[c].cached
    /\ callers[c].phase # "idle" =>
         /\ callers[c].uses \in Callers
         /\ callers[callers[c].uses].phase # "idle"
         /\ callers[c].key \in Keys
         /\ callers[c].removals <= removals[callers[c].key]

\* What is in the cache is the generation of a call with that key, which takes a failure
\* out when it is told of it.
EntriesOwned ==
  \A k \in Keys : tlsCache[k] # 0 =>
    LET g == tlsCache[k] IN
    /\ g \in Callers
    /\ callers[g].key = k /\ callers[g].cached /\ callers[g].uses = g
    /\ callers[g].phase # "idle"
    /\ generations[g] = "failed" => callers[g].phase = "awaiting"
    /\ callers[g].phase = "told" => generations[g] = "made"

\* As long as nothing was removed since a call, the cache has what it uses.
EntriesKept ==
  \A c \in Callers :
    /\ callers[c].cached
    /\ callers[c].removals = removals[callers[c].key]
    /\ generations[callers[c].uses] # "failed"
    => tlsCache[callers[c].key] = callers[c].uses

\* Calls that saw the same removals use one generation.
CallersShare ==
  \A c, d \in Callers :
    /\ callers[c].cached /\ callers[d].cached /\ callers[c].key = callers[d].key
    /\ callers[c].removals = callers[d].removals
    /\ generations[callers[c].uses] # "failed" /\ generations[callers[d].uses] # "failed"
    => callers[c].uses = callers[d].uses

TlsInv == TlsTypeOK /\ CallsBegin /\ EntriesOwned /\ EntriesKept /\ CallersShare

LEMMA LeqAntisymmetric == \A a, b \in Nat : a <= b /\ b <= a => a = b
OBVIOUS

\* No call is made before the first one.
LEMMA InitTlsInv == TlsInit => TlsInv
BY CertificateAssumption
   DEF TlsInit, TlsInv, TlsTypeOK, CallsBegin, EntriesOwned, EntriesKept, CallersShare, Callers, Keys

-----------------------------------------------------------------------------
\* What the three ways to call have in common: the new call uses a generation that is its
\* own, or that of a call that was made, and sees the removals so far.
NewCall(c, k, cached, uses) ==
  /\ k \in Keys
  /\ callers' \in [Callers -> [key : Keys \cup {"none"}, uses : 0..MaxCallers, cached : BOOLEAN,
                               phase : {"idle", "awaiting", "told"}, removals : Nat]]
  /\ callers'[c].key = k /\ callers'[c].uses = uses /\ callers'[c].cached = cached
  /\ callers'[c].phase = "awaiting" /\ callers'[c].removals = removals[k]
  /\ \A d \in Callers \ {c} : callers'[d] = callers[d]
  /\ callers[c].phase = "idle" /\ generations[c] = "none" /\ ~callers[c].cached
  /\ clears' = clears /\ removals' = removals

LEMMA CalledIsNewCall ==
  ASSUME TlsInv, NEW c \in Callers, NEW o \in Options, NEW cached \in BOOLEAN, NEW uses \in Callers,
         Called(c, o, cached, uses)
  PROVE  NewCall(c, KeyOf[o], cached, uses)
<1>1. KeyOf[o] \in Keys
  BY DEF Keys
<1>2. removals[KeyOf[o]] \in Nat
  BY <1>1 DEF TlsInv, TlsTypeOK
<1>3. uses \in 0..MaxCallers
  BY CertificateAssumption DEF Callers
<1>. QED
  BY <1>1, <1>2, <1>3 DEF Called, NewCall, TlsInv, TlsTypeOK, CallsBegin

\* cache: false: the new call shares with nobody.
LEMMA UncachedStep ==
  ASSUME TlsInv, NEW c \in Callers, NEW o \in Options, CreateUncached(c, o)
  PROVE  TlsInv'
<1>. DEFINE k == KeyOf[o]
<1>1. NewCall(c, k, FALSE, c)
  BY CalledIsNewCall DEF CreateUncached
<1>2. generations' = [generations EXCEPT ![c] = "running"] /\ tlsCache' = tlsCache
  BY DEF CreateUncached
<1>. HIDE DEF k
<1>. USE <1>1, <1>2 DEF NewCall, TlsInv, TlsTypeOK
<1>3. TlsTypeOK'
  OBVIOUS
<1>4. CallsBegin'
  BY DEF CallsBegin
<1>5. EntriesOwned'
  BY DEF EntriesOwned
<1>6. EntriesKept'
  BY DEF EntriesKept, CallsBegin
<1>7. CallersShare'
  BY DEF CallersShare, CallsBegin
<1>. QED
  BY <1>3, <1>4, <1>5, <1>6, <1>7

\* The new call joins the generation in the cache, and so those that use it.
LEMMA SharedStep ==
  ASSUME TlsInv, NEW c \in Callers, NEW o \in Options, CreateShared(c, o)
  PROVE  TlsInv'
<1>. DEFINE k == KeyOf[o]
            g == tlsCache[k]
<1>1. k \in Keys
  BY DEF Keys
<1>2. g \in Callers /\ callers[g].phase # "idle"
  BY <1>1 DEF CreateShared, TlsInv, EntriesOwned
<1>3. NewCall(c, k, TRUE, g)
  BY <1>2, CalledIsNewCall DEF CreateShared
<1>4. generations' = generations /\ tlsCache' = tlsCache /\ removals' = removals
  BY <1>3 DEF CreateShared, NewCall
<1>5. g # c /\ callers'[g].phase # "idle" /\ tlsCache[k] = g
  BY <1>2, <1>3 DEF NewCall
<1>6. removals[k] \in Nat
  BY <1>1 DEF TlsInv, TlsTypeOK
<1>. HIDE DEF k, g
<1>7. /\ callers'[c].key = k /\ callers'[c].uses = g /\ callers'[c].cached
      /\ callers'[c].phase = "awaiting" /\ callers'[c].removals = removals[k]
      /\ \A d \in Callers \ {c} : callers'[d] = callers[d]
      /\ callers[c].phase = "idle" /\ ~callers[c].cached
  BY <1>3 DEF NewCall
<1>8. TlsTypeOK'
  BY <1>3, <1>4 DEF NewCall, TlsInv, TlsTypeOK
<1>9. CallsBegin'
  <2>. SUFFICES ASSUME NEW d \in Callers
                PROVE  /\ callers'[d].phase = "idle" => generations'[d] = "none" /\ ~callers'[d].cached
                       /\ callers'[d].phase # "idle" =>
                            /\ callers'[d].uses \in Callers
                            /\ callers'[callers'[d].uses].phase # "idle"
                            /\ callers'[d].key \in Keys
                            /\ callers'[d].removals <= removals'[callers'[d].key]
    BY DEF CallsBegin
  <2>1. CASE d = c
    BY <2>1, <1>1, <1>2, <1>4, <1>5, <1>6, <1>7
  <2>2. CASE d # c
    BY <2>2, <1>4, <1>7 DEF TlsInv, CallsBegin
  <2>. QED
    BY <2>1, <2>2
<1>10. EntriesOwned'
  BY <1>4, <1>7 DEF TlsInv, EntriesOwned
<1>11. EntriesKept'
  BY <1>4, <1>5, <1>7 DEF TlsInv, EntriesKept, CallsBegin
<1>12. CallersShare'
  <2>. SUFFICES ASSUME NEW d \in Callers, NEW e \in Callers, callers'[d].cached, callers'[e].cached,
                       callers'[d].key = callers'[e].key, callers'[d].removals = callers'[e].removals,
                       generations[callers'[d].uses] # "failed", generations[callers'[e].uses] # "failed"
                PROVE  callers'[d].uses = callers'[e].uses
    BY <1>4 DEF CallersShare
  <2>1. CASE d # c /\ e # c
    BY <2>1, <1>7 DEF TlsInv, CallersShare
  <2>2. CASE d = c \/ e = c
    BY <2>2, <1>4, <1>5, <1>7, <1>11 DEF EntriesKept
  <2>. QED
    BY <2>1, <2>2
<1>. QED
  BY <1>8, <1>9, <1>10, <1>11, <1>12 DEF TlsInv

\* The new call puts its generation where nothing was: nobody before it with that key and
\* with the removals of now uses one that has not failed.
LEMMA OwnedStep ==
  ASSUME TlsInv, NEW c \in Callers, NEW o \in Options, CreateOwned(c, o)
  PROVE  TlsInv'
<1>. DEFINE k == KeyOf[o]
<1>1. NewCall(c, k, TRUE, c)
  BY CalledIsNewCall DEF CreateOwned
<1>2. generations' = [generations EXCEPT ![c] = "running"] /\ tlsCache' = [tlsCache EXCEPT ![k] = c]
  BY DEF CreateOwned
<1>3. tlsCache[k] = 0 /\ c # 0 /\ c \in 0..MaxCallers
  BY CertificateAssumption DEF CreateOwned, Callers
<1>4. \A d \in Callers : 0 # d
  BY CertificateAssumption DEF Callers
<1>. HIDE DEF k
<1>. USE <1>1, <1>2 DEF NewCall, TlsInv, TlsTypeOK
<1>5. TlsTypeOK'
  BY <1>3
<1>6. CallsBegin'
  BY DEF CallsBegin
<1>. USE <1>3
<1>7. EntriesOwned'
  BY DEF EntriesOwned
<1>8. EntriesKept'
  BY <1>4 DEF EntriesKept, CallsBegin
<1>9. CallersShare'
  BY <1>4 DEF CallersShare, CallsBegin, EntriesKept
<1>. QED
  BY <1>5, <1>6, <1>7, <1>8, <1>9

-----------------------------------------------------------------------------
\* A generation ends: what has failed is still to be told.
LEMMA GeneratedStep ==
  ASSUME TlsInv, NEW g \in Callers, Generated(g)
  PROVE  TlsInv'
<1>. PICK outcome \in {"made", "failed"} : generations' = [generations EXCEPT ![g] = outcome]
  BY DEF Generated
<1>. USE DEF Generated, TlsInv, TlsTypeOK
<1>1. TlsTypeOK'
  OBVIOUS
<1>2. CallsBegin'
  BY DEF CallsBegin
<1>3. EntriesOwned'
  BY DEF EntriesOwned
<1>4. EntriesKept'
  BY DEF EntriesKept, CallsBegin
<1>5. CallersShare'
  BY DEF CallersShare, CallsBegin
<1>. QED
  BY <1>1, <1>2, <1>3, <1>4, <1>5

\* A call is told: the entry of its key goes with its own failure, and if that was the
\* entry of another, the removal is counted.
LEMMA ToldStep ==
  ASSUME TlsInv, NEW c \in Callers, Told(c)
  PROVE  TlsInv'
<1>. DEFINE k == callers[c].key
            g == callers[c].uses
            fails == Owns(c) /\ generations[g] = "failed"
<1>1. /\ callers[c].phase = "awaiting" /\ k \in Keys /\ g \in Callers
      /\ generations[g] \in {"made", "failed"}
  BY DEF Told, TlsInv, CallsBegin
<1>2. callers' = [callers EXCEPT ![c].phase = "told"] /\ generations' = generations /\ clears' = clears
  BY DEF Told
<1>. USE <1>1, <1>2 DEF TlsInv, TlsTypeOK
<1>3. \A d \in Callers :
        /\ callers'[d].key = callers[d].key /\ callers'[d].uses = callers[d].uses
        /\ callers'[d].cached = callers[d].cached /\ callers'[d].removals = callers[d].removals
        /\ callers'[d].phase = IF d = c THEN "told" ELSE callers[d].phase
  OBVIOUS
<1>4. CASE ~fails
  <2>1. tlsCache' = tlsCache /\ removals' = removals
    BY <1>4 DEF Told
  <2>2. TlsTypeOK'
    BY <2>1
  <2>3. CallsBegin'
    BY <2>1, <1>3 DEF CallsBegin
  <2>4. EntriesOwned'
    BY <2>1, <1>3, <1>4 DEF EntriesOwned, Owns
  <2>5. EntriesKept'
    BY <2>1, <1>3 DEF EntriesKept
  <2>6. CallersShare'
    BY <1>3 DEF CallersShare
  <2>. QED
    BY <2>2, <2>3, <2>4, <2>5, <2>6
<1>5. CASE fails
  <2>1. /\ tlsCache' = [tlsCache EXCEPT ![k] = 0]
        /\ removals' = IF tlsCache[k] # g THEN [removals EXCEPT ![k] = @ + 1] ELSE removals
    BY <1>5 DEF Told
  <2>2. TlsTypeOK'
    BY <2>1, CertificateAssumption
  <2>3. \A l \in Keys : removals[l] <= removals'[l]
    BY <2>1
  <2>4. CallsBegin'
    BY <2>3, <2>2, <1>3 DEF CallsBegin
  <2>5. EntriesOwned'
    BY <2>1, <1>3 DEF EntriesOwned
  <2>6. EntriesKept'
    <3>. SUFFICES ASSUME NEW d \in Callers, callers[d].cached,
                         callers[d].removals = removals'[callers[d].key],
                         generations[callers[d].uses] # "failed"
                  PROVE  tlsCache'[callers[d].key] = callers[d].uses
      BY <1>3 DEF EntriesKept
    <3>1. callers[d].key \in Keys /\ callers[d].removals <= removals[callers[d].key]
      BY DEF CallsBegin
    <3>2. callers[d].removals = removals[callers[d].key]
      <4>1. removals[callers[d].key] \in Nat /\ callers[d].removals \in Nat
        BY <3>1
      <4>2. removals[callers[d].key] <= callers[d].removals
        BY <2>3, <3>1
      <4>. QED
        BY <4>1, <4>2, <3>1, LeqAntisymmetric, Zenon
    <3>3. tlsCache[callers[d].key] = callers[d].uses
      BY <3>2 DEF EntriesKept
    <3>4. CASE callers[d].key = k
      BY <2>1, <3>1, <3>2, <3>3, <3>4, <1>5
    <3>5. CASE callers[d].key # k
      BY <2>1, <3>1, <3>3, <3>5
    <3>. QED
      BY <3>4, <3>5
  <2>7. CallersShare'
    BY <1>3 DEF CallersShare
  <2>. QED
    BY <2>2, <2>4, <2>5, <2>6, <2>7
<1>. QED
  BY <1>4, <1>5

\* clearTemporaryTlsCache is a removal for every key.
LEMMA ClearStep == TlsInv /\ Clear => TlsInv'
<1>. SUFFICES ASSUME TlsInv, Clear PROVE TlsInv'
  OBVIOUS
<1>. USE DEF Clear, TlsInv, TlsTypeOK
<1>1. TlsTypeOK'
  BY CertificateAssumption
<1>2. CallsBegin'
  BY DEF CallsBegin
<1>3. EntriesOwned'
  BY DEF EntriesOwned
<1>4. EntriesKept'
  BY DEF EntriesKept, CallsBegin
<1>5. CallersShare'
  BY DEF CallersShare
<1>. QED
  BY <1>1, <1>2, <1>3, <1>4, <1>5

-----------------------------------------------------------------------------
LEMMA TlsInvStep == TlsInv /\ [TlsNext]_tlsVars => TlsInv'
<1>. SUFFICES ASSUME TlsInv, [TlsNext]_tlsVars PROVE TlsInv'
  OBVIOUS
<1>1. CASE UNCHANGED tlsVars
  BY <1>1 DEF tlsVars, TlsInv, TlsTypeOK, CallsBegin, EntriesOwned, EntriesKept, CallersShare
<1>. QED
  BY <1>1, UncachedStep, SharedStep, OwnedStep, GeneratedStep, ToldStep, ClearStep DEF TlsNext

\* The state of the cache is of its type: temporaryTlsCache and the calls that use it.
THEOREM CertificatesTyped == TlsSpec => []TlsTypeOK
<1>1. TlsInv => TlsTypeOK
  BY DEF TlsInv
<1>. QED
  BY <1>1, InitTlsInv, TlsInvStep, PTL DEF TlsSpec

\* Callers with the same options share one certificate, but for the cases that the
\* property names (temporary.ts createTemporaryTlsOptions), for any number of them.
THEOREM CertificatesShared == TlsSpec => []CertificateShared
<1>1. TlsInv => CertificateShared
  BY DEF TlsInv, EntriesOwned, CallersShare, CertificateShared
<1>. QED
  BY <1>1, InitTlsInv, TlsInvStep, PTL DEF TlsSpec
=============================================================================
