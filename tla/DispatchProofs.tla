--------------------------- MODULE DispatchProofs ---------------------------
(***************************************************************************)
(* Which handlers a request comes to, in which order, how often and with   *)
(* which scope: proofs about Dispatch, for all applications and requests,  *)
(* any nesting of routers and any handlers.                                *)
(*                                                                         *)
(* World says of the registrations what their routers and trees hold.      *)
(* StackRight says of a stack of frames, the walk's or that of a call,     *)
(* that each frame is at a router the request has entered, inside the one  *)
(* of the frame behind it, and that what is left to visit comes in the     *)
(* order of registration (Ahead, Beyond).  CallRight says of a call that   *)
(* its handler admits the request, that its scope has the keys of the      *)
(* pattern, and that what is left to do comes after it.  FirstRight says   *)
(* that no handler the request should come to first has been passed over.  *)
(*                                                                         *)
(* PromisesRight says that a promise that a handler awaits is held by one  *)
(* process, and LastRight that, unless a handler failed after next(), one  *)
(* process at most has something left to do: the last call or the walk.    *)
(* OrderRight, RunsOnce and ScopeRight rest on it.                         *)
(*                                                                         *)
(* The order below: definitions; paths, patterns and the tree;             *)
(* registration; what each step does to walk and calls; then one part for  *)
(* each conjunct of Invariant, and the theorems.                           *)
(***************************************************************************)
EXTENDS Dispatch, SequenceTheorems, WellFoundedInduction, TLAPS

\* The values of the variables.
LayerRecord == [id : Nat, kind : Kinds, method : STRING, pattern : Seq(Segment), errors : BOOLEAN]
Frame == [place : Nat, index : Nat \ {0}, base : Seq(Seq(Segment)), keys : SUBSET Names, path : Seq(Names) \ {<<>>}]
Scope == [base : Seq(Seq(Segment)), keys : SUBSET Names, route : Seq(Seq(Segment))]
Request == [method : STRING \cup {None, "UPGRADE"}, path : Seq(Names), host : BOOLEAN]
Errors == {None, "error", "undefined"}
Hows == {"root", "awaited", "dropped"}
Phases == {"running", "waiting", "sending", "silent", "returned", "failed"}
WalkRecord == [on : BOOLEAN, frames : Seq(Frame), error : Errors, by : Nat, how : Hows \cup {None}]
CallRecord ==
  [handler : Nat, layer : Kinds, errors : BOOLEAN, direct : BOOLEAN, others : Seq(Nat), rest : Seq(Frame),
   scope : Scope, before : Scope, by : Nat, how : Hows, phase : Phases, nexted : BOOLEAN, error : Errors]
Token == [by : Nat, how : Hows, rejects : BOOLEAN]
Answer == [head : {None, "file", "sent"}, ended : BOOLEAN, gone : BOOLEAN, status : Nat]

LayerOf(registration, id) ==
  [id |-> id, kind |-> registration.kind, method |-> registration.method,
   pattern |-> registration.pattern, errors |-> registration.errors]

\* The frames of a stack are at routers there are.
Sited(R, F) == \A i \in DOMAIN F : F[i].place \in DOMAIN R

\* The layers of router m: in the order of registration, and all of them.
LayersRight(a, m, layers) ==
  /\ layers \in Seq(LayerRecord)
  /\ \A k \in DOMAIN layers :
       LET l == layers[k] IN
       /\ l.id \in DOMAIN a
       /\ a[l.id].at = m
       /\ l.kind = a[l.id].kind
       /\ l.method = a[l.id].method
       /\ l.pattern = a[l.id].pattern
       /\ l.errors = a[l.id].errors
  /\ \A j, k \in DOMAIN layers : j < k => layers[j].id < layers[k].id
  /\ \A id \in DOMAIN a : a[id].at = m => \E k \in DOMAIN layers : layers[k].id = id

\* The tree of router m while it has one: every entry holds routes of that shape and method,
\* in order, and every node that has a key has that of one of its routes.
EntryRight(a, m, named, at, entry) ==
  /\ entry.path \in Seq(Segment)
  /\ entry.handlers \in Seq(Nat)
  /\ entry.handlers # <<>>
  /\ \A k \in DOMAIN entry.handlers :
       LET r == a[entry.handlers[k]] IN
       /\ entry.handlers[k] \in DOMAIN a
       /\ r.at = m
       /\ r.kind = "route"
       /\ at = <<Shape(r.pattern), r.method>>
       /\ \A i \in Nodes(r.pattern) : SubSeq(Shape(r.pattern), 1, i) \in named
  /\ \A j, k \in DOMAIN entry.handlers : j < k => entry.handlers[j] < entry.handlers[k]

TreeRight(a, m, tree) ==
  /\ \A at \in DOMAIN tree.routes : EntryRight(a, m, DOMAIN tree.keys, at, tree.routes[at])
  /\ \A node \in DOMAIN tree.keys :
       \E id \in DOMAIN a, i \in Nat :
         /\ a[id].at = m
         /\ a[id].kind = "route"
         /\ i \in Nodes(a[id].pattern)
         /\ node = SubSeq(Shape(a[id].pattern), 1, i)
         /\ tree.keys[node] = a[id].pattern[i].name

RouterRight(a, m, r) ==
  /\ r = [layers |-> r.layers, tree |-> r.tree, enabled |-> r.enabled]
  /\ LayersRight(a, m, r.layers)
  /\ r.enabled \in BOOLEAN
  /\ r.enabled => TreeRight(a, m, r.tree) /\ \A id \in DOMAIN a : a[id].at = m => a[id].kind = "route"

World(a, R) ==
  /\ a \in Seq(Registration)
  /\ InPlace(a)
  /\ DOMAIN R = 0..Len(a)
  /\ \A m \in 0..Len(a) : RouterRight(a, m, R[m])

(* Stacks of frames.                                                       *)
Pending(R, f) == {R[f.place].layers[k].id : k \in f.index..Len(R[f.place].layers)}
Ahead(R, F) == UNION {Pending(R, F[i]) : i \in DOMAIN F}
Beyond(R, F, id) == \A j \in Ahead(R, F) : id < j

FrameRight(a, R, q, f) ==
  /\ f \in Frame
  /\ f.place \in 0..Len(a)
  /\ f.index <= Len(R[f.place].layers) + 1
  /\ Inside(a, q)[f.place].reached
  /\ f.path = Inside(a, q)[f.place].path
  /\ EmptySegment(f.path) => EmptySegment(q.path)

StackRight(a, R, q, F) ==
  /\ F \in Seq(Frame)
  /\ \A i \in DOMAIN F : FrameRight(a, R, q, F[i])
  /\ \A i, j \in DOMAIN F : i < j =>
       /\ F[j].place < F[i].place
       /\ \A k \in Pending(R, F[i]), l \in Pending(R, F[j]) : k < l
  /\ \A i \in DOMAIN F : i = Len(F) => F[i].place = 0
  /\ \A i, j \in DOMAIN F : j = i + 1 =>
       /\ a[F[i].place].at = F[j].place
       /\ \A k \in 1..(F[j].index - 1) : R[F[j].place].layers[k].id <= F[i].place

\* A handler the request may be given, with these keys.
Suits(a, q, id, direct, keys) ==
  /\ id \in DOMAIN a
  /\ a[id].kind \notin Mounts
  /\ \/ Inside(a, q)[a[id].at].reached /\ Admits(a[id], q.method, Inside(a, q)[a[id].at].path)
     \/ direct /\ EmptySegment(q.path)
  /\ \/ NamedKeys(a[id].pattern) \subseteq keys
     \/ Everything(a[id].pattern)
     \/ /\ direct
        /\ \E other \in DOMAIN a, i \in Nodes(a[id].pattern) :
             /\ other # id
             /\ a[other].kind \notin Mounts
             /\ a[other].at = a[id].at
             /\ i \in Nodes(a[other].pattern)
             /\ SubSeq(Shape(a[other].pattern), 1, i) = SubSeq(Shape(a[id].pattern), 1, i)

\* What a call is made with; late: whether a handler has failed with undefined.
CallRight(a, R, q, h, late) ==
  /\ Suits(a, q, h.handler, h.direct, h.scope.keys)
  /\ h.errors = a[h.handler].errors \/ late
  /\ StackRight(a, R, q, h.rest)
  /\ Beyond(R, h.rest, h.handler)
  /\ h.direct =>
       /\ ~h.errors
       /\ \A i \in DOMAIN h.others :
            /\ Suits(a, q, h.others[i], TRUE, h.scope.keys)
            /\ ~a[h.others[i]].errors
            /\ h.handler < h.others[i]
            /\ Beyond(R, h.rest, h.others[i])
       /\ \A i, j \in DOMAIN h.others : i < j => h.others[i] < h.others[j]

(* The variables.                                                          *)
WalkTyped ==
  /\ walk \in WalkRecord
  /\ walk.on => walk.how \in Hows
  /\ Sited(routers, walk.frames)

CallsTyped ==
  /\ calls \in Seq(CallRecord)
  /\ \A c \in DOMAIN calls : Sited(routers, calls[c].rest)

TypeOK ==
  /\ World(app, routers)
  /\ request \in Request
  /\ request.path # <<>>
  /\ scope \in Scope
  /\ WalkTyped
  /\ CallsTyped
  /\ settled \subseteq Token
  /\ response \in Answer
  /\ crashed \in BOOLEAN

\* Before the request nothing has happened.
Quiet ==
  /\ request = NoRequest => walk = Idle /\ calls = <<>> /\ settled = {}
  /\ ~walk.on => walk = Idle

PhasesRight ==
  \A c \in DOMAIN calls :
    LET h == calls[c] IN
    /\ h.direct => h.layer = "route"
    /\ h.phase = "waiting" => h.nexted /\ ~h.direct
    /\ h.phase = "sending" => ~h.nexted /\ ~h.direct
    /\ h.error = "undefined" => h.phase = "failed"

Waits(b) == b \in DOMAIN calls /\ calls[b].phase = "waiting"

\* A promise that is awaited has one holder, and its owner waits.
Holds(c) == calls[c].how = "awaited" /\ calls[c].phase \in {"running", "waiting", "sending"}
WalkHolds == walk.on /\ walk.how = "awaited"

PromisesRight ==
  /\ \A c \in DOMAIN calls : Holds(c) => Waits(calls[c].by)
  /\ \A t \in settled : t.how = "awaited" => Waits(t.by)
  /\ WalkHolds => Waits(walk.by)
  /\ \A c, d \in DOMAIN calls : c # d /\ Holds(c) /\ Holds(d) => calls[c].by # calls[d].by
  /\ \A c \in DOMAIN calls, t \in settled : Holds(c) /\ t.how = "awaited" => calls[c].by # t.by
  /\ \A s, t \in settled : s # t /\ s.how = "awaited" /\ t.how = "awaited" => s.by # t.by
  /\ WalkHolds => \A c \in DOMAIN calls : Holds(c) => calls[c].by # walk.by
  /\ WalkHolds => \A t \in settled : t.how = "awaited" => t.by # walk.by

\* What is left to do after this call is under way, or has been.
Over(h) == h.phase = "failed" \/ (h.nexted /\ (h.direct => h.phase = "returned"))

LastRight ==
  ~FailedAfterNext => \A c \in DOMAIN calls : Over(calls[c]) \/ (c = Len(calls) /\ ~walk.on)

ScopeRight ==
  ~FailedAfterNext =>
    \A c \in DOMAIN calls :
      (calls[c].phase \in {"running", "sending"} /\ ~calls[c].nexted) => scope = calls[c].scope

CallsRight ==
  /\ \A c \in DOMAIN calls : CallRight(app, routers, request, calls[c], FailedWithUndefined)
  /\ walk.on => StackRight(app, routers, request, walk.frames)
  /\ walk.error = "undefined" => FailedWithUndefined

OrderRight ==
  ~FailedAfterNext =>
    /\ \A c, d \in DOMAIN calls : c < d => calls[c].handler < calls[d].handler
    /\ walk.on => \A c \in DOMAIN calls : Beyond(routers, walk.frames, calls[c].handler)

Wanted(a, q, id) ==
  /\ id \in DOMAIN a
  /\ a[id].kind \notin Mounts
  /\ Inside(a, q)[a[id].at].reached
  /\ Admits(a[id], q.method, Inside(a, q)[a[id].at].path)
  /\ ~a[id].errors

FirstRight ==
  /\ (request # NoRequest /\ calls = <<>>) =>
       /\ walk.error = None
       /\ \A id \in DOMAIN app : Wanted(app, request, id) => \E j \in Ahead(routers, walk.frames) : j <= id
  /\ calls # <<>> => \A id \in DOMAIN app :
       (Wanted(app, request, id) /\ id < calls[1].handler) =>
          calls[1].direct /\ app[id].at = app[calls[1].handler].at

\* Only the end of the chain answers with a 404.
StatusRight ==
  response.status = 404 => request # NoRequest /\ (calls = <<>> => ~walk.on)

Invariant ==
  /\ TypeOK
  /\ Quiet
  /\ PhasesRight
  /\ PromisesRight
  /\ LastRight
  /\ ScopeRight
  /\ CallsRight
  /\ OrderRight
  /\ FirstRight
  /\ StatusRight

(***************************************************************************)
(* Paths, patterns and the tree.                                           *)
(***************************************************************************)
\* A set of numbers that is not empty has a least one.
LEMMA LeastNumber ==
  ASSUME NEW S \in SUBSET Nat, S # {}
  PROVE  \E x \in S : \A y \in S : x <= y
<1>. DEFINE R == OpToRel(<, Nat)
<1>1. IsWellFoundedOn(R, Nat)
  BY NatLessThanWellFounded
<1>2. \A x, y \in Nat : x < y => <<x, y>> \in R
  BY DEF OpToRel
<1>. HIDE DEF R
<1>3. PICK x \in S : \A y \in S : ~ (<<y, x>> \in R)
  BY <1>1, WFMin
<1>4. ASSUME NEW y \in S PROVE x <= y
  <2>1. x \in Nat /\ y \in Nat /\ ~ (<<y, x>> \in R)
    BY <1>3
  <2>2. ~ (y < x)
    BY <1>2, <2>1
  <2>. QED
    BY <2>1, <2>2
<1>. QED
  BY <1>4

\* Cut leaves the segments up to the first wildcard.
LEMMA CutRight ==
  ASSUME NEW p \in Seq(Segment)
  PROVE  /\ Cut(p) \in Seq(Segment)
         /\ Len(Cut(p)) \in Nat
         /\ Len(Cut(p)) <= Len(p)
         /\ DOMAIN Cut(p) = 1..Len(Cut(p))
         /\ \A i \in 1..Len(Cut(p)) : Cut(p)[i] = p[i] /\ p[i] \in Segment
         /\ \A i \in 1..Len(Cut(p)) : i # Len(Cut(p)) => p[i].kind # "wild"
<1>1. DOMAIN p = 1..Len(p) /\ Len(p) \in Nat /\ \A i \in 1..Len(p) : p[i] \in Segment
  BY LenProperties, ElementOfSeq
<1>2. CASE Wild(p) = {}
  <2>1. Cut(p) = p
    BY <1>2 DEF Cut
  <2>2. \A i \in 1..Len(p) : p[i].kind # "wild"
    BY <1>1, <1>2 DEF Wild
  <2>3. \A i \in 1..Len(p) : p[i] = p[i] /\ p[i] \in Segment
    BY <1>1
  <2>4. Len(p) <= Len(p)
    BY <1>1
  <2>. QED
    BY <1>1, <2>1, <2>2, <2>3, <2>4, Zenon
<1>3. CASE Wild(p) # {}
  <2>. DEFINE w == CHOOSE i \in Wild(p) : \A j \in Wild(p) : i <= j
  <2>1. Wild(p) \in SUBSET Nat
    BY <1>1 DEF Wild
  <2>2. w \in Wild(p) /\ \A j \in Wild(p) : w <= j
    BY <1>3, <2>1, LeastNumber
  <2>3. Cut(p) = SubSeq(p, 1, w)
    BY <1>3 DEF Cut
  <2>. HIDE DEF w
  <2>4. w \in 1..Len(p)
    BY <1>1, <2>2 DEF Wild
  <2>5. \A i \in 1..w : p[i] \in Segment
    BY <1>1, <2>4
  <2>6. /\ Cut(p) \in Seq(Segment)
        /\ Len(Cut(p)) = w
        /\ \A i \in 1..w : Cut(p)[i] = p[i]
    BY <2>3, <2>4, <2>5, SubSeqProperties
  <2>7. \A i \in 1..w : i # w => p[i].kind # "wild"
    BY <1>1, <2>2, <2>4 DEF Wild
  <2>8. DOMAIN Cut(p) = 1..Len(Cut(p))
    BY <2>6, LenProperties
  <2>. QED
    BY <1>1, <2>4, <2>5, <2>6, <2>7, <2>8
<1>. QED
  BY <1>2, <1>3

LEMMA ShapeRight ==
  ASSUME NEW p \in Seq(Segment)
  PROVE  /\ Shape(p) \in Seq(Segment)
         /\ Len(Shape(p)) = Len(Cut(p))
         /\ DOMAIN Shape(p) = 1..Len(Cut(p))
         /\ \A i \in 1..Len(Cut(p)) :
              /\ Shape(p)[i].kind = p[i].kind
              /\ p[i].kind = "static" => Shape(p)[i] = p[i]
<1>1. DOMAIN Cut(p) = 1..Len(Cut(p)) /\ Len(Cut(p)) \in Nat /\ \A i \in 1..Len(Cut(p)) : p[i] \in Segment
  BY CutRight
<1>2. DOMAIN Shape(p) = 1..Len(Cut(p))
  BY <1>1 DEF Shape
<1>3. ASSUME NEW i \in 1..Len(Cut(p))
      PROVE  /\ Shape(p)[i] = IF p[i].kind = "static" THEN p[i] ELSE [kind |-> p[i].kind, name |-> Empty]
             /\ p[i] \in Segment
  BY <1>1, <1>3 DEF Shape
<1>4. ASSUME NEW i \in 1..Len(Cut(p))
      PROVE  /\ Shape(p)[i] \in Segment
             /\ Shape(p)[i].kind = p[i].kind
             /\ p[i].kind = "static" => Shape(p)[i] = p[i]
  <2>1. CASE p[i].kind = "static"
    BY <1>3, <2>1
  <2>2. CASE p[i].kind # "static"
    <3>1. Shape(p)[i] = [kind |-> p[i].kind, name |-> Empty] /\ p[i].kind \in {"static", "param", "wild"}
      BY <1>3, <2>2 DEF Segment
    <3>. QED
      BY <2>2, <3>1, NamesAssumption DEF Segment
  <2>. QED
    BY <2>1, <2>2
<1>5. Shape(p) \in [1..Len(Cut(p)) -> Segment]
  <2>1. Shape(p) = [i \in 1..Len(Cut(p)) |-> Shape(p)[i]]
    BY <1>1 DEF Shape
  <2>. QED
    BY <1>4, <2>1
<1>6. Shape(p) \in Seq(Segment)
  BY <1>1, <1>5, SeqDef
<1>7. Len(Shape(p)) = Len(Cut(p))
  BY <1>1, <1>2, <1>6, LenProperties
<1>. QED
  BY <1>2, <1>4, <1>6, <1>7

\* The shape has the nodes of its pattern.
LEMMA ShapeNodes ==
  ASSUME NEW p \in Seq(Segment)
  PROVE  /\ Cut(Shape(p)) = Shape(p)
         /\ Nodes(Shape(p)) = Nodes(p)
<1>. DEFINE s == Shape(p)
            n == Len(Cut(p))
<1>1. /\ s \in Seq(Segment) /\ Len(s) = n /\ DOMAIN s = 1..n /\ n \in Nat
      /\ \A i \in 1..n : s[i].kind = p[i].kind
      /\ \A i \in 1..n : i # n => p[i].kind # "wild"
      /\ DOMAIN Cut(p) = 1..n
  BY ShapeRight, CutRight
<1>. HIDE DEF s, n
<1>2. \A i \in Wild(s) : i = n /\ n \in 1..n
  BY <1>1 DEF Wild
<1>3. Cut(s) = s
  <2>1. CASE Wild(s) = {}
    BY <2>1 DEF Cut
  <2>2. CASE Wild(s) # {}
    <3>1. Wild(s) = {n}
      BY <1>2, <2>2
    <3>2. (CHOOSE i \in Wild(s) : \A j \in Wild(s) : i <= j) = n
      BY <1>1, <3>1
    <3>3. Cut(s) = SubSeq(s, 1, n)
      BY <2>2, <3>2 DEF Cut
    <3>. QED
      BY <1>1, <3>3, SubSeqFull
  <2>. QED
    BY <2>1, <2>2
<1>4. Nodes(s) = Nodes(p)
  BY <1>1, <1>3 DEF Nodes
<1>. QED
  BY <1>3, <1>4 DEF s

\* A node is named by its prefix of the shape: two nodes of one pattern differ.
LEMMA NodeNames ==
  ASSUME NEW p \in Seq(Segment), NEW r \in Seq(Segment), NEW i \in Nodes(p), NEW j \in Nodes(r),
         SubSeq(Shape(p), 1, i) = SubSeq(Shape(r), 1, j)
  PROVE  i = j
<1>1. i \in 1..Len(Shape(p)) /\ j \in 1..Len(Shape(r)) /\ Len(Shape(p)) \in Nat /\ Len(Shape(r)) \in Nat
  BY CutRight, ShapeRight DEF Nodes
<1>2. Len(SubSeq(Shape(p), 1, i)) = i
  <2>1. \A k \in 1..i : Shape(p)[k] \in Segment
    BY <1>1, ShapeRight, ElementOfSeq
  <2>. QED
    BY <1>1, <2>1, SubSeqProperties
<1>3. Len(SubSeq(Shape(r), 1, j)) = j
  <2>1. \A k \in 1..j : Shape(r)[k] \in Segment
    BY <1>1, ShapeRight, ElementOfSeq
  <2>. QED
    BY <1>1, <2>1, SubSeqProperties
<1>. QED
  BY <1>2, <1>3

\* Keys are strings.
LEMMA KeysAreNames ==
  ASSUME NEW p \in Seq(Segment)
  PROVE  /\ NamedKeys(p) \in SUBSET Names
         /\ Keys(p) \in SUBSET Names
         /\ PrefixKeys(p) \in SUBSET Names
<1>1. NamedKeys(p) \in SUBSET Names
  <2>1. \A j \in DOMAIN Cut(p) : p[j].name \in Names
    BY CutRight DEF Segment
  <2>. QED
    BY <2>1 DEF NamedKeys
<1>2. {"wildcard"} \in SUBSET Names /\ {} \in SUBSET Names
  BY NamesAssumption
<1>3. Keys(p) \in {NamedKeys(p), {"wildcard"}} /\ PrefixKeys(p) \in {NamedKeys(p), {}}
  BY Zenon DEF Keys, PrefixKeys
<1>. QED
  BY <1>1, <1>2, <1>3

LEMMA RootRight == Root \in Seq(Names) /\ Root # <<>> /\ Len(Root) = 1 /\ Root[1] = Empty /\ ~EmptySegment(Root)
<1>1. Root = <<Empty>> /\ Len(Root) = 1 /\ Root[1] = Empty /\ Root # <<>>
  BY DEF Root
<1>2. Root \in [1..1 -> Names]
  BY <1>1, NamesAssumption
<1>3. Root \in Seq(Names)
  BY <1>2, SeqDef
<1>4. 1..(Len(Root) - 1) = {}
  BY <1>1
<1>. QED
  BY <1>1, <1>3, <1>4 DEF EmptySegment

\* What a router sees of a path ends it, or is "/".
LEMMA ConsumedRight ==
  ASSUME NEW p \in Seq(Segment), NEW path \in Seq(Names), path # <<>>
  PROVE  /\ Consumed(p, path) \in Seq(Names)
         /\ Consumed(p, path) # <<>>
         /\ EmptySegment(Consumed(p, path)) => EmptySegment(path)
<1>. DEFINE c == Cut(p)
            left == IF Everything(c) THEN path ELSE IF HasWild(c) THEN <<>> ELSE SubSeq(path, Len(c) + 1, Len(path))
<1>1. Consumed(p, path) = IF left = <<>> THEN Root ELSE left
  BY DEF Consumed
<1>2. Root \in Seq(Names) /\ Root # <<>> /\ ~EmptySegment(Root)
  BY RootRight
<1>3. Len(path) \in Nat /\ \A i \in 1..Len(path) : path[i] \in Names
  BY LenProperties, ElementOfSeq
<1>4. Len(c) \in Nat
  BY CutRight
<1>. HIDE DEF c
<1>5. /\ SubSeq(path, Len(c) + 1, Len(path)) \in Seq(Names)
      /\ EmptySegment(SubSeq(path, Len(c) + 1, Len(path))) => EmptySegment(path)
  <2>. DEFINE m == Len(c) + 1
              n == Len(path)
              t == SubSeq(path, m, n)
  <2>1. m \in Nat /\ n \in Nat /\ m >= 1 /\ \A i \in m..n : path[i] \in Names
    BY <1>3, <1>4
  <2>. HIDE DEF m, n
  <2>2. /\ t \in Seq(Names)
        /\ Len(t) = IF m <= n THEN n - m + 1 ELSE 0
        /\ \A i \in 1..(n - m + 1) : t[i] = path[m + i - 1]
    BY <2>1, SubSeqProperties
  <2>. HIDE DEF t
  <2>3. ASSUME NEW i \in 1..(Len(t) - 1), t[i] = Empty PROVE \E j \in 1..(n - 1) : path[j] = Empty
    <3>1. m <= n
      BY <2>1, <2>2, <2>3
    <3>2. m + i - 1 \in 1..(n - 1) /\ t[i] = path[m + i - 1]
      BY <2>1, <2>2, <2>3, <3>1
    <3>. QED
      BY <2>3, <3>2
  <2>. QED
    BY <2>2, <2>3 DEF t, m, n, EmptySegment
<1>6. left \in Seq(Names) /\ (left # <<>> /\ EmptySegment(left) => EmptySegment(path))
  BY <1>5, EmptySeq
<1>. HIDE DEF left
<1>. QED
  BY <1>1, <1>2, <1>6

\* The tree and the expressions agree on which paths a pattern is for, but for "//".
LEMMA TreeMatches ==
  ASSUME NEW p \in Seq(Segment), NEW path \in Seq(Names), path # <<>>,
         Reaches(Shape(p), Segments(path)), ~EmptySegment(path)
  PROVE  Matches(p, path)
<1>. DEFINE c == Cut(p)
            s == Shape(p)
            g == Segments(path)
<1>1. /\ c \in Seq(Segment) /\ Len(c) \in Nat /\ DOMAIN c = 1..Len(c)
      /\ s \in Seq(Segment) /\ Len(s) = Len(c) /\ DOMAIN s = 1..Len(c)
      /\ \A i \in 1..Len(c) : /\ s[i].kind = c[i].kind
                              /\ c[i] \in Segment
                              /\ c[i].kind = "static" => s[i] = c[i]
  BY CutRight, ShapeRight
<1>2. c # <<>> <=> s # <<>>
  BY <1>1, EmptySeq
<1>3. HasWild(s) <=> HasWild(c)
  <2>1. c # <<>> => Len(c) \in 1..Len(c)
    BY <1>1, EmptySeq
  <2>. QED
    BY <1>1, <1>2, <2>1 DEF HasWild, Last
<1>4. /\ IF HasWild(s) THEN Len(s) <= Len(g) ELSE Len(s) = Len(g)
      /\ \A i \in DOMAIN s : s[i].kind = "static" => s[i].name = g[i]
  BY DEF Reaches
<1>5. Len(path) \in Nat \ {0} /\ \A i \in 1..Len(path) : path[i] \in Names
  BY LenProperties, ElementOfSeq, EmptySeq
<1>6. \A i \in 1..(Len(path) - 1) : path[i] # Empty
  BY DEF EmptySegment
<1>. HIDE DEF c, s
<1>7. CASE path = Root
  <2>1. g = <<>>
    BY <1>7 DEF Segments
  <2>2. ~HasWild(s)
    <3>1. SUFFICES ASSUME HasWild(s) PROVE FALSE
      OBVIOUS
    <3>2. Len(s) = 0
      BY <1>1, <1>4, <2>1, <3>1, EmptySeq
    <3>. QED
      BY <1>1, <3>1, <3>2, EmptySeq DEF HasWild
  <2>3. c = <<>>
    <3>1. Len(c) = 0
      BY <1>1, <1>4, <2>1, <2>2
    <3>. QED
      BY <1>1, <3>1, EmptySeq
  <2>. QED
    BY <1>7, <2>3 DEF Matches, c
<1>8. CASE path # Root
  <2>1. \/ /\ Last(path) = Empty /\ Len(g) = Len(path) - 1 /\ Len(path) > 1
           /\ \A i \in 1..(Len(path) - 1) : g[i] = path[i]
        \/ Last(path) # Empty /\ g = path
    <3>1. CASE Last(path) = Empty
      <4>. DEFINE f == Front(path)
      <4>1. f \in Seq(Names) /\ Len(f) = Len(path) - 1 /\ \A i \in 1..(Len(path) - 1) : f[i] = path[i]
        <5>. DEFINE n == Len(path) - 1
        <5>1. n \in Nat /\ \A i \in 1..n : path[i] \in Names
          BY <1>5
        <5>2. f = SubSeq(path, 1, n)
          BY DEF Front
        <5>. HIDE DEF n, f
        <5>3. /\ f \in Seq(Names)
              /\ Len(f) = IF 1 <= n THEN n - 1 + 1 ELSE 0
              /\ \A i \in 1..(n - 1 + 1) : f[i] = path[1 + i - 1]
          BY <5>1, <5>2, SubSeqProperties
        <5>4. Len(f) = n /\ \A i \in 1..n : f[i] = path[i]
          BY <5>1, <5>3
        <5>. QED
          BY <5>3, <5>4 DEF n
      <4>2. Len(path) > 1
        <5>0. Len(path) # 1 => Len(path) > 1
          <6>. DEFINE n == Len(path)
          <6>1. n \in Nat \ {0}
            BY <1>5
          <6>. HIDE DEF n
          <6>2. n # 1 => n > 1
            BY <6>1
          <6>. QED
            BY <6>2 DEF n
        <5>1. SUFFICES ASSUME Len(path) = 1 PROVE FALSE
          BY <5>0
        <5>2. path = Root
          <6>1. path[1] = Empty
            BY <3>1, <5>1 DEF Last
          <6>2. Len(Root) = 1 /\ Root \in Seq(Names) /\ Root[1] = Empty
            BY RootRight
          <6>3. \A i \in 1..Len(path) : path[i] = Root[i]
            BY <5>1, <6>1, <6>2
          <6>. QED
            BY <5>1, <6>2, <6>3, SeqEqual
        <5>. QED
          BY <1>8, <5>2
      <4>3. f # Root
        <5>1. SUFFICES ASSUME f = <<Empty>> PROVE FALSE
          BY DEF Root
        <5>2. f[1] = Empty /\ f[1] = path[1]
          BY <1>5, <4>1, <4>2, <5>1
        <5>. QED
          BY <1>5, <1>6, <4>2, <5>2
      <4>4. g = f
        BY <1>8, <3>1, <4>3 DEF Segments
      <4>. QED
        BY <3>1, <4>1, <4>2, <4>4
    <3>2. CASE Last(path) # Empty
      BY <1>8, <3>2 DEF Segments
    <3>. QED
      BY <3>1, <3>2
  <2>. HIDE DEF g
  <2>2. Len(g) \in Nat /\ Len(g) >= 1 /\ Len(g) <= Len(path) /\ \A i \in 1..Len(g) : g[i] = path[i] /\ path[i] # Empty
    <3>1. CASE Last(path) = Empty
      BY <1>5, <1>6, <2>1, <3>1
    <3>2. CASE Last(path) # Empty
      <4>1. \A i \in 1..Len(path) : i = Len(path) \/ i \in 1..(Len(path) - 1)
        BY <1>5
      <4>. QED
        BY <1>5, <1>6, <2>1, <3>2, <4>1 DEF Last
    <3>. QED
      BY <3>1, <3>2
  <2>3. c # <<>>
    <3>1. SUFFICES ASSUME c = <<>> PROVE FALSE
      OBVIOUS
    <3>2. Len(s) = 0 /\ ~HasWild(s)
      BY <1>1, <1>2, <3>1, EmptySeq DEF HasWild
    <3>. QED
      BY <1>4, <2>2, <3>2
  <2>4. Len(c) <= Len(g)
    BY <1>1, <1>4, <2>2
  <2>5. Fits(c, path)
    <3>1. ASSUME NEW i \in DOMAIN c, c[i].kind # "wild" PROVE SegmentMatches(c[i], path[i])
      <4>1. i \in 1..Len(g) /\ path[i] # Empty /\ g[i] = path[i]
        BY <1>1, <2>2, <2>4
      <4>2. c[i].kind = "static" \/ c[i].kind = "param"
        BY <1>1, <3>1 DEF Segment
      <4>3. c[i].kind = "static" => c[i].name = path[i]
        BY <1>1, <1>4, <4>1
      <4>. QED
        BY <4>1, <4>2, <4>3 DEF SegmentMatches
    <3>. QED
      BY <1>1, <1>5, <2>2, <2>4, <3>1 DEF Fits
  <2>6. HasWild(c) \/ Len(c) = Len(path) \/ (Len(c) + 1 = Len(path) /\ Last(path) = Empty)
    BY <1>1, <1>3, <1>4, <1>5, <2>1
  <2>. QED
    BY <2>3, <2>5, <2>6 DEF Matches, c
<1>. QED
  BY <1>7, <1>8


(***************************************************************************)
(* Registration.                                                           *)
(***************************************************************************)
\* One prefix of a sequence and its next element.
LEMMA PrefixRight ==
  ASSUME NEW S, NEW s \in Seq(S), NEW r, NEW t \in Seq(S), IsPrefix(Append(s, r), t), r \in S
  PROVE  /\ Append(s, r) \in Seq(S)
         /\ Len(Append(s, r)) = Len(s) + 1
         /\ Len(s) + 1 <= Len(t)
         /\ \A i \in 1..(Len(s) + 1) : Append(s, r)[i] = t[i]
<1>. DEFINE u == Append(s, r)
            n == Len(s) + 1
<1>1. /\ u \in Seq(S) /\ Len(u) = n /\ n \in Nat /\ n >= 1 /\ Len(t) \in Nat
      /\ \A i \in 1..n : u[i] \in S
      /\ \A i \in 1..Len(t) : t[i] \in S
  BY AppendProperties, LenProperties, ElementOfSeq
<1>2. n <= Len(t) /\ SubSeq(u, 1, n) = SubSeq(t, 1, n)
  BY <1>1 DEF IsPrefix
<1>. HIDE DEF n, u
<1>3. \A i \in 1..(n - 1 + 1) : SubSeq(u, 1, n)[i] = u[1 + i - 1]
  BY <1>1, SubSeqProperties
<1>4. \A i \in 1..(n - 1 + 1) : SubSeq(t, 1, n)[i] = t[1 + i - 1]
  <2>1. \A i \in 1..n : t[i] \in S
    BY <1>1, <1>2
  <2>. QED
    BY <1>1, <2>1, SubSeqProperties
<1>5. \A i \in 1..n : u[i] = t[i]
  BY <1>1, <1>2, <1>3, <1>4
<1>. QED
  BY <1>1, <1>2, <1>5 DEF u, n

LEMMA InPlaceOfPrefix ==
  ASSUME NEW a \in Seq(Registration), NEW t \in Seq(Registration), InPlace(t), Len(a) <= Len(t),
         \A i \in 1..Len(a) : a[i] = t[i]
  PROVE  InPlace(a)
<1>1. Len(a) \in Nat /\ Len(t) \in Nat /\ DOMAIN a = 1..Len(a) /\ DOMAIN t = 1..Len(t)
  BY LenProperties
<1>2. ASSUME NEW k \in 1..Len(a) 
      PROVE  /\ a[k].at \in Nat /\ a[k].at < k /\ k \in 1..Len(t) /\ a[k] = t[k]
             /\ (a[k].at + 1)..(k - 1) \subseteq 1..Len(a)
             /\ a[k].at > 0 => a[k].at \in 1..Len(a)
  <2>1. a[k] \in Registration
    BY <1>1, ElementOfSeq
  <2>2. a[k].at \in Nat
    BY <2>1 DEF Registration
  <2>3. k \in 1..Len(t)
    BY <1>1
  <2>4. a[k].at < k
    BY <1>1, <2>3 DEF InPlace
  <2>. QED
    BY <1>1, <2>2, <2>3, <2>4
<1>3. ASSUME NEW k \in DOMAIN a
      PROVE  /\ a[k].at > 0 => a[a[k].at].kind \in Mounts
             /\ \A j \in (a[k].at + 1)..(k - 1) : a[j].at >= a[k].at
             /\ a[k].at > 0 /\ a[a[k].at].kind = "scope" => a[k].kind \in {"use", "static", "router"}
             /\ a[k].kind = "static" => \A i \in DOMAIN a[k].pattern : a[k].pattern[i].kind = "static"
             /\ a[k].errors => a[k].kind = "use"
  <2>1. k \in DOMAIN t /\ k \in 1..Len(a)
    BY <1>1, <1>2
  <2>2. /\ t[k].at > 0 => t[t[k].at].kind \in Mounts
        /\ \A j \in (t[k].at + 1)..(k - 1) : t[j].at >= t[k].at
        /\ t[k].at > 0 /\ t[t[k].at].kind = "scope" => t[k].kind \in {"use", "static", "router"}
        /\ t[k].kind = "static" => \A i \in DOMAIN t[k].pattern : t[k].pattern[i].kind = "static"
        /\ t[k].errors => t[k].kind = "use"
    BY <2>1 DEF InPlace
  <2>3. \A j \in (a[k].at + 1)..(k - 1) : a[j] = t[j]
    BY <1>2, <2>1
  <2>4. a[k].at > 0 => a[a[k].at] = t[a[k].at]
    BY <1>2, <2>1
  <2>. QED
    BY <1>2, <2>1, <2>2, <2>3, <2>4
<1>4. \A k \in DOMAIN a : a[k].at < k
  BY <1>1, <1>2
<1>. QED
  BY <1>3, <1>4 DEF InPlace

\* What is known of a registration.
LEMMA Placed ==
  ASSUME NEW a \in Seq(Registration), InPlace(a), NEW k \in DOMAIN a
  PROVE  /\ k \in Nat /\ Len(a) \in Nat /\ k >= 1 /\ k <= Len(a) /\ k \in 1..Len(a)
         /\ a[k] \in Registration
         /\ a[k].at \in Nat /\ a[k].at < k /\ a[k].at \in 0..Len(a)
         /\ a[k].at > 0 => a[k].at \in DOMAIN a
         /\ a[k].pattern \in Seq(Segment)
<1>1. Len(a) \in Nat /\ DOMAIN a = 1..Len(a) /\ a[k] \in Registration
  BY LenProperties, ElementOfSeq
<1>2. a[k].at \in Nat /\ a[k].pattern \in Seq(Segment)
  BY <1>1 DEF Registration
<1>3. a[k].at < k
  BY <1>1 DEF InPlace
<1>. QED
  BY <1>1, <1>2, <1>3

(* Inside is what it says.                                                 *)
Reached(sequence, req, inside, m) ==
  IF m = 0 THEN [reached |-> TRUE, path |-> req.path]
  ELSE LET outer == inside[sequence[m].at] IN
       IF sequence[m].kind = "router"
       THEN [reached |-> outer.reached /\ MatchesPrefix(sequence[m].pattern, outer.path),
             path |-> Consumed(sequence[m].pattern, outer.path)]
       ELSE [reached |-> outer.reached /\ sequence[m].kind = "scope" /\ req.host,
             path |-> outer.path]

LEMMA InsideRight ==
  ASSUME NEW a \in Seq(Registration), InPlace(a), NEW q
  PROVE  /\ Inside(a, q)[0] = [reached |-> TRUE, path |-> q.path]
         /\ \A m \in DOMAIN a : Inside(a, q)[m] = Reached(a, q, Inside(a, q), m)
<1>. DEFINE Good(n, f) == f = [m \in 0..n |-> Reached(a, q, f, m)]
            L == Len(a)
<1>1. L \in Nat /\ DOMAIN a = 1..L
  BY LenProperties
<1>2. \A k \in 1..L : a[k].at \in 0..(k - 1)
  BY <1>1, Placed
<1>. HIDE DEF L
<1>. DEFINE N == {n \in Nat : n <= L => \E f : Good(n, f)}
<1>3. 0 \in N
  <2>. DEFINE f == [m \in 0..0 |-> Reached(a, q, <<>>, 0)]
  <2>1. Reached(a, q, f, 0) = Reached(a, q, <<>>, 0)
    BY DEF Reached
  <2>2. \A m \in 0..0 : m = 0
    OBVIOUS
  <2>. HIDE DEF f
  <2>3. f = [m \in 0..0 |-> Reached(a, q, f, m)]
    BY <2>1, <2>2 DEF f
  <2>. QED
    BY <2>3
<1>4. ASSUME NEW n \in N PROVE n + 1 \in N
  <2>1. SUFFICES ASSUME n + 1 <= L PROVE \E f : Good(n + 1, f)
    OBVIOUS
  <2>2. PICK f : Good(n, f)
    BY <1>1, <2>1
  <2>. DEFINE g == [m \in 0..(n + 1) |-> IF m = n + 1 THEN Reached(a, q, f, n + 1) ELSE f[m]]
  <2>3. \A m \in 0..n : g[m] = f[m]
    OBVIOUS
  <2>4. \A m \in 0..n : f[m] = Reached(a, q, f, m)
    BY <2>2
  <2>5. g[n + 1] = Reached(a, q, f, n + 1)
    OBVIOUS
  <2>6. DOMAIN g = 0..(n + 1) /\ g = [m \in 0..(n + 1) |-> g[m]]
    OBVIOUS
  <2>. HIDE DEF g
  <2>7. ASSUME NEW m \in 0..(n + 1) PROVE Reached(a, q, g, m) = Reached(a, q, f, m)
    <3>1. CASE m = 0
      BY <3>1 DEF Reached
    <3>2. CASE m # 0
      <4>1. m \in 1..L /\ a[m].at \in 0..n
        BY <1>1, <1>2, <2>1, <3>2
      <4>2. g[a[m].at] = f[a[m].at]
        BY <2>3, <4>1
      <4>. QED
        BY <4>2 DEF Reached
    <3>. QED
      BY <3>1, <3>2
  <2>8. \A m \in 0..(n + 1) : g[m] = Reached(a, q, g, m)
    <3>1. \A m \in 0..(n + 1) : m \in 0..n \/ m = n + 1
      OBVIOUS
    <3>. QED
      BY <2>3, <2>4, <2>5, <2>7, <3>1
  <2>9. Good(n + 1, g)
    BY <2>6, <2>8
  <2>. QED
    BY <2>9
<1>5. L \in N
  <2>. HIDE DEF N
  <2>1. N \in SUBSET Nat
    BY DEF N
  <2>2. CASE Nat \ N # {}
    <3>1. PICK x \in Nat \ N : \A y \in Nat \ N : x <= y
      BY <2>2, LeastNumber
    <3>2. x # 0 /\ x - 1 \in Nat
      BY <1>3, <3>1
    <3>3. x - 1 \in N
      BY <3>1, <3>2
    <3>4. (x - 1) + 1 \in N
      BY <1>4, <3>3
    <3>5. (x - 1) + 1 = x
      BY <3>1, <3>2
    <3>. QED
      BY <3>1, <3>4, <3>5
  <2>. QED
    BY <1>1, <2>1, <2>2
<1>6. PICK first : Good(L, first)
  BY <1>1, <1>5
<1>. DEFINE I == CHOOSE f : Good(L, f)
<1>7. Good(L, I)
  BY <1>6
<1>8. Inside(a, q) = I
  BY Zenon DEF Inside, Reached, L
<1>. HIDE DEF I
<1>9. \A m \in 0..L : I[m] = Reached(a, q, I, m)
  BY <1>7
<1>10. I[0] = [reached |-> TRUE, path |-> q.path]
  <2>1. 0 \in 0..L
    BY <1>1
  <2>2. Reached(a, q, I, 0) = [reached |-> TRUE, path |-> q.path]
    BY DEF Reached
  <2>. QED
    BY <1>9, <2>1, <2>2
<1>. QED
  BY <1>1, <1>8, <1>9, <1>10


\* a and one registration more, number id.
Longer(a, b, id) ==
  /\ a \in Seq(Registration)
  /\ b \in Seq(Registration)
  /\ InPlace(b)
  /\ id = Len(a) + 1
  /\ Len(b) = id
  /\ \A i \in 1..Len(a) : b[i] = a[i]

LEMMA LongerRight ==
  ASSUME NEW a, NEW b, NEW id, Longer(a, b, id)
  PROVE  /\ Len(a) \in Nat /\ id \in Nat /\ id >= 1 /\ id \notin DOMAIN a /\ id \in DOMAIN b
         /\ DOMAIN a = 1..Len(a)
         /\ \A i \in DOMAIN a : i \in DOMAIN b /\ b[i] = a[i] /\ i < id /\ i \in Nat
         /\ \A i \in DOMAIN b : i \in DOMAIN a \/ i = id
         /\ b[id] \in Registration /\ b[id].at \in Nat /\ b[id].at < id
<1>1. Len(a) \in Nat /\ DOMAIN a = 1..Len(a) /\ DOMAIN b = 1..Len(b) /\ id = Len(a) + 1 /\ Len(b) = id
  BY LenProperties DEF Longer
<1>2. id \in DOMAIN b /\ id \notin DOMAIN a /\ id \in Nat /\ id >= 1
  BY <1>1
<1>3. b[id] \in Registration /\ b[id].at \in Nat /\ b[id].at < id
  BY <1>2, Placed DEF Longer
<1>4. \A i \in DOMAIN b : i \in DOMAIN a \/ i = id
  BY <1>1
<1>5. \A i \in DOMAIN a : i \in DOMAIN b /\ b[i] = a[i] /\ i < id /\ i \in Nat
  BY <1>1 DEF Longer
<1>. QED
  BY <1>1, <1>2, <1>3, <1>4, <1>5

LEMMA LayersStay ==
  ASSUME NEW a, NEW b, NEW id, Longer(a, b, id), NEW m, NEW layers, LayersRight(a, m, layers), b[id].at # m
  PROVE  LayersRight(b, m, layers)
<1>1. \A k \in DOMAIN layers : layers[k].id \in DOMAIN a
  BY DEF LayersRight
<1>2. \A k \in DOMAIN layers : b[layers[k].id] = a[layers[k].id] /\ layers[k].id \in DOMAIN b
  BY <1>1, LongerRight
<1>3. \A i \in DOMAIN b : b[i].at = m => i \in DOMAIN a /\ a[i].at = m
  BY LongerRight
<1>. QED
  BY <1>2, <1>3 DEF LayersRight

LEMMA LayersGrow ==
  ASSUME NEW a, NEW b, NEW id, Longer(a, b, id), NEW m, NEW r, LayersRight(a, m, r.layers), b[id].at = m
  PROVE  LayersRight(b, m, Append(r.layers, LayerOf(b[id], id)))
<1>. DEFINE l == LayerOf(b[id], id)
            old == r.layers
            new == Append(old, l)
            n == Len(old)
<1>1. l \in LayerRecord
  BY LongerRight DEF LayerRecord, LayerOf, Registration
<1>2. l.id = id /\ l.kind = b[id].kind /\ l.method = b[id].method /\ l.pattern = b[id].pattern /\ l.errors = b[id].errors
  BY DEF LayerOf
<1>3. old \in Seq(LayerRecord)
  BY DEF LayersRight
<1>. HIDE DEF l
<1>4. /\ new \in Seq(LayerRecord) /\ n \in Nat /\ DOMAIN old = 1..n /\ DOMAIN new = 1..(n + 1)
      /\ new[n + 1] = l /\ \A k \in 1..n : new[k] = old[k]
  <2>1. /\ new \in Seq(LayerRecord) /\ Len(new) = n + 1 /\ \A k \in 1..n : new[k] = old[k]
        /\ new[n + 1] = l
    BY <1>1, <1>3, AppendProperties
  <2>. HIDE DEF new
  <2>. QED
    BY <1>3, <2>1, LenProperties
<1>. HIDE DEF new, n, old
<1>5. \A k \in 1..n : /\ old[k].id \in DOMAIN a /\ a[old[k].id].at = m /\ old[k].kind = a[old[k].id].kind
                      /\ old[k].method = a[old[k].id].method /\ old[k].pattern = a[old[k].id].pattern
                      /\ old[k].errors = a[old[k].id].errors
  BY <1>4 DEF LayersRight, old
<1>6. \A k \in 1..n : /\ new[k].id \in DOMAIN b /\ b[new[k].id] = a[new[k].id] /\ new[k].id < id
  BY <1>4, <1>5, LongerRight
<1>7. \A k \in DOMAIN new : k \in 1..n \/ k = n + 1
  BY <1>4
<1>8. ASSUME NEW k \in DOMAIN new
      PROVE  /\ new[k].id \in DOMAIN b /\ b[new[k].id].at = m /\ new[k].kind = b[new[k].id].kind
             /\ new[k].method = b[new[k].id].method /\ new[k].pattern = b[new[k].id].pattern
             /\ new[k].errors = b[new[k].id].errors
  <2>1. CASE k \in 1..n
    BY <1>4, <1>5, <1>6, <2>1
  <2>2. CASE k = n + 1
    BY <1>2, <1>4, <2>2, LongerRight
  <2>. QED
    BY <1>7, <2>1, <2>2
<1>9. \A j, k \in DOMAIN new : j < k => new[j].id < new[k].id
  <2>1. \A j, k \in 1..n : j < k => new[j].id < new[k].id
    BY <1>4 DEF LayersRight, old
  <2>2. \A j, k \in DOMAIN new : j < k => j \in 1..n
    BY <1>4
  <2>. QED
    BY <1>2, <1>4, <1>6, <1>7, <2>1, <2>2
<1>10. ASSUME NEW i \in DOMAIN b, b[i].at = m PROVE \E k \in DOMAIN new : new[k].id = i
  <2>1. CASE i = id
    <3>1. n + 1 \in DOMAIN new
      BY <1>4
    <3>. QED
      BY <1>2, <1>4, <2>1, <3>1
  <2>2. CASE i \in DOMAIN a
    <3>1. a[i].at = m
      BY <1>10, <2>2, LongerRight
    <3>2. PICK k \in 1..n : old[k].id = i
      BY <1>4, <2>2, <3>1 DEF LayersRight, old
    <3>3. k \in DOMAIN new /\ new[k] = old[k]
      BY <1>4
    <3>. QED
      BY <3>2, <3>3
  <2>. QED
    BY <2>1, <2>2, LongerRight
<1>. QED
  BY <1>4, <1>8, <1>9, <1>10 DEF LayersRight, new, old, l

LEMMA EntryStays ==
  ASSUME NEW a, NEW b, NEW id, Longer(a, b, id), NEW m, NEW named, NEW more, named \subseteq more,
         NEW at, NEW entry, EntryRight(a, m, named, at, entry)
  PROVE  EntryRight(b, m, more, at, entry)
<1>1. \A i \in DOMAIN a : i \in DOMAIN b /\ b[i] = a[i]
  BY LongerRight
<1>2. ASSUME NEW k \in DOMAIN entry.handlers
      PROVE  entry.handlers[k] \in DOMAIN b /\ b[entry.handlers[k]] = a[entry.handlers[k]]
  BY <1>1 DEF EntryRight
<1>. QED
  BY <1>2 DEF EntryRight

LEMMA TreeStays ==
  ASSUME NEW a, NEW b, NEW id, Longer(a, b, id), NEW m, NEW tree, TreeRight(a, m, tree)
  PROVE  TreeRight(b, m, tree)
<1>1. \A i \in DOMAIN a : i \in DOMAIN b /\ b[i] = a[i]
  BY LongerRight
<1>2. \A at \in DOMAIN tree.routes : EntryRight(b, m, DOMAIN tree.keys, at, tree.routes[at])
  BY EntryStays DEF TreeRight
<1>3. ASSUME NEW node \in DOMAIN tree.keys
      PROVE  \E i \in DOMAIN b, n \in Nat :
               /\ b[i].at = m
               /\ b[i].kind = "route"
               /\ n \in Nodes(b[i].pattern)
               /\ node = SubSeq(Shape(b[i].pattern), 1, n)
               /\ tree.keys[node] = b[i].pattern[n].name
  BY <1>1 DEF TreeRight
<1>. QED
  BY <1>2, <1>3 DEF TreeRight

LEMMA NodeLength ==
  ASSUME NEW p \in Seq(Segment), NEW i \in Nodes(p)
  PROVE  i \in Nat /\ Len(SubSeq(Shape(p), 1, i)) = i
<1>1. i \in 1..Len(Shape(p)) /\ Len(Shape(p)) \in Nat
  BY CutRight, ShapeRight DEF Nodes
<1>2. \A k \in 1..i : Shape(p)[k] \in Segment
  BY <1>1, ShapeRight, ElementOfSeq
<1>. QED
  BY <1>1, <1>2, SubSeqProperties

LEMMA TreeGrows ==
  ASSUME NEW a, NEW b, NEW id, Longer(a, b, id), NEW m, NEW tree, TreeRight(a, m, tree),
         b[id].at = m, b[id].kind = "route"
  PROVE  TreeRight(b, m, AddToTree(tree, b[id].method, b[id].pattern, id))
<1>. DEFINE p == b[id].pattern
            at == <<Shape(p), b[id].method>>
            known == at \in DOMAIN tree.routes
            entry == [path |-> IF known THEN tree.routes[at].path ELSE p,
                      handlers |-> IF known THEN Append(tree.routes[at].handlers, id) ELSE <<id>>]
            named == {SubSeq(Shape(p), 1, i) : i \in Nodes(p)}
            new == AddToTree(tree, b[id].method, p, id)
<1>1. /\ DOMAIN new.routes = DOMAIN tree.routes \cup {at}
      /\ \A x \in DOMAIN new.routes : new.routes[x] = IF x = at THEN entry ELSE tree.routes[x]
      /\ DOMAIN new.keys = DOMAIN tree.keys \cup named
      /\ \A s \in DOMAIN new.keys : new.keys[s] = IF s \in DOMAIN tree.keys THEN tree.keys[s] ELSE p[Len(s)].name
  BY DEF AddToTree
<1>2. id \in DOMAIN b /\ p \in Seq(Segment) /\ id \in Nat
  BY LongerRight, Placed DEF Longer
<1>3. TreeRight(b, m, tree)
  BY TreeStays
<1>. HIDE DEF new
<1>4. ASSUME NEW x \in DOMAIN new.routes, x # at
      PROVE  x \in DOMAIN tree.routes /\ new.routes[x] = tree.routes[x]
  BY <1>1, <1>4
<1>5. known => /\ tree.routes[at].path \in Seq(Segment)
               /\ tree.routes[at].handlers \in Seq(Nat)
               /\ \A k \in DOMAIN tree.routes[at].handlers :
                    LET r == b[tree.routes[at].handlers[k]] IN
                    /\ tree.routes[at].handlers[k] \in DOMAIN b
                    /\ tree.routes[at].handlers[k] < id
                    /\ r.at = m
                    /\ r.kind = "route"
                    /\ at = <<Shape(r.pattern), r.method>>
                    /\ \A i \in Nodes(r.pattern) : SubSeq(Shape(r.pattern), 1, i) \in DOMAIN tree.keys
               /\ \A j, k \in DOMAIN tree.routes[at].handlers :
                    j < k => tree.routes[at].handlers[j] < tree.routes[at].handlers[k]
  <2>1. SUFFICES ASSUME known PROVE \A k \in DOMAIN tree.routes[at].handlers : tree.routes[at].handlers[k] < id
    BY <1>3 DEF TreeRight, EntryRight
  <2>2. \A k \in DOMAIN tree.routes[at].handlers : tree.routes[at].handlers[k] \in DOMAIN a
    BY <2>1 DEF TreeRight, EntryRight
  <2>. QED
    BY <2>2, LongerRight
<1>6. \A i \in Nodes(p) : SubSeq(Shape(p), 1, i) \in DOMAIN new.keys
  BY <1>1
<1>. DEFINE hs == entry.handlers
<1>7. /\ hs \in Seq(Nat) /\ hs # <<>>
      /\ \A k \in DOMAIN hs : hs[k] = id \/ (known /\ k \in DOMAIN tree.routes[at].handlers /\ hs[k] = tree.routes[at].handlers[k])
      /\ \A j, k \in DOMAIN hs : j < k => known /\ j \in DOMAIN tree.routes[at].handlers /\ hs[j] = tree.routes[at].handlers[j]
  <2>1. CASE known
    <3>. DEFINE os == tree.routes[at].handlers
    <3>1. os \in Seq(Nat) /\ hs = Append(os, id)
      BY <1>5, <2>1
    <3>. HIDE DEF os, hs
    <3>2. /\ hs \in Seq(Nat) /\ hs # <<>> /\ Len(hs) = Len(os) + 1
          /\ \A i \in 1..Len(os) : hs[i] = os[i]
          /\ hs[Len(os) + 1] = id
      BY <1>2, <3>1, AppendProperties
    <3>3. DOMAIN hs = 1..(Len(os) + 1) /\ DOMAIN os = 1..Len(os) /\ Len(os) \in Nat
      BY <3>1, <3>2, LenProperties
    <3>4. \A k \in DOMAIN hs : hs[k] = id \/ (k \in DOMAIN os /\ hs[k] = os[k])
      BY <3>2, <3>3
    <3>5. \A j, k \in DOMAIN hs : j < k => j \in DOMAIN os /\ hs[j] = os[j]
      BY <3>2, <3>3
    <3>. QED
      BY <2>1, <3>2, <3>4, <3>5 DEF os
  <2>2. CASE ~known
    <3>1. hs = <<id>>
      BY <2>2
    <3>. HIDE DEF hs
    <3>2. <<id>> \in Seq(Nat) /\ DOMAIN <<id>> = {1} /\ <<id>>[1] = id
      BY <1>2
    <3>. QED
      BY <3>1, <3>2
  <2>. QED
    BY <2>1, <2>2
<1>8. entry.path \in Seq(Segment)
  BY <1>2, <1>5
<1>9. \A x \in DOMAIN new.routes : x = at => new.routes[x].path = entry.path /\ new.routes[x].handlers = hs
  BY <1>1
<1>. HIDE DEF hs, entry, named, known
<1>10. ASSUME NEW k \in DOMAIN hs
       PROVE  /\ hs[k] \in DOMAIN b
              /\ b[hs[k]].at = m
              /\ b[hs[k]].kind = "route"
              /\ at = <<Shape(b[hs[k]].pattern), b[hs[k]].method>>
              /\ \A i \in Nodes(b[hs[k]].pattern) : SubSeq(Shape(b[hs[k]].pattern), 1, i) \in DOMAIN new.keys
  <2>1. CASE hs[k] = id
    BY <1>2, <1>6, <2>1
  <2>2. CASE known /\ k \in DOMAIN tree.routes[at].handlers /\ hs[k] = tree.routes[at].handlers[k]
    BY <1>1, <1>5, <2>2
  <2>. QED
    BY <1>7, <2>1, <2>2
<1>11. \A j, k \in DOMAIN hs : j < k => hs[j] < hs[k]
  <2>1. SUFFICES ASSUME NEW j \in DOMAIN hs, NEW k \in DOMAIN hs, j < k PROVE hs[j] < hs[k]
    OBVIOUS
  <2>2. known /\ j \in DOMAIN tree.routes[at].handlers /\ hs[j] = tree.routes[at].handlers[j]
    BY <1>7, <2>1
  <2>3. CASE hs[k] = id
    BY <1>5, <2>2, <2>3
  <2>4. CASE k \in DOMAIN tree.routes[at].handlers /\ hs[k] = tree.routes[at].handlers[k]
    BY <1>5, <2>1, <2>2, <2>4
  <2>. QED
    BY <1>7, <2>3, <2>4
<1>12. ASSUME NEW x \in DOMAIN new.routes
       PROVE  EntryRight(b, m, DOMAIN new.keys, x, new.routes[x])
  <2>1. CASE x = at
    BY <1>7, <1>8, <1>9, <1>10, <1>11, <2>1 DEF EntryRight
  <2>2. CASE x # at
    <3>1. EntryRight(a, m, DOMAIN tree.keys, x, tree.routes[x])
      BY <1>4, <2>2 DEF TreeRight
    <3>2. DOMAIN tree.keys \subseteq DOMAIN new.keys
      BY <1>1
    <3>. QED
      BY <1>4, <2>2, <3>1, <3>2, EntryStays
  <2>. QED
    BY <2>1, <2>2
<1>13. ASSUME NEW node \in DOMAIN new.keys
       PROVE  \E i \in DOMAIN b, n \in Nat :
                /\ b[i].at = m
                /\ b[i].kind = "route"
                /\ n \in Nodes(b[i].pattern)
                /\ node = SubSeq(Shape(b[i].pattern), 1, n)
                /\ new.keys[node] = b[i].pattern[n].name
  <2>1. CASE node \in DOMAIN tree.keys
    <3>1. new.keys[node] = tree.keys[node]
      BY <1>1, <2>1
    <3>. QED
      BY <1>3, <2>1, <3>1 DEF TreeRight
  <2>2. CASE node \notin DOMAIN tree.keys
    <3>1. PICK i \in Nodes(p) : node = SubSeq(Shape(p), 1, i)
      BY <1>1, <2>2 DEF named
    <3>2. i \in Nat /\ Len(node) = i
      BY <1>2, <3>1, NodeLength
    <3>3. new.keys[node] = p[i].name
      BY <1>1, <2>2, <3>2
    <3>. QED
      BY <1>2, <3>1, <3>2, <3>3
  <2>. QED
    BY <2>1, <2>2
<1>. QED
  BY <1>12, <1>13 DEF TreeRight, new


LEMMA NewRouterRight ==
  ASSUME NEW a, NEW m, \A i \in DOMAIN a : a[i].at # m
  PROVE  RouterRight(a, m, NewRouter)
<1>1. NewRouter.layers = <<>> /\ NewRouter.tree = NoRoutes /\ NewRouter.enabled = TRUE
      /\ NewRouter = [layers |-> NewRouter.layers, tree |-> NewRouter.tree, enabled |-> NewRouter.enabled]
  BY DEF NewRouter
<1>2. LayersRight(a, m, <<>>)
  <2>1. <<>> \in Seq(LayerRecord) /\ DOMAIN <<>> = {}
    BY EmptySeq
  <2>. QED
    BY <2>1 DEF LayersRight
<1>3. TreeRight(a, m, NoRoutes)
  <2>1. DOMAIN NoRoutes.routes = {} /\ DOMAIN NoRoutes.keys = {}
    BY DEF NoRoutes
  <2>. QED
    BY <2>1 DEF TreeRight
<1>. QED
  BY <1>1, <1>2, <1>3 DEF RouterRight

LEMMA WorldBegins == World(<<>>, [m \in {0} |-> NewRouter])
<1>. DEFINE R == [m \in {0} |-> NewRouter]
<1>1. <<>> \in Seq(Registration) /\ Len(<<>>) = 0 /\ DOMAIN <<>> = {}
  BY EmptySeq
<1>2. 0..0 = {0}
  OBVIOUS
<1>3. RouterRight(<<>>, 0, NewRouter)
  BY <1>1, NewRouterRight
<1>. QED
  BY <1>1, <1>2, <1>3 DEF World, InPlace

LEMMA RouterStays ==
  ASSUME NEW a, NEW b, NEW id, Longer(a, b, id), NEW m, NEW r, RouterRight(a, m, r), b[id].at # m
  PROVE  RouterRight(b, m, r)
<1>1. LayersRight(b, m, r.layers)
  BY LayersStay DEF RouterRight
<1>2. r.enabled => TreeRight(b, m, r.tree)
  BY TreeStays DEF RouterRight
<1>3. r.enabled => \A i \in DOMAIN b : b[i].at = m => b[i].kind = "route"
  BY LongerRight DEF RouterRight
<1>. QED
  BY <1>1, <1>2, <1>3 DEF RouterRight

\* What registration makes of a router.
RouterRecord(r) == r = [layers |-> r.layers, tree |-> r.tree, enabled |-> r.enabled]
LayersWith(r, c, id) == Append(r.layers, LayerOf(c, id))
TreeWith(r, c, id) == AddToTree(r.tree, c.method, c.pattern, id)

LEMMA LayeredIs ==
  ASSUME NEW r, NEW c, NEW id, RouterRecord(r)
  PROVE  Layered(r, c, id) = [layers |-> LayersWith(r, c, id), tree |-> r.tree, enabled |-> r.enabled]
<1>1. Layered(r, c, id) = [r EXCEPT !.layers = LayersWith(r, c, id)]
  BY DEF Layered, LayersWith, LayerOf
<1>. QED
  BY <1>1 DEF RouterRecord

LEMMA UntreedIs ==
  ASSUME NEW r, RouterRecord(r)
  PROVE  /\ Untreed(r) = [layers |-> r.layers, tree |-> NoRoutes, enabled |-> FALSE]
         /\ RouterRecord(Untreed(r))
<1>. DEFINE x == [r EXCEPT !.tree = NoRoutes]
<1>1. x = [layers |-> r.layers, tree |-> NoRoutes, enabled |-> r.enabled]
  BY DEF RouterRecord
<1>2. Untreed(r) = [x EXCEPT !.enabled = FALSE]
  BY DEF Untreed
<1>. HIDE DEF x
<1>3. Untreed(r) = [layers |-> r.layers, tree |-> NoRoutes, enabled |-> FALSE]
  BY <1>1, <1>2
<1>. QED
  BY <1>3 DEF RouterRecord

LEMMA RegisteredIs ==
  ASSUME NEW r, NEW c, NEW id, RouterRecord(r)
  PROVE  /\ c.kind = "route" /\ r.enabled =>
              Registered(r, c, id) = [layers |-> LayersWith(r, c, id), tree |-> TreeWith(r, c, id), enabled |-> r.enabled]
         /\ c.kind = "route" /\ ~r.enabled => Registered(r, c, id) = Layered(r, c, id)
         /\ c.kind # "route" =>
              Registered(r, c, id) = [layers |-> LayersWith(r, c, id), tree |-> NoRoutes, enabled |-> FALSE]
<1>1. ASSUME c.kind = "route", r.enabled
      PROVE  Registered(r, c, id) = [layers |-> LayersWith(r, c, id), tree |-> TreeWith(r, c, id), enabled |-> r.enabled]
  <2>. DEFINE x == Layered(r, c, id)
  <2>1. Registered(r, c, id) = [x EXCEPT !.tree = AddToTree(x.tree, c.method, c.pattern, id)]
    BY <1>1 DEF Registered, AddRoute
  <2>2. x = [layers |-> LayersWith(r, c, id), tree |-> r.tree, enabled |-> r.enabled]
    BY LayeredIs
  <2>. HIDE DEF x
  <2>3. Registered(r, c, id) = [x EXCEPT !.tree = TreeWith(r, c, id)]
    BY <2>1, <2>2 DEF TreeWith
  <2>. QED
    BY <2>2, <2>3
<1>2. c.kind = "route" /\ ~r.enabled => Registered(r, c, id) = Layered(r, c, id)
  BY Zenon DEF Registered, AddRoute
<1>3. ASSUME c.kind # "route"
      PROVE  Registered(r, c, id) = [layers |-> LayersWith(r, c, id), tree |-> NoRoutes, enabled |-> FALSE]
  <2>. DEFINE u == Untreed(r)
  <2>1. Registered(r, c, id) = Layered(u, c, id)
    BY <1>3 DEF Registered, AddOther
  <2>2. u = [layers |-> r.layers, tree |-> NoRoutes, enabled |-> FALSE] /\ RouterRecord(u)
    BY UntreedIs
  <2>. HIDE DEF u
  <2>3. Layered(u, c, id) = [layers |-> LayersWith(u, c, id), tree |-> u.tree, enabled |-> u.enabled]
    BY <2>2, LayeredIs
  <2>4. LayersWith(u, c, id) = LayersWith(r, c, id)
    BY <2>2 DEF LayersWith
  <2>5. u.tree = NoRoutes /\ u.enabled = FALSE
    BY <2>2
  <2>. QED
    BY <2>1, <2>3, <2>4, <2>5
<1>. QED
  BY <1>1, <1>2, <1>3

LEMMA RouterGrows ==
  ASSUME NEW a, NEW b, NEW id, Longer(a, b, id), NEW m, NEW r, RouterRight(a, m, r), b[id].at = m
  PROVE  RouterRight(b, m, Registered(r, b[id], id))
<1>. DEFINE new == Registered(r, b[id], id)
            grown == LayersWith(r, b[id], id)
            tree == TreeWith(r, b[id], id)
<1>1. r = [layers |-> r.layers, tree |-> r.tree, enabled |-> r.enabled] /\ r.enabled \in BOOLEAN
  BY DEF RouterRight
<1>2. LayersRight(b, m, grown)
  BY LayersGrow DEF RouterRight, LayersWith
<1>3. /\ b[id].kind = "route" /\ r.enabled => new = [layers |-> grown, tree |-> tree, enabled |-> r.enabled]
      /\ b[id].kind = "route" /\ ~r.enabled => new = [layers |-> grown, tree |-> r.tree, enabled |-> r.enabled]
      /\ b[id].kind # "route" => new = [layers |-> grown, tree |-> NoRoutes, enabled |-> FALSE]
  <2>. DEFINE c == b[id]
  <2>. HIDE DEF c
  <2>1. RouterRecord(r)
    BY <1>1 DEF RouterRecord
  <2>2. /\ c.kind = "route" /\ r.enabled =>
              Registered(r, c, id) = [layers |-> LayersWith(r, c, id), tree |-> TreeWith(r, c, id), enabled |-> r.enabled]
        /\ c.kind = "route" /\ ~r.enabled => Registered(r, c, id) = Layered(r, c, id)
        /\ c.kind # "route" =>
              Registered(r, c, id) = [layers |-> LayersWith(r, c, id), tree |-> NoRoutes, enabled |-> FALSE]
        /\ Layered(r, c, id) = [layers |-> LayersWith(r, c, id), tree |-> r.tree, enabled |-> r.enabled]
    BY <2>1, RegisteredIs, LayeredIs
  <2>. QED
    BY <2>2 DEF c
<1>. HIDE DEF grown
<1>6. CASE b[id].kind = "route" /\ r.enabled
  <2>1. new = [layers |-> grown, tree |-> tree, enabled |-> r.enabled]
    BY <1>3, <1>6
  <2>2. TreeRight(b, m, tree)
    BY <1>6, TreeGrows DEF RouterRight, TreeWith
  <2>3. \A i \in DOMAIN b : b[i].at = m => b[i].kind = "route"
    BY <1>6, LongerRight DEF RouterRight
  <2>. HIDE DEF new, tree
  <2>. QED
    BY <1>1, <1>2, <2>1, <2>2, <2>3 DEF RouterRight, new
<1>7. CASE b[id].kind = "route" /\ ~r.enabled
  <2>1. new = [layers |-> grown, tree |-> r.tree, enabled |-> r.enabled]
    BY <1>3, <1>7
  <2>. HIDE DEF new
  <2>. QED
    BY <1>1, <1>2, <1>7, <2>1 DEF RouterRight, new
<1>8. CASE b[id].kind # "route"
  <2>1. new = [layers |-> grown, tree |-> NoRoutes, enabled |-> FALSE]
    BY <1>3, <1>8
  <2>. HIDE DEF new
  <2>. QED
    BY <1>2, <2>1 DEF RouterRight, new
<1>. QED
  BY <1>1, <1>6, <1>7, <1>8

LEMMA WorldGrows ==
  ASSUME NEW a, NEW b, NEW id, Longer(a, b, id), NEW R, World(a, R), NEW S,
         S = [m \in 0..id |-> IF m = b[id].at THEN Registered(R[m], b[id], id)
                              ELSE IF m = id THEN NewRouter ELSE R[m]]
  PROVE  World(b, S)
<1>1. b \in Seq(Registration) /\ InPlace(b) /\ Len(b) = id /\ id = Len(a) + 1 /\ DOMAIN S = 0..id
  BY DEF Longer
<1>2. ASSUME NEW m \in 0..id PROVE RouterRight(b, m, S[m])
  <2>1. CASE m = b[id].at
    <3>1. m \in 0..Len(a)
      BY <1>1, <2>1, LongerRight
    <3>2. S[m] = Registered(R[m], b[id], id)
      BY <2>1
    <3>. QED
      BY <2>1, <3>1, <3>2, RouterGrows DEF World
  <2>2. CASE m # b[id].at /\ m = id
    <3>1. \A i \in DOMAIN b : b[i].at # m
      <4>1. \A i \in DOMAIN b : b[i].at < i /\ i <= id /\ i \in Nat /\ b[i].at \in Nat
        BY <1>1, Placed
      <4>2. id \in Nat
        BY LongerRight
      <4>. QED
        BY <2>2, <4>1, <4>2
    <3>2. S[m] = NewRouter
      BY <2>2
    <3>. QED
      BY <3>1, <3>2, NewRouterRight
  <2>3. CASE m # b[id].at /\ m # id
    <3>1. m \in 0..Len(a) /\ S[m] = R[m]
      BY <1>1, <2>3, LongerRight
    <3>. QED
      BY <2>3, <3>1, RouterStays DEF World
  <2>. QED
    BY <2>1, <2>2, <2>3
<1>. QED
  BY <1>1, <1>2 DEF World


(***************************************************************************)
(* What a tree finds                                                       *)
(***************************************************************************)
LEMMA NodeRouteRight ==
  ASSUME NEW tree, NEW s, NEW method, NEW at \in NodeRoute(tree, s, method)
  PROVE  /\ at \in DOMAIN tree.routes
         /\ at = <<s, at[2]>>
         /\ at[1] = s
         /\ MethodMatches(at[2], method)
<1>. DEFINE order == <<method, "ALL">> \o IF method = "HEAD" THEN <<"GET">> ELSE <<>>
            known == {i \in DOMAIN order : <<s, order[i]>> \in DOMAIN tree.routes}
<1>1. PICK i \in known : at = <<s, order[i]>>
  BY DEF NodeRoute
<1>2. at \in DOMAIN tree.routes /\ i \in DOMAIN order
  BY <1>1
<1>3. order[i] \in {method, "ALL"} \/ (method = "HEAD" /\ order[i] = "GET")
  <2>1. CASE method = "HEAD"
    <3>. DEFINE S == {method, "ALL", "GET"}
                s1 == <<method, "ALL">>
                s2 == <<"GET">>
    <3>1. order = s1 \o s2 /\ s1 \in Seq(S) /\ s2 \in Seq(S)
      BY <2>1
    <3>. HIDE DEF order, s1, s2, S
    <3>2. order \in Seq(S)
      BY <3>1, ConcatProperties
    <3>3. order[i] \in S
      BY <1>2, <3>2, ElementOfSeq
    <3>. QED
      BY <2>1, <3>3 DEF S
  <2>2. CASE method # "HEAD"
    <3>1. order = <<method, "ALL">>
      BY <2>2
    <3>. QED
      BY <1>2, <3>1
  <2>. QED
    BY <2>1, <2>2
<1>. HIDE DEF order
<1>4. at[1] = s /\ at[2] = order[i]
  BY <1>1
<1>. QED
  BY <1>1, <1>2, <1>3, <1>4 DEF MethodMatches

MatchAt(tree, at) ==
  [handlers |-> tree.routes[at].handlers, path |-> tree.routes[at].path,
   keys |-> {tree.keys[SubSeq(at[1], 1, i)] : i \in Nodes(at[1])}]

LEMMA ResolvedRight ==
  ASSUME NEW tree, NEW method, NEW path, NEW match \in ResolveInTree(tree, method, path)
  PROVE  \E at \in DOMAIN tree.routes :
           /\ at = <<at[1], at[2]>>
           /\ Reaches(at[1], Segments(path))
           /\ MethodMatches(at[2], method)
           /\ match = MatchAt(tree, at)
<1>. DEFINE found == {s \in {at[1] : at \in DOMAIN tree.routes} :
                        Reaches(s, Segments(path)) /\ NodeRoute(tree, s, method) # {}}
            first == {s \in found : \A t \in found \ {s} : TriedBefore(s, t)}
<1>1. PICK at \in UNION {NodeRoute(tree, s, method) : s \in first} : match = MatchAt(tree, at)
  BY DEF ResolveInTree, MatchAt
<1>2. PICK s \in first : at \in NodeRoute(tree, s, method)
  BY <1>1
<1>3. Reaches(s, Segments(path))
  BY <1>2
<1>. HIDE DEF first
<1>. QED
  BY <1>1, <1>2, <1>3, NodeRouteRight

\* A route of router m that a match holds: it admits the request, and the keys are its own
\* or there is another route at one of its nodes.
FoundRoute(a, m, method, path, id, keys) ==
  /\ id \in DOMAIN a
  /\ a[id].at = m
  /\ a[id].kind = "route"
  /\ MethodMatches(a[id].method, method)
  /\ Matches(a[id].pattern, path) \/ EmptySegment(path)
  /\ \/ NamedKeys(a[id].pattern) \subseteq keys
     \/ \E other \in DOMAIN a, i \in Nodes(a[id].pattern) :
          /\ other # id
          /\ a[other].kind = "route"
          /\ a[other].at = m
          /\ i \in Nodes(a[other].pattern)
          /\ SubSeq(Shape(a[other].pattern), 1, i) = SubSeq(Shape(a[id].pattern), 1, i)

FoundMatch(a, m, method, path, match) ==
  /\ match.handlers \in Seq(Nat)
  /\ match.handlers # <<>>
  /\ match.path \in Seq(Segment)
  /\ match.keys \in SUBSET Names
  /\ \A k \in DOMAIN match.handlers : FoundRoute(a, m, method, path, match.handlers[k], match.keys)
  /\ \A j, k \in DOMAIN match.handlers : j < k => match.handlers[j] < match.handlers[k]

LEMMA FoundRight ==
  ASSUME NEW a, NEW R, World(a, R), NEW m \in 0..Len(a), R[m].enabled,
         NEW method, NEW path \in Seq(Names), path # <<>>, NEW match \in ResolveInTree(R[m].tree, method, path)
  PROVE  FoundMatch(a, m, method, path, match)
<1>. DEFINE tree == R[m].tree
<1>1. TreeRight(a, m, tree)
  BY DEF World, RouterRight
<1>2. PICK at \in DOMAIN tree.routes :
           /\ at = <<at[1], at[2]>>
           /\ Reaches(at[1], Segments(path))
           /\ MethodMatches(at[2], method)
           /\ match = MatchAt(tree, at)
  BY ResolvedRight
<1>. DEFINE entry == tree.routes[at]
            keys == {tree.keys[SubSeq(at[1], 1, i)] : i \in Nodes(at[1])}
<1>3. EntryRight(a, m, DOMAIN tree.keys, at, entry)
  BY <1>1 DEF TreeRight
<1>4. match.handlers = entry.handlers /\ match.path = entry.path /\ match.keys = keys
  BY <1>2 DEF MatchAt
<1>. HIDE DEF entry
<1>5. entry.handlers \in Seq(Nat) /\ entry.handlers # <<>> /\ entry.path \in Seq(Segment)
  BY <1>3 DEF EntryRight
<1>6. ASSUME NEW k \in DOMAIN entry.handlers
      PROVE  /\ FoundRoute(a, m, method, path, entry.handlers[k], keys)
             /\ keys \subseteq Names
  <2>. DEFINE id == entry.handlers[k]
              p == a[id].pattern
  <2>1. /\ id \in DOMAIN a
        /\ a[id].at = m
        /\ a[id].kind = "route"
        /\ at = <<Shape(p), a[id].method>>
        /\ \A i \in Nodes(p) : SubSeq(Shape(p), 1, i) \in DOMAIN tree.keys
    BY <1>3 DEF EntryRight
  <2>2. p \in Seq(Segment)
    BY <2>1, Placed DEF World
  <2>. HIDE DEF id
  <2>3. at[1] = Shape(p) /\ at[2] = a[id].method
    BY <2>1
  <2>4. MethodMatches(a[id].method, method)
    BY <1>2, <2>3
  <2>5. Matches(p, path) \/ EmptySegment(path)
    <3>1. Reaches(Shape(p), Segments(path))
      BY <1>2, <2>3
    <3>. HIDE DEF p
    <3>. QED
      BY <2>2, <3>1, TreeMatches
  <2>6. Nodes(at[1]) = Nodes(p)
    BY <2>2, <2>3, ShapeNodes
  <2>7. ASSUME NEW i \in Nodes(p)
        PROVE  \E other \in DOMAIN a :
                 /\ a[other].at = m
                 /\ a[other].kind = "route"
                 /\ i \in Nodes(a[other].pattern)
                 /\ SubSeq(Shape(a[other].pattern), 1, i) = SubSeq(Shape(p), 1, i)
                 /\ tree.keys[SubSeq(Shape(p), 1, i)] = a[other].pattern[i].name
                 /\ a[other].pattern[i].name \in Names
    <3>. DEFINE node == SubSeq(Shape(p), 1, i)
    <3>1. node \in DOMAIN tree.keys
      BY <2>1
    <3>2. PICK other \in DOMAIN a, j \in Nat :
             /\ a[other].at = m
             /\ a[other].kind = "route"
             /\ j \in Nodes(a[other].pattern)
             /\ node = SubSeq(Shape(a[other].pattern), 1, j)
             /\ tree.keys[node] = a[other].pattern[j].name
      BY <1>1, <3>1 DEF TreeRight
    <3>3. a[other].pattern \in Seq(Segment)
      BY Placed DEF World
    <3>. DEFINE o == a[other].pattern
    <3>. HIDE DEF p, o
    <3>4. i = j
      BY <2>2, <3>2, <3>3, NodeNames DEF o
    <3>5. o[i].name \in Names
      <4>1. i \in 1..Len(Cut(o))
        BY <3>2, <3>3, <3>4, CutRight DEF Nodes, o
      <4>2. o[i] \in Segment
        BY <3>3, <4>1, CutRight DEF o
      <4>. QED
        BY <4>2 DEF Segment
    <3>. QED
      BY <3>2, <3>4, <3>5 DEF o
  <2>8. keys = {tree.keys[SubSeq(Shape(p), 1, i)] : i \in Nodes(p)}
    BY <2>3, <2>6
  <2>. HIDE DEF keys
  <2>9. keys \subseteq Names
    BY <2>7, <2>8
  <2>10. \/ NamedKeys(p) \subseteq keys
         \/ \E other \in DOMAIN a, i \in Nodes(p) :
              /\ other # id
              /\ a[other].kind = "route"
              /\ a[other].at = m
              /\ i \in Nodes(a[other].pattern)
              /\ SubSeq(Shape(a[other].pattern), 1, i) = SubSeq(Shape(p), 1, i)
    <3>1. NamedKeys(p) = {p[i].name : i \in Nodes(p)}
      BY DEF NamedKeys, Nodes
    <3>2. SUFFICES ASSUME NEW i \in Nodes(p), p[i].name \notin keys
                   PROVE  \E other \in DOMAIN a :
              /\ other # id
              /\ a[other].kind = "route"
              /\ a[other].at = m
              /\ i \in Nodes(a[other].pattern)
              /\ SubSeq(Shape(a[other].pattern), 1, i) = SubSeq(Shape(p), 1, i)
      BY <3>1
    <3>3. PICK other \in DOMAIN a :
                 /\ a[other].at = m
                 /\ a[other].kind = "route"
                 /\ i \in Nodes(a[other].pattern)
                 /\ SubSeq(Shape(a[other].pattern), 1, i) = SubSeq(Shape(p), 1, i)
                 /\ tree.keys[SubSeq(Shape(p), 1, i)] = a[other].pattern[i].name
      BY <2>7
    <3>4. tree.keys[SubSeq(Shape(p), 1, i)] \in keys
      BY <2>8
    <3>5. other # id
      BY <3>2, <3>3, <3>4
    <3>. QED
      BY <3>3, <3>5
  <2>. QED
    BY <2>1, <2>4, <2>5, <2>9, <2>10 DEF FoundRoute, id
<1>7. 1 \in DOMAIN entry.handlers
  BY <1>5, EmptySeq
<1>8. \A j, k \in DOMAIN entry.handlers : j < k => entry.handlers[j] < entry.handlers[k]
  BY <1>3 DEF EntryRight
<1>. HIDE DEF keys
<1>9. keys \in SUBSET Names
  BY <1>6, <1>7
<1>. QED
  BY <1>4, <1>5, <1>6, <1>8, <1>9 DEF FoundMatch

(***************************************************************************)
(* Stacks, layers and calls: the shape of what a step makes                *)
(***************************************************************************)
LEMMA Pushed ==
  ASSUME NEW S, NEW f \in S, NEW F \in Seq(S)
  PROVE  /\ <<f>> \o F \in Seq(S)
         /\ Len(F) \in Nat
         /\ DOMAIN F = 1..Len(F)
         /\ Len(<<f>> \o F) = Len(F) + 1
         /\ DOMAIN (<<f>> \o F) = 1..(Len(F) + 1)
         /\ (<<f>> \o F)[1] = f
         /\ \A i \in 1..Len(F) : (<<f>> \o F)[i + 1] = F[i]
         /\ \A i \in 2..(Len(F) + 1) : (<<f>> \o F)[i] = F[i - 1]
<1>. DEFINE s == <<f>>
<1>1. s \in Seq(S) /\ Len(s) = 1 /\ s[1] = f
  OBVIOUS
<1>2. Len(F) \in Nat /\ DOMAIN F = 1..Len(F)
  BY LenProperties
<1>. HIDE DEF s
<1>3. /\ s \o F \in Seq(S)
      /\ Len(s \o F) = Len(F) + 1
      /\ \A i \in 1..(Len(F) + 1) : (s \o F)[i] = IF i <= 1 THEN s[i] ELSE F[i - 1]
  <2>1. /\ s \o F \in Seq(S)
        /\ Len(s \o F) = Len(s) + Len(F)
        /\ \A i \in 1..(Len(s) + Len(F)) : (s \o F)[i] = IF i <= Len(s) THEN s[i] ELSE F[i - Len(s)]
    BY <1>1, ConcatProperties
  <2>2. 1 + Len(F) = Len(F) + 1
    BY <1>2
  <2>. QED
    BY <1>1, <2>1, <2>2
<1>4. DOMAIN (s \o F) = 1..(Len(F) + 1)
  BY <1>3, LenProperties
<1>5. \A i \in 1..Len(F) : (s \o F)[i + 1] = F[i]
  BY <1>2, <1>3
<1>6. (s \o F)[1] = f /\ \A i \in 2..(Len(F) + 1) : (s \o F)[i] = F[i - 1]
  BY <1>1, <1>2, <1>3
<1>. QED
  BY <1>2, <1>3, <1>4, <1>5, <1>6 DEF s

LEMMA Popped ==
  ASSUME NEW S, NEW F \in Seq(S), F # <<>>
  PROVE  /\ F[1] \in S
         /\ Len(F) \in Nat /\ Len(F) >= 1 /\ DOMAIN F = 1..Len(F) /\ 1 \in DOMAIN F
         /\ Head(F) = F[1]
         /\ Tail(F) \in Seq(S)
         /\ Len(Tail(F)) = Len(F) - 1
         /\ DOMAIN Tail(F) = 1..(Len(F) - 1)
         /\ \A i \in 1..(Len(F) - 1) : Tail(F)[i] = F[i + 1]
<1>1. Len(F) \in Nat /\ DOMAIN F = 1..Len(F) /\ Len(F) >= 1
  BY LenProperties, EmptySeq
<1>2. F[1] \in S
  BY <1>1, ElementOfSeq
<1>3. Head(F) = F[1] /\ Tail(F) \in Seq(S) /\ Len(Tail(F)) = Len(F) - 1
      /\ \A i \in 1..Len(Tail(F)) : Tail(F)[i] = F[i + 1]
  BY <1>1, HeadTailProperties
<1>4. DOMAIN Tail(F) = 1..Len(Tail(F))
  BY <1>3, LenProperties
<1>. QED
  BY <1>1, <1>2, <1>3, <1>4

\* The layer the walk is at, and what it knows of its registration.
LEMMA LayerRight ==
  ASSUME TypeOK, AtLayer
  PROVE  /\ Top \in Frame
         /\ Top.place \in 0..Len(app)
         /\ Top.place \in DOMAIN routers
         /\ Layers \in Seq(LayerRecord)
         /\ Top.index \in DOMAIN Layers
         /\ Layer \in LayerRecord
         /\ Layer.id \in DOMAIN app
         /\ Layer.id \in 0..Len(app)
         /\ Layer.id \in DOMAIN routers
         /\ app[Layer.id].at = Top.place
         /\ Layer.kind = app[Layer.id].kind
         /\ Layer.method = app[Layer.id].method
         /\ Layer.pattern = app[Layer.id].pattern
         /\ Layer.errors = app[Layer.id].errors
         /\ Layer.pattern \in Seq(Segment)
         /\ Others \in Seq(Frame)
         /\ Sited(routers, Others)
<1>1. walk.frames \in Seq(Frame) /\ walk.frames # <<>>
  BY DEF TypeOK, WalkTyped, WalkRecord, AtLayer
<1>2. /\ Top \in Frame
      /\ 1 \in DOMAIN walk.frames
      /\ Others \in Seq(Frame)
      /\ DOMAIN Others = 1..(Len(walk.frames) - 1) /\ Len(walk.frames) \in Nat
      /\ \A i \in 1..(Len(walk.frames) - 1) : Others[i] = walk.frames[i + 1]
      /\ DOMAIN walk.frames = 1..Len(walk.frames)
  BY <1>1, Popped DEF Top, Others
<1>3. Top.place \in DOMAIN routers
  BY <1>2 DEF TypeOK, WalkTyped, Sited, Top
<1>4. Sited(routers, Others)
  <2>1. \A i \in DOMAIN Others : i + 1 \in DOMAIN walk.frames /\ Others[i] = walk.frames[i + 1]
    BY <1>2
  <2>2. Sited(routers, walk.frames)
    BY DEF TypeOK, WalkTyped
  <2>. QED
    BY <2>1, <2>2 DEF Sited
<1>5. World(app, routers)
  BY DEF TypeOK
<1>6. Top.place \in 0..Len(app)
  BY <1>3, <1>5 DEF World
<1>7. LayersRight(app, Top.place, Layers)
  BY <1>5, <1>6 DEF World, RouterRight, Layers
<1>8. Layers \in Seq(LayerRecord) /\ Len(Layers) \in Nat /\ DOMAIN Layers = 1..Len(Layers)
  BY <1>7, LenProperties DEF LayersRight
<1>9. Top.index \in DOMAIN Layers
  BY <1>2, <1>8 DEF AtLayer, Frame
<1>10. Layer \in LayerRecord
  BY <1>8, <1>9, ElementOfSeq DEF Layer
<1>11. /\ Layer.id \in DOMAIN app
       /\ app[Layer.id].at = Top.place
       /\ Layer.kind = app[Layer.id].kind
       /\ Layer.method = app[Layer.id].method
       /\ Layer.pattern = app[Layer.id].pattern
       /\ Layer.errors = app[Layer.id].errors
  BY <1>7, <1>9 DEF LayersRight, Layer
<1>12. Layer.id \in 0..Len(app) /\ Layer.pattern \in Seq(Segment)
  BY <1>5, <1>11, Placed DEF World
<1>13. Layer.id \in DOMAIN routers
  BY <1>5, <1>12 DEF World
<1>. QED
  BY <1>2, <1>3, <1>4, <1>6, <1>8, <1>9, <1>10, <1>11, <1>12, <1>13

LEMMA SitedPushed ==
  ASSUME NEW R, NEW f \in Frame, f.place \in DOMAIN R, NEW F \in Seq(Frame), Sited(R, F)
  PROVE  <<f>> \o F \in Seq(Frame) /\ Sited(R, <<f>> \o F)
<1>1. /\ <<f>> \o F \in Seq(Frame)
      /\ DOMAIN F = 1..Len(F) /\ Len(F) \in Nat
      /\ DOMAIN (<<f>> \o F) = 1..(Len(F) + 1)
      /\ (<<f>> \o F)[1] = f
      /\ \A i \in 2..(Len(F) + 1) : (<<f>> \o F)[i] = F[i - 1]
  BY Pushed
<1>2. ASSUME NEW i \in 1..(Len(F) + 1) PROVE (<<f>> \o F)[i].place \in DOMAIN R
  <2>1. CASE i = 1
    BY <1>1, <2>1
  <2>2. CASE i # 1
    <3>1. i \in 2..(Len(F) + 1) /\ i - 1 \in DOMAIN F
      BY <1>1, <2>2
    <3>. QED
      BY <1>1, <3>1 DEF Sited
  <2>. QED
    BY <2>1, <2>2
<1>. QED
  BY <1>1, <1>2 DEF Sited

LEMMA BehindRight ==
  ASSUME TypeOK, AtLayer, NEW keys \in SUBSET Names
  PROVE  /\ Behind \in Seq(Frame) /\ Sited(routers, Behind)
         /\ BehindWith(keys) \in Seq(Frame) /\ Sited(routers, BehindWith(keys))
<1>1. /\ Top \in Frame
      /\ Top.place \in DOMAIN routers
      /\ Others \in Seq(Frame)
      /\ Sited(routers, Others)
  BY LayerRight
<1>. DEFINE f == [Top EXCEPT !.index = @ + 1]
            g == [Top EXCEPT !.index = @ + 1, !.keys = keys]
<1>2. f \in Frame /\ f.place = Top.place
  BY <1>1 DEF Frame
<1>3. g \in Frame /\ g.place = Top.place
  <2>1. g = [f EXCEPT !.keys = keys]
    BY <1>1 DEF Frame
  <2>. HIDE DEF f, g
  <2>. QED
    BY <1>2, <2>1 DEF Frame
<1>4. Behind = <<f>> \o Others /\ BehindWith(keys) = <<g>> \o Others
  BY DEF Behind, BehindWith
<1>. HIDE DEF f, g
<1>. QED
  BY <1>1, <1>2, <1>3, <1>4, SitedPushed

LEMMA EnteredRight ==
  ASSUME TypeOK, AtLayer
  PROVE  Entered \in Frame /\ Entered.place \in DOMAIN routers /\ Entered.place = Layer.id
<1>1. /\ Top \in Frame
      /\ Layer.id \in DOMAIN routers
      /\ Layer.id \in Nat
      /\ Layer.pattern \in Seq(Segment)
  BY LayerRight DEF LayerRecord
<1>2. CASE Layer.kind = "scope"
  <2>1. Entered = [Top EXCEPT !.place = Layer.id, !.index = 1]
    BY <1>2 DEF Entered
  <2>2. Entered = [place |-> Layer.id, index |-> 1, base |-> Top.base, keys |-> Top.keys, path |-> Top.path]
    BY <1>1, <2>1 DEF Frame
  <2>. QED
    BY <1>1, <2>2 DEF Frame
<1>3. CASE Layer.kind # "scope"
  <2>. DEFINE base == Base(Top, Layer.pattern)
              keys == Top.keys \cup PrefixKeys(Layer.pattern)
              path == Consumed(Layer.pattern, Top.path)
  <2>1. Entered = [place |-> Layer.id, index |-> 1, base |-> base, keys |-> keys, path |-> path]
    BY <1>3 DEF Entered
  <2>2. base \in Seq(Seq(Segment))
    <3>1. Top.base \in Seq(Seq(Segment))
      BY <1>1 DEF Frame
    <3>2. Append(Top.base, Layer.pattern) \in Seq(Seq(Segment))
      BY <1>1, <3>1, AppendProperties
    <3>. QED
      BY <3>1, <3>2 DEF Base
  <2>3. keys \in SUBSET Names
    BY <1>1, KeysAreNames DEF Frame
  <2>4. path \in Seq(Names) \ {<<>>}
    <3>1. Top.path \in Seq(Names) /\ Top.path # <<>>
      BY <1>1 DEF Frame
    <3>. QED
      BY <1>1, <3>1, ConsumedRight
  <2>. HIDE DEF base, keys, path
  <2>. QED
    BY <1>1, <2>1, <2>2, <2>3, <2>4 DEF Frame
<1>. QED
  BY <1>2, <1>3

(* The fields of a call that stay.                                         *)
Same(g, h) ==
  /\ g.handler = h.handler
  /\ g.layer = h.layer
  /\ g.errors = h.errors
  /\ g.direct = h.direct
  /\ g.others = h.others
  /\ g.rest = h.rest
  /\ g.scope = h.scope
  /\ g.before = h.before
  /\ g.by = h.by
  /\ g.how = h.how

LEMMA PhaseIs ==
  ASSUME NEW h \in CallRecord, NEW p \in Phases
  PROVE  LET g == [h EXCEPT !.phase = p] IN
         /\ g \in CallRecord /\ Same(g, h)
         /\ g.phase = p /\ g.nexted = h.nexted /\ g.error = h.error
BY DEF CallRecord, Same

LEMMA NextedIs ==
  ASSUME NEW h \in CallRecord, NEW n \in BOOLEAN
  PROVE  LET g == [h EXCEPT !.nexted = n] IN
         /\ g \in CallRecord /\ Same(g, h)
         /\ g.phase = h.phase /\ g.nexted = n /\ g.error = h.error
BY DEF CallRecord, Same

LEMMA ErrorIs ==
  ASSUME NEW h \in CallRecord, NEW e \in Errors
  PROVE  LET g == [h EXCEPT !.error = e] IN
         /\ g \in CallRecord /\ Same(g, h)
         /\ g.phase = h.phase /\ g.nexted = h.nexted /\ g.error = e
BY DEF CallRecord, Same

IsDirectCall(h, handlers, own, rest, by, how) ==
  /\ h \in CallRecord
  /\ h.handler = Head(handlers) /\ h.layer = "route" /\ h.errors = FALSE /\ h.direct = TRUE
  /\ h.others = Tail(handlers) /\ h.rest = rest /\ h.scope = own /\ h.before = scope
  /\ h.by = by /\ h.how = how /\ h.nexted = FALSE /\ h.error = None
  /\ h.phase = "running"

IsChainCall(h, handler, layer, errors, rest, own, by, how) ==
  /\ h \in CallRecord
  /\ h.handler = handler /\ h.layer = layer /\ h.errors = errors /\ h.direct = FALSE
  /\ h.others = <<>> /\ h.rest = rest /\ h.scope = own /\ h.before = scope
  /\ h.by = by /\ h.how = how /\ h.nexted = FALSE /\ h.error = None
  /\ h.phase = IF layer = "ws" THEN "returned" ELSE "running"

LEMMA DirectCallIs ==
  ASSUME NEW handlers, NEW own \in Scope, NEW rest \in Seq(Frame), NEW by \in Nat, NEW how \in Hows,
         Head(handlers) \in Nat, Tail(handlers) \in Seq(Nat), scope \in Scope
  PROVE  IsDirectCall(DirectCall(handlers, own, rest, by, how), handlers, own, rest, by, how)
<1>1. "route" \in Kinds
  BY DEF Kinds
<1>. QED
  BY <1>1 DEF DirectCall, Call, CallRecord, Phases, Errors, IsDirectCall

LEMMA ChainCallIs ==
  ASSUME NEW handler \in Nat, NEW layer \in Kinds, NEW errors \in BOOLEAN, NEW rest \in Seq(Frame),
         NEW own \in Scope, NEW by \in Nat, NEW how \in Hows, scope \in Scope
  PROVE  IsChainCall(Call(handler, layer, errors, FALSE, <<>>, rest, own, by, how), handler, layer, errors, rest, own, by, how)
BY DEF Call, CallRecord, Phases, Errors, IsChainCall

(***************************************************************************)
(* What a step does to the calls.                                          *)
(***************************************************************************)
Alters(c) ==
  /\ c \in DOMAIN calls
  /\ calls' \in Seq(CallRecord)
  /\ Len(calls') = Len(calls)
  /\ DOMAIN calls' = DOMAIN calls
  /\ Same(calls'[c], calls[c])
  /\ \A d \in DOMAIN calls : d # c => calls'[d] = calls[d]

Grows(h) ==
  /\ h \in CallRecord
  /\ calls' \in Seq(CallRecord)
  /\ Len(calls') = Len(calls) + 1
  /\ DOMAIN calls' = 1..(Len(calls) + 1)
  /\ DOMAIN calls = 1..Len(calls)
  /\ Len(calls) \in Nat
  /\ calls'[Len(calls) + 1] = h
  /\ \A d \in DOMAIN calls : calls'[d] = calls[d]

LEMMA GrowIs ==
  ASSUME NEW s \in Seq(CallRecord), NEW h \in CallRecord
  PROVE  /\ Append(s, h) \in Seq(CallRecord)
         /\ Len(Append(s, h)) = Len(s) + 1
         /\ DOMAIN Append(s, h) = 1..(Len(s) + 1)
         /\ DOMAIN s = 1..Len(s)
         /\ Len(s) \in Nat
         /\ Append(s, h)[Len(s) + 1] = h
         /\ \A d \in DOMAIN s : Append(s, h)[d] = s[d]
<1>1. Append(s, h) \in Seq(CallRecord) /\ Len(Append(s, h)) = Len(s) + 1
      /\ Append(s, h)[Len(s) + 1] = h /\ \A d \in 1..Len(s) : Append(s, h)[d] = s[d]
  BY AppendProperties
<1>. QED
  BY <1>1, LenProperties

LEMMA AlterIs ==
  ASSUME NEW s \in Seq(CallRecord), NEW c \in DOMAIN s, NEW g \in CallRecord
  PROVE  LET t == [s EXCEPT ![c] = g] IN
         /\ t \in Seq(CallRecord)
         /\ Len(t) = Len(s)
         /\ DOMAIN t = DOMAIN s
         /\ t[c] = g
         /\ \A d \in DOMAIN s : d # c => t[d] = s[d]
<1>. DEFINE t == [s EXCEPT ![c] = g]
<1>1. Len(s) \in Nat /\ DOMAIN s = 1..Len(s) /\ \A d \in DOMAIN s : s[d] \in CallRecord
  BY LenProperties, ElementOfSeq
<1>2. DOMAIN t = 1..Len(s) /\ t[c] = g /\ (\A d \in DOMAIN s : d # c => t[d] = s[d])
  BY <1>1
<1>3. t = [d \in 1..Len(s) |-> t[d]]
  BY <1>1
<1>. HIDE DEF t
<1>4. t \in [1..Len(s) -> CallRecord]
  BY <1>1, <1>2, <1>3
<1>5. t \in Seq(CallRecord)
  BY <1>1, <1>4, SeqDef
<1>6. Len(t) = Len(s)
  BY <1>1, <1>2, <1>5, LenProperties
<1>. QED
  BY <1>1, <1>2, <1>5, <1>6 DEF t

(***************************************************************************)
(* What every action does, in terms of these                               *)
(***************************************************************************)
LEMMA TypeKept ==
  ASSUME TypeOK, app' = app, routers' = routers, request' \in Request, request'.path # <<>>, scope' \in Scope,
         WalkTyped', CallsTyped', settled' \subseteq Token, response' \in Answer, crashed' \in BOOLEAN
  PROVE  TypeOK'
BY DEF TypeOK

LEMMA WalkIs ==
  ASSUME NEW F \in Seq(Frame), Sited(routers, F), NEW e \in Errors, NEW by \in Nat, NEW how \in Hows,
         routers' = routers, walk' = Walk(F, e, by, how)
  PROVE  WalkTyped'
<1>1. walk' \in WalkRecord /\ walk'.how \in Hows /\ walk'.frames = F
  BY DEF Walk, WalkRecord
<1>. QED
  BY <1>1 DEF WalkTyped

LEMMA IdleIs ==
  ASSUME walk' = Idle
  PROVE  WalkTyped'
<1>1. <<>> \in Seq(Frame) /\ DOMAIN <<>> = {}
  BY EmptySeq
<1>2. walk' \in WalkRecord /\ ~walk'.on /\ walk'.frames = <<>>
  BY <1>1 DEF Idle, WalkRecord, Errors
<1>. QED
  BY <1>1, <1>2 DEF WalkTyped, Sited

LEMMA CallsKept ==
  ASSUME TypeOK, routers' = routers, calls' = calls
  PROVE  CallsTyped'
BY DEF TypeOK, CallsTyped

LEMMA CallsAltered ==
  ASSUME TypeOK, routers' = routers, NEW c, Alters(c)
  PROVE  CallsTyped'
<1>1. \A d \in DOMAIN calls : calls'[d].rest = calls[d].rest
  BY DEF Alters, Same
<1>. QED
  BY <1>1 DEF TypeOK, CallsTyped, Alters

LEMMA CallsGrown ==
  ASSUME TypeOK, routers' = routers, NEW h, Grows(h), Sited(routers, h.rest)
  PROVE  CallsTyped'
<1>1. \A d \in DOMAIN calls' : d \in DOMAIN calls \/ d = Len(calls) + 1
  BY DEF Grows
<1>2. \A d \in DOMAIN calls' : Sited(routers, calls'[d].rest)
  BY <1>1 DEF TypeOK, CallsTyped, Grows
<1>. QED
  BY <1>2 DEF CallsTyped, Grows

\* The call h of a handler comes out of the walk.
Begins(h) ==
  /\ Grows(h)
  /\ walk' = Idle
  /\ scope' = h.scope
  /\ h.before = scope
  /\ ~h.nexted
  /\ h.error = None
  /\ h.phase = IF h.layer = "ws" THEN "returned" ELSE "running"
  /\ h.direct => h.layer = "route"
  /\ Sited(routers, h.rest)

\* The tree of the frame's router found the handlers of h.
FoundBy(h, frame, method) ==
  /\ h.direct
  /\ ~h.errors
  /\ method # "UPGRADE"
  /\ routers[frame.place].enabled
  /\ \E match : /\ FoundMatch(app, frame.place, method, frame.path, match)
                /\ h.handler = Head(match.handlers)
                /\ h.others = Tail(match.handlers)
                /\ match.keys \subseteq h.scope.keys

LEMMA DispatchedDoes ==
  ASSUME TypeOK, app' = app, routers' = routers,
         NEW frame \in Frame, frame.place \in DOMAIN routers,
         NEW rest \in Seq(Frame), Sited(routers, rest), NEW error \in Errors, NEW by \in Nat, NEW how \in Hows,
         NEW method, Dispatched(method, frame, rest, error, by, how)
  PROVE  /\ scope' \in Scope
         /\ WalkTyped'
         /\ CallsTyped'
         /\ \/ /\ walk' = Walk(<<frame>> \o rest, IF error = "undefined" THEN None ELSE error, by, how)
               /\ scope' = scope
               /\ calls' = calls
            \/ /\ error \in {None, "undefined"}
               /\ \E h : Begins(h) /\ FoundBy(h, frame, method) /\ h.rest = rest /\ h.by = by /\ h.how = how
<1>. DEFINE r == routers[frame.place]
            e == IF error = "undefined" THEN None ELSE error
            found == IF e = None /\ r.enabled /\ method # "UPGRADE"
                     THEN ResolveInTree(r.tree, method, frame.path) ELSE {}
<1>1. e \in Errors
  BY DEF Errors
<1>2. CASE /\ walk' = Walk(<<frame>> \o rest, e, by, how)
           /\ UNCHANGED <<scope, calls>>
  <2>1. <<frame>> \o rest \in Seq(Frame) /\ Sited(routers, <<frame>> \o rest)
    BY SitedPushed
  <2>2. WalkTyped'
    <3>. DEFINE F == <<frame>> \o rest
    <3>. HIDE DEF F, e
    <3>. QED
      BY <1>1, <1>2, <2>1, WalkIs DEF F
  <2>3. CallsTyped' /\ scope' \in Scope
    BY <1>2, CallsKept DEF TypeOK
  <2>. QED
    BY <1>2, <2>2, <2>3
<1>3. ASSUME NEW match \in found,
             walk' = Idle,
             scope' = [base |-> frame.base, keys |-> frame.keys \cup match.keys, route |-> <<match.path>>],
             calls' = Append(calls, DirectCall(match.handlers,
                        [base |-> frame.base, keys |-> frame.keys \cup match.keys, route |-> <<match.path>>], rest, by, how))
      PROVE  /\ scope' \in Scope
             /\ WalkTyped'
             /\ CallsTyped'
             /\ error \in {None, "undefined"}
             /\ \E h : Begins(h) /\ FoundBy(h, frame, method) /\ h.rest = rest /\ h.by = by /\ h.how = how
  <2>. DEFINE own == [base |-> frame.base, keys |-> frame.keys \cup match.keys, route |-> <<match.path>>]
              h == DirectCall(match.handlers, own, rest, by, how)
  <2>1. e = None /\ r.enabled /\ method # "UPGRADE" /\ match \in ResolveInTree(r.tree, method, frame.path)
    BY <1>3
  <2>2. error \in {None, "undefined"}
    BY <2>1 DEF Errors
  <2>. HIDE DEF e, found
  <2>3. FoundMatch(app, frame.place, method, frame.path, match)
    <3>1. World(app, routers) /\ frame.place \in 0..Len(app)
      BY DEF TypeOK, World
    <3>2. frame.path \in Seq(Names) /\ frame.path # <<>>
      BY DEF Frame
    <3>. QED
      BY <2>1, <3>1, <3>2, FoundRight
  <2>4. own \in Scope
    <3>1. match.path \in Seq(Segment) /\ match.keys \in SUBSET Names
      BY <2>3 DEF FoundMatch
    <3>2. <<match.path>> \in Seq(Seq(Segment))
      BY <3>1
    <3>. QED
      BY <3>1, <3>2 DEF Scope, Frame
  <2>5. Head(match.handlers) \in Nat /\ Tail(match.handlers) \in Seq(Nat)
    BY <2>3, Popped DEF FoundMatch
  <2>6. scope \in Scope /\ calls \in Seq(CallRecord)
    BY DEF TypeOK, CallsTyped
  <2>7. match.keys \subseteq own.keys
    OBVIOUS
  <2>8. scope' = own
    BY <1>3
  <2>9. calls' = Append(calls, h)
    BY <1>3
  <2>. HIDE DEF own
  <2>10. /\ h \in CallRecord
         /\ h.handler = Head(match.handlers) /\ h.layer = "route" /\ h.errors = FALSE /\ h.direct = TRUE
         /\ h.others = Tail(match.handlers) /\ h.rest = rest /\ h.scope = own /\ h.before = scope
         /\ h.by = by /\ h.how = how /\ h.nexted = FALSE /\ h.error = None
         /\ h.phase = "running"
    <3>. DEFINE handlers == match.handlers
    <3>1. h = DirectCall(handlers, own, rest, by, how) /\ Head(handlers) \in Nat /\ Tail(handlers) \in Seq(Nat)
      BY <2>5
    <3>. HIDE DEF h, handlers
    <3>2. IsDirectCall(h, handlers, own, rest, by, how)
      BY <2>4, <2>6, <3>1, DirectCallIs
    <3>. QED
      BY <3>2 DEF handlers, IsDirectCall
  <2>. HIDE DEF h
  <2>11. Grows(h)
    BY <2>6, <2>9, <2>10, GrowIs DEF Grows
  <2>12. Begins(h)
    BY <1>3, <2>8, <2>10, <2>11 DEF Begins
  <2>13. FoundBy(h, frame, method)
    BY <2>1, <2>3, <2>7, <2>10 DEF FoundBy
  <2>14. WalkTyped' /\ CallsTyped' /\ scope' \in Scope
    BY <1>3, <2>4, <2>8, <2>10, <2>11, IdleIs, CallsGrown
  <2>. QED
    BY <2>2, <2>10, <2>12, <2>13, <2>14
<1>4. \/ /\ walk' = Walk(<<frame>> \o rest, e, by, how)
         /\ UNCHANGED <<scope, calls>>
      \/ \E match \in found :
             /\ walk' = Idle
             /\ scope' = [base |-> frame.base, keys |-> frame.keys \cup match.keys, route |-> <<match.path>>]
             /\ calls' = Append(calls, DirectCall(match.handlers,
                        [base |-> frame.base, keys |-> frame.keys \cup match.keys, route |-> <<match.path>>], rest, by, how))
  BY DEF Dispatched
<1>. QED
  <2>1. CASE /\ walk' = Walk(<<frame>> \o rest, e, by, how)
             /\ UNCHANGED <<scope, calls>>
    BY <1>2, <2>1
  <2>2. ASSUME NEW match \in found,
             walk' = Idle,
             scope' = [base |-> frame.base, keys |-> frame.keys \cup match.keys, route |-> <<match.path>>],
             calls' = Append(calls, DirectCall(match.handlers,
                        [base |-> frame.base, keys |-> frame.keys \cup match.keys, route |-> <<match.path>>], rest, by, how))
        PROVE  /\ scope' \in Scope
               /\ WalkTyped'
               /\ CallsTyped'
               /\ error \in {None, "undefined"}
               /\ \E h : Begins(h) /\ FoundBy(h, frame, method) /\ h.rest = rest /\ h.by = by /\ h.how = how
    BY <1>3, <2>2
  <2>. HIDE DEF found, e
  <2>. QED
    BY <1>4, <2>1, <2>2 DEF e

(***************************************************************************)
(* The handlers' actions                                                   *)
(***************************************************************************)
Turns(c, p, n, e) ==
  /\ Alters(c)
  /\ calls'[c].phase = p
  /\ calls'[c].nexted = n
  /\ calls'[c].error = e

LEMMA CallTyped ==
  ASSUME TypeOK, NEW c \in DOMAIN calls
  PROVE  /\ calls[c] \in CallRecord
         /\ c \in Nat /\ c >= 1 /\ Len(calls) \in Nat /\ c <= Len(calls)
         /\ DOMAIN calls = 1..Len(calls)
         /\ Sited(routers, calls[c].rest)
<1>1. calls \in Seq(CallRecord) /\ Sited(routers, calls[c].rest)
  BY DEF TypeOK, CallsTyped
<1>. QED
  BY <1>1, LenProperties, ElementOfSeq

LEMMA TurnIs ==
  ASSUME TypeOK, routers' = routers, NEW c \in DOMAIN calls, NEW g \in CallRecord, Same(g, calls[c]),
         calls' = [calls EXCEPT ![c] = g]
  PROVE  Turns(c, g.phase, g.nexted, g.error) /\ CallsTyped'
<1>1. calls \in Seq(CallRecord)
  BY DEF TypeOK, CallsTyped
<1>2. /\ calls' \in Seq(CallRecord)
      /\ Len(calls') = Len(calls)
      /\ DOMAIN calls' = DOMAIN calls
      /\ calls'[c] = g
      /\ \A d \in DOMAIN calls : d # c => calls'[d] = calls[d]
  BY <1>1, AlterIs
<1>3. Alters(c)
  BY <1>2 DEF Alters
<1>. QED
  BY <1>2, <1>3, CallsAltered DEF Turns

LEMMA PhaseTurns ==
  ASSUME TypeOK, routers' = routers, NEW c \in DOMAIN calls, NEW p \in Phases,
         calls' = [calls EXCEPT ![c].phase = p]
  PROVE  Turns(c, p, calls[c].nexted, calls[c].error) /\ CallsTyped'
<1>. DEFINE g == [calls[c] EXCEPT !.phase = p]
<1>1. calls[c] \in CallRecord
  BY CallTyped
<1>2. g \in CallRecord /\ Same(g, calls[c]) /\ g.phase = p /\ g.nexted = calls[c].nexted /\ g.error = calls[c].error
  BY <1>1, PhaseIs
<1>3. calls' = [calls EXCEPT ![c] = g]
  OBVIOUS
<1>. HIDE DEF g
<1>. QED
  BY <1>2, <1>3, TurnIs

LEMMA FailsDoes ==
  ASSUME TypeOK, NEW c \in DOMAIN calls, NEW error \in Errors, NEW told \in SUBSET Token, Fails(c, error, told)
  PROVE  /\ TypeOK'
         /\ Turns(c, "failed", calls[c].nexted, error)
         /\ walk' = Walk(calls[c].rest, error, calls[c].by, calls[c].how)
<1>. DEFINE g0 == [calls[c] EXCEPT !.phase = "failed"]
            g == [g0 EXCEPT !.error = error]
<1>1. calls[c] \in CallRecord /\ Sited(routers, calls[c].rest)
  BY CallTyped
<1>2. UNCHANGED <<app, routers, request, response, crashed>> /\ settled' = told
      /\ scope' = (IF calls[c].direct THEN scope ELSE calls[c].before)
      /\ walk' = Walk(calls[c].rest, error, calls[c].by, calls[c].how)
      /\ calls' = [calls EXCEPT ![c].phase = "failed", ![c].error = error]
  BY DEF Fails
<1>3. "failed" \in Phases
  BY DEF Phases
<1>4. g0 \in CallRecord /\ Same(g0, calls[c]) /\ g0.phase = "failed" /\ g0.nexted = calls[c].nexted
  BY <1>1, <1>3, PhaseIs
<1>5. calls' = [calls EXCEPT ![c] = g]
  BY <1>1, <1>2 DEF CallRecord
<1>. HIDE DEF g0
<1>6. g \in CallRecord /\ Same(g, g0) /\ g.phase = g0.phase /\ g.nexted = g0.nexted /\ g.error = error
  BY <1>4, ErrorIs
<1>. HIDE DEF g
<1>7. Same(g, calls[c])
  BY <1>4, <1>6 DEF Same
<1>8. Turns(c, "failed", calls[c].nexted, error) /\ CallsTyped'
  <2>1. Turns(c, g.phase, g.nexted, g.error) /\ CallsTyped'
    BY <1>2, <1>5, <1>6, <1>7, TurnIs
  <2>. QED
    BY <1>4, <1>6, <2>1
<1>9. WalkTyped'
  <2>. DEFINE F == calls[c].rest
              by == calls[c].by
              how == calls[c].how
  <2>1. F \in Seq(Frame) /\ by \in Nat /\ how \in Hows
    BY <1>1 DEF CallRecord
  <2>2. walk' = Walk(F, error, by, how) /\ Sited(routers, F)
    BY <1>1, <1>2
  <2>. HIDE DEF F, by, how
  <2>. QED
    BY <1>2, <2>1, <2>2, WalkIs
<1>10. scope' \in Scope
  BY <1>1, <1>2 DEF CallRecord, TypeOK
<1>11. TypeOK'
  BY <1>2, <1>8, <1>9, <1>10, TypeKept DEF TypeOK
<1>. QED
  BY <1>2, <1>8, <1>11

LEMMA ChainNextDoes ==
  ASSUME TypeOK, NEW c \in DOMAIN calls, NEW error \in {None, "error"}, NEW how \in {"awaited", "dropped"},
         ChainNext(c, error, how)
  PROVE  /\ TypeOK'
         /\ Turns(c, IF how = "awaited" THEN "waiting" ELSE IF calls[c].phase = "silent" THEN "returned" ELSE calls[c].phase,
                  TRUE, calls[c].error)
         /\ walk' = Walk(calls[c].rest, error, c, how)
<1>. DEFINE p == IF how = "awaited" THEN "waiting" ELSE IF calls[c].phase = "silent" THEN "returned" ELSE calls[c].phase
            g0 == [calls[c] EXCEPT !.nexted = TRUE]
            g == [g0 EXCEPT !.phase = p]
<1>1. calls[c] \in CallRecord /\ Sited(routers, calls[c].rest) /\ c \in Nat
  BY CallTyped
<1>2. UNCHANGED <<app, routers, request, settled, response, crashed>>
      /\ scope' = calls[c].before
      /\ walk' = Walk(calls[c].rest, error, c, how)
      /\ calls' = [calls EXCEPT ![c].nexted = TRUE,
                              ![c].phase = IF how = "awaited" THEN "waiting"
                                           ELSE IF @ = "silent" THEN "returned" ELSE @]
  BY DEF ChainNext
<1>3. p \in Phases
  BY <1>1 DEF Phases, CallRecord
<1>4. g0 \in CallRecord /\ Same(g0, calls[c]) /\ g0.phase = calls[c].phase /\ g0.nexted = TRUE /\ g0.error = calls[c].error
  BY <1>1, NextedIs
<1>5. calls' = [calls EXCEPT ![c] = g]
  BY <1>1, <1>2 DEF CallRecord
<1>. HIDE DEF g0
<1>6. g \in CallRecord /\ Same(g, g0) /\ g.phase = p /\ g.nexted = g0.nexted /\ g.error = g0.error
  <2>. HIDE DEF p
  <2>. QED
    BY <1>3, <1>4, PhaseIs
<1>. HIDE DEF g
<1>7. Same(g, calls[c])
  BY <1>4, <1>6 DEF Same
<1>8. Turns(c, p, TRUE, calls[c].error) /\ CallsTyped'
  <2>. HIDE DEF p
  <2>. QED
    BY <1>2, <1>4, <1>5, <1>6, <1>7, TurnIs
<1>9. WalkTyped'
  <2>. DEFINE F == calls[c].rest
  <2>1. F \in Seq(Frame) /\ c \in Nat /\ how \in Hows /\ error \in Errors
    BY <1>1 DEF CallRecord, Hows, Errors
  <2>2. walk' = Walk(F, error, c, how) /\ Sited(routers, F)
    BY <1>1, <1>2
  <2>. HIDE DEF F
  <2>. QED
    BY <1>2, <2>1, <2>2, WalkIs
<1>10. scope' \in Scope
  BY <1>1, <1>2 DEF CallRecord
<1>11. TypeOK'
  BY <1>2, <1>8, <1>9, <1>10, TypeKept DEF TypeOK
<1>. QED
  BY <1>2, <1>8, <1>11

LEMMA DirectNextDoes ==
  ASSUME TypeOK, NEW c \in DOMAIN calls, NEW error \in {None, "error"}, DirectNext(c, error)
  PROVE  TypeOK' /\ Turns(c, calls[c].phase, TRUE, error)
<1>. DEFINE g0 == [calls[c] EXCEPT !.nexted = TRUE]
            g == [g0 EXCEPT !.error = error]
<1>1. calls[c] \in CallRecord
  BY CallTyped
<1>2. UNCHANGED <<app, routers, request, scope, walk, settled, response, crashed>>
      /\ calls' = [calls EXCEPT ![c].nexted = TRUE, ![c].error = error]
  BY DEF DirectNext
<1>3. error \in Errors
  BY DEF Errors
<1>4. g0 \in CallRecord /\ Same(g0, calls[c]) /\ g0.phase = calls[c].phase /\ g0.nexted = TRUE
  BY <1>1, NextedIs
<1>5. calls' = [calls EXCEPT ![c] = g]
  BY <1>1, <1>2 DEF CallRecord
<1>. HIDE DEF g0
<1>6. g \in CallRecord /\ Same(g, g0) /\ g.phase = g0.phase /\ g.nexted = g0.nexted /\ g.error = error
  BY <1>3, <1>4, ErrorIs
<1>. HIDE DEF g
<1>7. Same(g, calls[c])
  BY <1>4, <1>6 DEF Same
<1>8. Turns(c, calls[c].phase, TRUE, error) /\ CallsTyped'
  <2>1. Turns(c, g.phase, g.nexted, g.error) /\ CallsTyped'
    BY <1>2, <1>5, <1>6, <1>7, TurnIs
  <2>. QED
    BY <1>4, <1>6, <2>1
<1>9. TypeOK'
  BY <1>2, <1>8, TypeKept DEF TypeOK, WalkTyped
<1>. QED
  BY <1>8, <1>9

LEMMA PhaseDoes ==
  ASSUME TypeOK, NEW c \in DOMAIN calls, NEW p \in Phases, calls' = [calls EXCEPT ![c].phase = p],
         app' = app, routers' = routers, request' = request, scope' \in Scope, walk' = walk,
         settled' \subseteq Token, response' \in Answer, crashed' = crashed
  PROVE  TypeOK' /\ Turns(c, p, calls[c].nexted, calls[c].error)
<1>1. Turns(c, p, calls[c].nexted, calls[c].error) /\ CallsTyped'
  BY PhaseTurns
<1>. QED
  BY <1>1, TypeKept DEF TypeOK, WalkTyped

\* The promise of the dispatch this call was made in.
Promise(c) == [by |-> calls[c].by, how |-> calls[c].how, rejects |-> FALSE]

LEMMA PromiseTyped ==
  ASSUME TypeOK, NEW c \in DOMAIN calls
  PROVE  Promise(c) \in Token
BY CallTyped DEF Promise, Token, CallRecord

LEMMA ChainReturnDoes ==
  ASSUME TypeOK, NEW c \in DOMAIN calls, ChainReturn(c)
  PROVE  /\ TypeOK'
         /\ Turns(c, IF calls[c].nexted THEN "returned" ELSE "silent", calls[c].nexted, calls[c].error)
         /\ settled' = settled \cup {Promise(c)}
<1>. DEFINE p == IF calls[c].nexted THEN "returned" ELSE "silent"
<1>1. p \in Phases
  BY DEF Phases
<1>2. /\ calls' = [calls EXCEPT ![c].phase = p]
      /\ scope' = IF calls[c].nexted THEN scope ELSE calls[c].before
      /\ settled' = settled \cup {Promise(c)}
      /\ UNCHANGED <<app, routers, request, walk, response, crashed>>
  BY DEF ChainReturn, Promise
<1>3. scope' \in Scope
  BY <1>2, CallTyped DEF TypeOK, CallRecord
<1>4. settled' \subseteq Token /\ response' \in Answer
  BY <1>2, PromiseTyped DEF TypeOK
<1>. HIDE DEF p
<1>5. TypeOK' /\ Turns(c, p, calls[c].nexted, calls[c].error)
  BY <1>1, <1>2, <1>3, <1>4, PhaseDoes
<1>. QED
  BY <1>2, <1>5 DEF p

LEMMA FileBeginsDoes ==
  ASSUME TypeOK, NEW c \in DOMAIN calls, FileBegins(c)
  PROVE  TypeOK' /\ Turns(c, "sending", calls[c].nexted, calls[c].error)
<1>1. /\ calls' = [calls EXCEPT ![c].phase = "sending"]
      /\ response' = [response EXCEPT !.head = "file"]
      /\ UNCHANGED <<app, routers, request, scope, walk, settled, crashed>>
  BY DEF FileBegins
<1>2. response' \in Answer /\ scope' \in Scope /\ settled' \subseteq Token
  BY <1>1 DEF TypeOK, Answer
<1>3. "sending" \in Phases
  BY DEF Phases
<1>. QED
  BY <1>1, <1>2, <1>3, PhaseDoes

LEMMA FileEndsDoes ==
  ASSUME TypeOK, NEW c \in DOMAIN calls, FileEnds(c)
  PROVE  TypeOK' /\ Turns(c, "running", calls[c].nexted, calls[c].error)
<1>1. /\ calls' = [calls EXCEPT ![c].phase = "running"]
      /\ response' = [response EXCEPT !.ended = TRUE, !.status = IF response.ended THEN @ ELSE 200]
      /\ UNCHANGED <<app, routers, request, scope, walk, settled, crashed>>
  BY DEF FileEnds
<1>2. scope' \in Scope /\ settled' \subseteq Token
  BY <1>1 DEF TypeOK
<1>3. response' \in Answer
  <2>. DEFINE x == [response EXCEPT !.ended = TRUE]
              n == IF response.ended THEN response.status ELSE 200
  <2>1. x \in Answer /\ n \in Nat /\ response \in Answer
    BY DEF TypeOK, Answer
  <2>2. response' = [x EXCEPT !.status = n]
    BY <1>1, <2>1 DEF Answer
  <2>. HIDE DEF x, n
  <2>. QED
    BY <2>1, <2>2 DEF Answer
<1>4. "running" \in Phases
  BY DEF Phases
<1>. QED
  BY <1>1, <1>2, <1>3, <1>4, PhaseDoes

\* A route of the tree gives way to the next one of its entry.
Hands(c, h) ==
  /\ c \in DOMAIN calls
  /\ h \in CallRecord
  /\ calls' \in Seq(CallRecord)
  /\ Len(calls') = Len(calls) + 1
  /\ DOMAIN calls' = 1..(Len(calls) + 1)
  /\ calls'[Len(calls) + 1] = h
  /\ Same(calls'[c], calls[c])
  /\ calls'[c].phase = "returned"
  /\ calls'[c].nexted = calls[c].nexted
  /\ calls'[c].error = calls[c].error
  /\ \A d \in DOMAIN calls : d # c => calls'[d] = calls[d]
  /\ h.handler = Head(calls[c].others) /\ h.layer = "route" /\ h.errors = FALSE /\ h.direct = TRUE
  /\ h.others = Tail(calls[c].others) /\ h.rest = calls[c].rest /\ h.scope = calls[c].scope /\ h.before = scope
  /\ h.by = calls[c].by /\ h.how = calls[c].how /\ h.nexted = FALSE /\ h.error = None
  /\ h.phase = "running"

LEMMA DirectReturnDoes ==
  ASSUME TypeOK, NEW c \in DOMAIN calls, DirectReturn(c)
  PROVE  /\ TypeOK'
         /\ \/ /\ ~calls[c].nexted
               /\ Turns(c, "silent", calls[c].nexted, calls[c].error)
               /\ settled' = settled \cup {Promise(c)}
               /\ UNCHANGED <<scope, walk>>
            \/ /\ calls[c].nexted /\ calls[c].error = None /\ calls[c].others # <<>>
               /\ \E h : Hands(c, h)
               /\ scope' = calls[c].scope
               /\ UNCHANGED <<walk, settled>>
            \/ /\ calls[c].nexted
               /\ Turns(c, "returned", calls[c].nexted, calls[c].error)
               /\ walk' = Walk(calls[c].rest, calls[c].error, calls[c].by, calls[c].how)
               /\ UNCHANGED <<scope, settled>>
<1>1. calls[c] \in CallRecord /\ Sited(routers, calls[c].rest)
  BY CallTyped
<1>2. UNCHANGED <<app, routers, request, response, crashed>>
  BY DEF DirectReturn
<1>3. "silent" \in Phases /\ "returned" \in Phases
  BY DEF Phases
<1>4. CASE /\ ~calls[c].nexted
           /\ calls' = [calls EXCEPT ![c].phase = "silent"]
           /\ settled' = settled \cup {Promise(c)}
           /\ UNCHANGED <<scope, walk>>
  <2>1. settled' \subseteq Token /\ response' \in Answer /\ scope' \in Scope
    BY <1>2, <1>4, PromiseTyped DEF TypeOK
  <2>2. TypeOK' /\ Turns(c, "silent", calls[c].nexted, calls[c].error)
    BY <1>2, <1>3, <1>4, <2>1, PhaseDoes
  <2>. QED
    BY <1>4, <2>2
<1>5. CASE /\ calls[c].nexted /\ calls[c].error = None /\ calls[c].others # <<>>
           /\ calls' = Append([calls EXCEPT ![c].phase = "returned"],
                              DirectCall(calls[c].others, calls[c].scope, calls[c].rest, calls[c].by, calls[c].how))
           /\ scope' = calls[c].scope
           /\ UNCHANGED <<walk, settled>>
  <2>. DEFINE g == [calls[c] EXCEPT !.phase = "returned"]
              s == [calls EXCEPT ![c].phase = "returned"]
              handlers == calls[c].others
              own == calls[c].scope
              rest == calls[c].rest
              by == calls[c].by
              how == calls[c].how
              h == DirectCall(handlers, own, rest, by, how)
  <2>1. calls \in Seq(CallRecord) /\ scope \in Scope
    BY DEF TypeOK, CallsTyped
  <2>2. g \in CallRecord /\ Same(g, calls[c]) /\ g.phase = "returned" /\ g.nexted = calls[c].nexted /\ g.error = calls[c].error
    BY <1>1, <1>3, PhaseIs
  <2>3. s = [calls EXCEPT ![c] = g]
    OBVIOUS
  <2>. HIDE DEF g, s
  <2>4. /\ s \in Seq(CallRecord)
        /\ Len(s) = Len(calls)
        /\ DOMAIN s = DOMAIN calls
        /\ s[c] = g
        /\ \A d \in DOMAIN calls : d # c => s[d] = calls[d]
    BY <2>1, <2>2, <2>3, AlterIs
  <2>5. /\ own \in Scope /\ rest \in Seq(Frame) /\ by \in Nat /\ how \in Hows
        /\ handlers \in Seq(Nat) /\ handlers # <<>>
    BY <1>1, <1>5 DEF CallRecord
  <2>6. calls' = Append(s, h)
    BY <1>5 DEF s
  <2>. HIDE DEF own, rest, by, how, handlers
  <2>7. Head(handlers) \in Nat /\ Tail(handlers) \in Seq(Nat)
    BY <2>5, Popped
  <2>8. IsDirectCall(h, handlers, own, rest, by, how)
    BY <2>1, <2>5, <2>7, DirectCallIs
  <2>. HIDE DEF h
  <2>9. h \in CallRecord
    BY <2>8 DEF IsDirectCall
  <2>10. /\ calls' \in Seq(CallRecord)
         /\ Len(calls') = Len(s) + 1
         /\ DOMAIN calls' = 1..(Len(s) + 1)
         /\ DOMAIN s = 1..Len(s)
         /\ calls'[Len(s) + 1] = h
         /\ \A d \in DOMAIN s : calls'[d] = s[d]
    BY <2>4, <2>6, <2>9, GrowIs
  <2>11. calls'[c] = g /\ \A d \in DOMAIN calls : d # c => calls'[d] = calls[d]
    BY <2>4, <2>10
  <2>12. Hands(c, h)
    BY <2>2, <2>4, <2>8, <2>10, <2>11 DEF Hands, IsDirectCall, handlers, own, rest, by, how
  <2>13. CallsTyped'
    <3>1. \A d \in DOMAIN calls' : d \in DOMAIN calls \/ d = Len(calls) + 1
      BY <2>4, <2>10
    <3>2. \A d \in DOMAIN calls : calls'[d].rest = calls[d].rest
      BY <2>2, <2>11 DEF Same
    <3>3. h.rest = calls[c].rest
      BY <2>12 DEF Hands
    <3>4. \A d \in DOMAIN calls' : Sited(routers, calls'[d].rest)
      BY <1>1, <2>4, <2>10, <3>1, <3>2, <3>3 DEF TypeOK, CallsTyped
    <3>. QED
      BY <1>2, <2>10, <3>4 DEF CallsTyped
  <2>14. TypeOK'
    BY <1>2, <1>5, <2>5, <2>13, TypeKept DEF TypeOK, WalkTyped, own
  <2>. QED
    BY <1>5, <2>12, <2>14
<1>6. CASE /\ calls[c].nexted
           /\ calls' = [calls EXCEPT ![c].phase = "returned"]
           /\ walk' = Walk(calls[c].rest, calls[c].error, calls[c].by, calls[c].how)
           /\ UNCHANGED <<scope, settled>>
  <2>1. Turns(c, "returned", calls[c].nexted, calls[c].error) /\ CallsTyped'
    BY <1>2, <1>3, <1>6, PhaseTurns
  <2>2. WalkTyped'
    <3>. DEFINE F == calls[c].rest
                error == calls[c].error
                by == calls[c].by
                how == calls[c].how
    <3>1. F \in Seq(Frame) /\ by \in Nat /\ how \in Hows /\ error \in Errors
      BY <1>1 DEF CallRecord
    <3>2. walk' = Walk(F, error, by, how) /\ Sited(routers, F)
      BY <1>1, <1>6
    <3>. HIDE DEF F, by, how, error
    <3>. QED
      BY <1>2, <3>1, <3>2, WalkIs
  <2>3. TypeOK'
    BY <1>2, <1>6, <2>1, <2>2, TypeKept DEF TypeOK
  <2>. QED
    BY <1>6, <2>1, <2>3
<1>7. \/ /\ ~calls[c].nexted
         /\ calls' = [calls EXCEPT ![c].phase = "silent"]
         /\ settled' = settled \cup {Promise(c)}
         /\ UNCHANGED <<scope, walk>>
      \/ /\ calls[c].nexted /\ calls[c].error = None /\ calls[c].others # <<>>
         /\ calls' = Append([calls EXCEPT ![c].phase = "returned"],
                            DirectCall(calls[c].others, calls[c].scope, calls[c].rest, calls[c].by, calls[c].how))
         /\ scope' = calls[c].scope
         /\ UNCHANGED <<walk, settled>>
      \/ /\ calls[c].nexted
         /\ calls' = [calls EXCEPT ![c].phase = "returned"]
         /\ walk' = Walk(calls[c].rest, calls[c].error, calls[c].by, calls[c].how)
         /\ UNCHANGED <<scope, settled>>
  BY Zenon DEF DirectReturn, Promise
<1>. QED
  BY <1>4, <1>5, <1>6, <1>7

(***************************************************************************)
(* The walk's actions, the request's arrival and registration              *)
(***************************************************************************)
LEMMA WalkTypes ==
  ASSUME TypeOK, walk.on
  PROVE  /\ walk.error \in Errors /\ walk.by \in Nat /\ walk.how \in Hows
         /\ walk = [on |-> TRUE, frames |-> walk.frames, error |-> walk.error, by |-> walk.by, how |-> walk.how]
         /\ walk.frames \in Seq(Frame) /\ Sited(routers, walk.frames)
BY DEF TypeOK, WalkTyped, WalkRecord

LEMMA WalkMoves ==
  ASSUME TypeOK, walk.on, NEW F \in Seq(Frame), Sited(routers, F), walk' = [walk EXCEPT !.frames = F],
         UNCHANGED <<app, routers, request, scope, calls, settled, response, crashed>>
  PROVE  TypeOK' /\ walk' = Walk(F, walk.error, walk.by, walk.how)
<1>1. walk' = Walk(F, walk.error, walk.by, walk.how)
  BY WalkTypes DEF Walk
<1>2. WalkTyped'
  <2>. DEFINE error == walk.error
              by == walk.by
              how == walk.how
  <2>1. error \in Errors /\ by \in Nat /\ how \in Hows /\ walk' = Walk(F, error, by, how)
    BY <1>1, WalkTypes
  <2>. HIDE DEF error, by, how
  <2>. QED
    BY <2>1, WalkIs
<1>3. CallsTyped'
  BY CallsKept
<1>. QED
  BY <1>1, <1>2, <1>3, TypeKept DEF TypeOK

LEMMA PassLayerDoes ==
  ASSUME TypeOK, PassLayer
  PROVE  TypeOK' /\ walk' = Walk(Behind, walk.error, walk.by, walk.how)
<1>1. Behind \in Seq(Frame) /\ Sited(routers, Behind)
  BY BehindRight DEF PassLayer
<1>2. walk.on /\ walk' = [walk EXCEPT !.frames = Behind]
      /\ UNCHANGED <<app, routers, request, scope, calls, settled, response, crashed>>
  BY DEF PassLayer, AtLayer
<1>. QED
  BY <1>1, <1>2, WalkMoves

LEMMA LeaveRouterDoes ==
  ASSUME TypeOK, LeaveRouter
  PROVE  TypeOK' /\ walk' = Walk(Others, walk.error, walk.by, walk.how)
<1>1. walk.on /\ walk.frames # <<>> /\ walk' = [walk EXCEPT !.frames = Others]
      /\ UNCHANGED <<app, routers, request, scope, calls, settled, response, crashed>>
  BY DEF LeaveRouter
<1>2. Others \in Seq(Frame) /\ Sited(routers, Others)
  <2>1. walk.frames \in Seq(Frame) /\ Sited(routers, walk.frames)
    BY <1>1, WalkTypes
  <2>2. /\ Others \in Seq(Frame)
        /\ Len(walk.frames) \in Nat /\ DOMAIN walk.frames = 1..Len(walk.frames)
        /\ DOMAIN Others = 1..(Len(walk.frames) - 1)
        /\ \A i \in 1..(Len(walk.frames) - 1) : Others[i] = walk.frames[i + 1]
    BY <1>1, <2>1, Popped DEF Others
  <2>3. \A i \in DOMAIN Others : i + 1 \in DOMAIN walk.frames /\ Others[i] = walk.frames[i + 1]
    BY <2>2
  <2>. QED
    BY <2>1, <2>2, <2>3 DEF Sited
<1>. QED
  BY <1>1, <1>2, WalkMoves

LEMMA EnterRouterDoes ==
  ASSUME TypeOK, EnterRouter
  PROVE  /\ TypeOK'
         /\ \/ /\ walk' = Walk(<<Entered>> \o Behind, IF walk.error = "undefined" THEN None ELSE walk.error, walk.by, walk.how)
               /\ scope' = scope
               /\ calls' = calls
            \/ /\ walk.error \in {None, "undefined"}
               /\ \E h : Begins(h) /\ FoundBy(h, Entered, request.method) /\ h.rest = Behind
                         /\ h.by = walk.by /\ h.how = walk.how
<1>1. AtLayer /\ walk.on /\ Dispatched(request.method, Entered, Behind, walk.error, walk.by, walk.how)
      /\ UNCHANGED <<app, routers, request, settled, response, crashed>>
  BY DEF EnterRouter, AtLayer
<1>. DEFINE frame == Entered
            rest == Behind
            error == walk.error
            by == walk.by
            how == walk.how
            method == request.method
<1>2. /\ frame \in Frame /\ frame.place \in DOMAIN routers
      /\ rest \in Seq(Frame) /\ Sited(routers, rest)
      /\ error \in Errors /\ by \in Nat /\ how \in Hows
      /\ Dispatched(method, frame, rest, error, by, how)
  BY <1>1, EnteredRight, BehindRight, WalkTypes
<1>. HIDE DEF frame, rest, error, by, how, method
<1>3. /\ scope' \in Scope
      /\ WalkTyped'
      /\ CallsTyped'
      /\ \/ /\ walk' = Walk(<<frame>> \o rest, IF error = "undefined" THEN None ELSE error, by, how)
            /\ scope' = scope
            /\ calls' = calls
         \/ /\ error \in {None, "undefined"}
            /\ \E h : Begins(h) /\ FoundBy(h, frame, method) /\ h.rest = rest /\ h.by = by /\ h.how = how
  BY <1>1, <1>2, DispatchedDoes
<1>4. TypeOK'
  BY <1>1, <1>3, TypeKept DEF TypeOK
<1>. QED
  BY <1>3, <1>4 DEF frame, rest, error, by, how, method

Handles(h) ==
  /\ h.handler = Layer.id
  /\ h.layer = Layer.kind
  /\ ~h.direct
  /\ h.rest = BehindWith(Top.keys \cup OwnKeys)
  /\ h.scope.keys = Top.keys \cup OwnKeys
  /\ h.errors = (Layer.errors /\ walk.error # "undefined")
  /\ h.by = walk.by
  /\ h.how = walk.how

LEMMA CallHandlerDoes ==
  ASSUME TypeOK, CallHandler
  PROVE  TypeOK' /\ \E h : Begins(h) /\ Handles(h)
<1>. DEFINE keys == Top.keys \cup OwnKeys
            own == [base |-> Top.base, keys |-> keys, route |-> <<Layer.pattern>>]
            errors == Layer.errors /\ walk.error # "undefined"
            id == Layer.id
            kind == Layer.kind
            rest == BehindWith(keys)
            by == walk.by
            how == walk.how
            h == Call(id, kind, errors, FALSE, <<>>, rest, own, by, how)
<1>1. /\ AtLayer /\ walk.on
      /\ scope' = own
      /\ calls' = Append(calls, h)
      /\ response' = IF Layer.kind = "ws" THEN [response EXCEPT !.ended = TRUE, !.status = 101] ELSE response
      /\ walk' = Idle
      /\ UNCHANGED <<app, routers, request, settled, crashed>>
  BY DEF CallHandler, AtLayer
<1>2. /\ Top \in Frame /\ Layer \in LayerRecord /\ Layer.pattern \in Seq(Segment)
  BY <1>1, LayerRight
<1>3. keys \in SUBSET Names
  <2>1. OwnKeys \in SUBSET Names
    BY <1>2, KeysAreNames DEF OwnKeys
  <2>. QED
    BY <1>2, <2>1 DEF Frame
<1>4. own \in Scope
  <2>. HIDE DEF keys
  <2>1. <<Layer.pattern>> \in Seq(Seq(Segment))
    BY <1>2
  <2>. QED
    BY <1>2, <1>3, <2>1 DEF Frame, Scope
<1>5. id \in Nat /\ kind \in Kinds /\ errors \in BOOLEAN
  BY <1>2 DEF LayerRecord
<1>6. rest \in Seq(Frame) /\ Sited(routers, rest)
  BY <1>1, <1>3, BehindRight
<1>7. by \in Nat /\ how \in Hows
  BY <1>1, WalkTypes
<1>8. scope \in Scope /\ calls \in Seq(CallRecord) /\ response \in Answer
  BY DEF TypeOK, CallsTyped
<1>9. own.keys = keys
  OBVIOUS
<1>10. IsChainCall(h, id, kind, errors, rest, own, by, how)
  <2>. HIDE DEF keys, own, errors, id, kind, rest, by, how
  <2>. QED
    BY <1>4, <1>5, <1>6, <1>7, <1>8, ChainCallIs
<1>. HIDE DEF h
<1>11. Grows(h)
  BY <1>1, <1>8, <1>10, GrowIs DEF Grows, IsChainCall
<1>12. Begins(h)
  <2>. HIDE DEF own, rest
  <2>. QED
    BY <1>1, <1>6, <1>10, <1>11 DEF Begins, IsChainCall
<1>13. Handles(h)
  BY <1>9, <1>10 DEF Handles, IsChainCall
<1>14. response' \in Answer
  <2>. DEFINE x == [response EXCEPT !.ended = TRUE]
              y == [x EXCEPT !.status = 101]
  <2>1. x \in Answer
    BY <1>8 DEF Answer
  <2>2. [response EXCEPT !.ended = TRUE, !.status = 101] = y
    BY <1>8 DEF Answer
  <2>. HIDE DEF x
  <2>3. y \in Answer
    BY <2>1 DEF Answer
  <2>. HIDE DEF y
  <2>. QED
    BY <1>1, <1>8, <2>2, <2>3
<1>15. TypeOK'
  <2>1. WalkTyped' /\ CallsTyped'
    BY <1>1, <1>11, <1>12, IdleIs, CallsGrown DEF Begins
  <2>2. scope' \in Scope
    BY <1>1, <1>4
  <2>. QED
    BY <1>1, <1>14, <2>1, <2>2, TypeKept DEF TypeOK
<1>. QED
  BY <1>12, <1>13, <1>15

LEMMA EndChainDoes ==
  ASSUME TypeOK, EndChain
  PROVE  /\ TypeOK'
         /\ walk.on /\ walk.frames = <<>>
         /\ walk' = Idle
         /\ \/ settled' = settled
            \/ \E rejects \in BOOLEAN : settled' = settled \cup {[by |-> walk.by, how |-> walk.how, rejects |-> rejects]}
<1>. DEFINE rejects == ~Finished /\ response.head = "sent"
            token == [by |-> walk.by, how |-> walk.how, rejects |-> rejects]
            status == IF walk.error = None THEN 404 ELSE 500
<1>1. /\ walk.on /\ walk.frames = <<>>
      /\ settled' = IF request.method = "UPGRADE" THEN settled ELSE settled \cup {token}
      /\ response' = IF Finished \/ rejects THEN response
                     ELSE [response EXCEPT !.ended = TRUE, !.status = status]
      /\ walk' = Idle
      /\ UNCHANGED <<app, routers, request, scope, calls, crashed>>
  BY DEF EndChain
<1>2. rejects \in BOOLEAN
  OBVIOUS
<1>3. token \in Token
  <2>. HIDE DEF rejects
  <2>. QED
    BY <1>1, <1>2, WalkTypes DEF Token
<1>4. response' \in Answer
  <2>. DEFINE x == [response EXCEPT !.ended = TRUE]
              y == [x EXCEPT !.status = status]
  <2>1. x \in Answer /\ response \in Answer /\ status \in Nat
    <3>1. response \in Answer
      BY DEF TypeOK
    <3>2. x \in Answer
      BY <3>1 DEF Answer
    <3>3. status \in Nat
      OBVIOUS
    <3>. QED
      BY <3>1, <3>2, <3>3
  <2>2. [response EXCEPT !.ended = TRUE, !.status = status] = y
    BY <2>1 DEF Answer
  <2>. HIDE DEF x, status
  <2>3. y \in Answer
    BY <2>1 DEF Answer
  <2>. HIDE DEF y, rejects
  <2>. QED
    BY <1>1, <2>1, <2>2, <2>3
<1>5. WalkTyped' /\ CallsTyped'
  BY <1>1, IdleIs, CallsKept
<1>6. settled' \subseteq Token
  <2>. HIDE DEF token
  <2>. QED
    BY <1>1, <1>3 DEF TypeOK
<1>7. TypeOK'
  BY <1>1, <1>4, <1>5, <1>6, TypeKept DEF TypeOK
<1>. QED
  BY <1>1, <1>2, <1>7

LEMMA RegisterDoes ==
  ASSUME TypeOK, Quiet, NEW registration \in UNION {Range(sequence) : sequence \in Apps}, Register(registration)
  PROVE  /\ TypeOK'
         /\ Longer(app, app', Len(app) + 1)
<1>. DEFINE id == Len(app) + 1
            b == Append(app, registration)
<1>1. /\ request = NoRequest
      /\ app' = b
      /\ routers' = [m \in 0..id |->
                     IF m = registration.at THEN Registered(routers[m], registration, id)
                     ELSE IF m = id THEN NewRouter ELSE routers[m]]
      /\ UNCHANGED <<request, scope, walk, calls, settled, response, crashed>>
  BY DEF Register
<1>2. PICK sequence \in Apps : IsPrefix(b, sequence)
  BY DEF Register
<1>3. World(app, routers) /\ app \in Seq(Registration) /\ InPlace(app)
  BY DEF TypeOK, World
<1>4. sequence \in Seq(Registration) /\ InPlace(sequence)
  BY DispatchAssumption
<1>5. registration \in Registration
  <2>1. PICK t \in Apps : registration \in Range(t)
    OBVIOUS
  <2>2. PICK i \in DOMAIN t : registration = t[i]
    BY <2>1 DEF Range
  <2>3. t \in Seq(Registration)
    BY DispatchAssumption
  <2>. QED
    BY <2>2, <2>3, ElementOfSeq
<1>6. /\ b \in Seq(Registration)
      /\ Len(b) = Len(app) + 1
      /\ Len(app) + 1 <= Len(sequence)
      /\ \A i \in 1..(Len(app) + 1) : b[i] = sequence[i]
  BY <1>2, <1>3, <1>4, <1>5, PrefixRight
<1>7. InPlace(b)
  <2>1. Len(b) <= Len(sequence) /\ \A i \in 1..Len(b) : b[i] = sequence[i]
    BY <1>6
  <2>. QED
    BY <1>4, <1>6, <2>1, InPlaceOfPrefix
<1>8. b[id] = registration /\ Len(app) \in Nat /\ DOMAIN app = 1..Len(app) /\ \A i \in DOMAIN app : b[i] = app[i]
  BY <1>3, <1>5, AppendProperties, LenProperties
<1>9. Longer(app, b, id)
  <2>. HIDE DEF b
  <2>. QED
    BY <1>3, <1>6, <1>7, <1>8 DEF Longer
<1>10. World(b, routers')
  <2>1. routers' = [m \in 0..id |-> IF m = b[id].at THEN Registered(routers[m], b[id], id)
                                    ELSE IF m = id THEN NewRouter ELSE routers[m]]
    BY <1>1, <1>8
  <2>. HIDE DEF b, id
  <2>. QED
    BY <1>3, <1>9, <2>1, WorldGrows
<1>11. WalkTyped' /\ CallsTyped'
  <2>1. walk' = Idle /\ calls' = <<>>
    BY <1>1 DEF Quiet
  <2>2. calls' \in Seq(CallRecord) /\ DOMAIN calls' = {}
    BY <2>1, EmptySeq
  <2>. QED
    BY <2>1, <2>2, IdleIs DEF CallsTyped
<1>12. TypeOK'
  <2>. HIDE DEF b
  <2>. QED
    BY <1>1, <1>10, <1>11 DEF TypeOK
<1>. QED
  BY <1>1, <1>9, <1>12

\* A request arrives, as an upgrade or not.
Arrives(req) ==
  /\ request = NoRequest
  /\ req \in Request
  /\ req.path # <<>>
  /\ req # NoRequest
  /\ request' = req
  /\ Dispatched(req.method, TopFrame(req.path), <<>>, None, 0, "root")
  /\ UNCHANGED <<app, routers, settled, response, crashed>>

LEMMA ReceiveArrives ==
  ASSUME NEW req \in Requests
  PROVE  /\ Receive(req) => Arrives(req)
         /\ Upgrade(req) => Arrives([req EXCEPT !.method = "UPGRADE"])
<1>1. /\ req \in [method : STRING, path : Seq(Names), host : BOOLEAN]
      /\ req.path # <<>> /\ req.method \notin {None, "UPGRADE"}
  BY DispatchAssumption
<1>2. NoRequest.method = None
  BY DEF NoRequest
<1>3. ASSUME Receive(req) PROVE Arrives(req)
  <2>1. req \in Request /\ req # NoRequest
    BY <1>1, <1>2 DEF Request
  <2>. QED
    BY <1>1, <1>3, <2>1 DEF Receive, Arrives
<1>4. ASSUME Upgrade(req) PROVE Arrives([req EXCEPT !.method = "UPGRADE"])
  <2>. DEFINE u == [req EXCEPT !.method = "UPGRADE"]
  <2>1. u \in Request /\ u.path = req.path /\ u.method = "UPGRADE"
    BY <1>1 DEF Request
  <2>2. u # NoRequest
    BY <1>2, <2>1 DEF None
  <2>3. /\ request = NoRequest
        /\ request' = u
        /\ Dispatched("UPGRADE", TopFrame(req.path), <<>>, None, 0, "root")
        /\ UNCHANGED <<app, routers, settled, response, crashed>>
    BY <1>4 DEF Upgrade
  <2>4. Dispatched(u.method, TopFrame(u.path), <<>>, None, 0, "root")
    <3>. HIDE DEF u
    <3>. QED
      BY <2>1, <2>3, Zenon
  <2>5. Arrives(u)
    <3>. HIDE DEF u
    <3>. QED
      BY <1>1, <2>1, <2>2, <2>3, <2>4 DEF Arrives
  <2>. QED
    BY <2>5
<1>. QED
  BY <1>3, <1>4

LEMMA ArrivesDoes ==
  ASSUME TypeOK, Quiet, NEW req, Arrives(req)
  PROVE  /\ TypeOK'
         /\ TopFrame(req.path) \in Frame
         /\ \/ /\ walk' = Walk(<<TopFrame(req.path)>> \o <<>>, None, 0, "root")
               /\ scope' = scope
               /\ calls' = calls
            \/ \E h : Begins(h) /\ FoundBy(h, TopFrame(req.path), req.method) /\ h.rest = <<>>
                        /\ h.by = 0 /\ h.how = "root"
<1>. DEFINE frame == TopFrame(req.path)
            rest == <<>>
            error == None
            by == 0
            how == "root"
            method == req.method
<1>1. /\ req \in Request /\ req.path # <<>> /\ request' = req
      /\ Dispatched(method, frame, rest, error, by, how)
      /\ UNCHANGED <<app, routers, settled, response, crashed>>
  BY DEF Arrives
<1>2. frame \in Frame /\ frame.place \in DOMAIN routers
  <2>1. frame = [place |-> 0, index |-> 1, base |-> <<>>, keys |-> {}, path |-> req.path]
    BY DEF TopFrame
  <2>2. <<>> \in Seq(Seq(Segment)) /\ req.path \in Seq(Names) \ {<<>>}
    BY <1>1, EmptySeq DEF Request
  <2>3. 0 \in DOMAIN routers
    <3>1. app \in Seq(Registration) /\ DOMAIN routers = 0..Len(app)
      BY DEF TypeOK, World
    <3>. QED
      BY <3>1, LenProperties
  <2>. QED
    BY <2>1, <2>2, <2>3 DEF Frame
<1>3. rest \in Seq(Frame) /\ Sited(routers, rest)
  BY EmptySeq DEF Sited
<1>4. error \in Errors /\ by \in Nat /\ how \in Hows
  BY DEF Errors, Hows
<1>5. error # "undefined"
  BY DEF None
<1>. HIDE DEF frame, rest, error, by, how, method
<1>6. /\ scope' \in Scope
      /\ WalkTyped'
      /\ CallsTyped'
      /\ \/ /\ walk' = Walk(<<frame>> \o rest, IF error = "undefined" THEN None ELSE error, by, how)
            /\ scope' = scope
            /\ calls' = calls
         \/ /\ error \in {None, "undefined"}
            /\ \E h : Begins(h) /\ FoundBy(h, frame, method) /\ h.rest = rest /\ h.by = by /\ h.how = how
  BY <1>1, <1>2, <1>3, <1>4, DispatchedDoes
<1>7. TypeOK'
  BY <1>1, <1>6, TypeKept DEF TypeOK
<1>. QED
  BY <1>2, <1>5, <1>6, <1>7 DEF frame, rest, error, by, how, method

(***************************************************************************)
(* The kinds of steps                                                      *)
(***************************************************************************)
Stays == UNCHANGED <<app, routers, request>>

\* Nothing that has to do with calls: a registration, or the answer.
Rests == UNCHANGED <<scope, walk, calls, settled>> /\ (calls # <<>> => Stays) /\ (request # NoRequest => Stays)
         /\ (request = NoRequest => request' = NoRequest)

\* The walk goes on, without a call.
Moves == /\ walk.on /\ Stays /\ UNCHANGED <<scope, calls, settled>>
         /\ \E F, e : walk' = Walk(F, e, walk.by, walk.how)

\* The walk comes to a handler.
Calls(h) == walk.on /\ Stays /\ Begins(h) /\ h.by = walk.by /\ h.how = walk.how /\ settled' = settled

\* The walk comes to the end of the chain.
Ends == /\ walk.on /\ walk.frames = <<>> /\ Stays /\ UNCHANGED <<scope, calls>> /\ walk' = Idle
        /\ \/ settled' = settled
           \/ \E rejects \in BOOLEAN : settled' = settled \cup {[by |-> walk.by, how |-> walk.how, rejects |-> rejects]}

\* The request arrives.
Starts == /\ request = NoRequest /\ request' # NoRequest /\ settled' = settled /\ UNCHANGED <<app, routers>>
          /\ \/ scope' = scope /\ calls' = calls /\ \E F : walk' = Walk(F, None, 0, "root")
             \/ \E h : Begins(h) /\ h.how = "root"

\* A handler returns and its promise settles.
Returns(c) ==
  /\ ~walk.on /\ Stays /\ walk' = walk
  /\ calls[c].phase = "running"
  /\ Turns(c, IF ~calls[c].nexted THEN "silent" ELSE "returned", calls[c].nexted, calls[c].error)
  /\ calls[c].direct => ~calls[c].nexted
  /\ scope' = IF calls[c].direct \/ calls[c].nexted THEN scope ELSE calls[c].before
  /\ settled' = settled \cup {Promise(c)}

\* A route of the tree returns after its next().
Passes(c, h) ==
  /\ ~walk.on /\ Stays /\ UNCHANGED <<walk, settled>>
  /\ calls[c].phase = "running" /\ calls[c].direct /\ calls[c].nexted /\ calls[c].others # <<>>
  /\ Hands(c, h)
  /\ scope' = calls[c].scope

Done(c) ==
  /\ ~walk.on /\ Stays /\ settled' = settled /\ scope' = scope
  /\ calls[c].phase = "running" /\ calls[c].direct /\ calls[c].nexted
  /\ Turns(c, "returned", calls[c].nexted, calls[c].error)
  /\ walk' = Walk(calls[c].rest, calls[c].error, calls[c].by, calls[c].how)

\* A handler fails: of itself, its file does, or the promise it waits for.
Breaks(c, e) ==
  /\ ~walk.on /\ Stays
  /\ Turns(c, "failed", calls[c].nexted, e)
  /\ scope' = IF calls[c].direct THEN scope ELSE calls[c].before
  /\ walk' = Walk(calls[c].rest, e, calls[c].by, calls[c].how)
  /\ \/ calls[c].phase \in {"running", "sending"} /\ settled' = settled
     \/ calls[c].phase = "waiting" /\ \E t \in settled : t.how = "awaited" /\ t.by = c /\ settled' = settled \ {t}

\* A handler of the chain calls next().
Nexts(c, e, how) ==
  /\ ~walk.on /\ Stays /\ settled' = settled
  /\ ~calls[c].direct /\ ~calls[c].nexted
  /\ calls[c].phase \in {"running", "silent"}
  /\ e \in {None, "error"}
  /\ how \in {"awaited", "dropped"}
  /\ how = "awaited" => calls[c].phase = "running"
  /\ Turns(c, IF how = "awaited" THEN "waiting" ELSE IF calls[c].phase = "silent" THEN "returned" ELSE calls[c].phase,
           TRUE, calls[c].error)
  /\ scope' = calls[c].before
  /\ walk' = Walk(calls[c].rest, e, c, how)

\* A route of the tree calls next().
Asks(c, e) ==
  /\ ~walk.on /\ Stays /\ UNCHANGED <<scope, walk, settled>>
  /\ calls[c].phase = "running" /\ calls[c].direct /\ ~calls[c].nexted
  /\ e \in {None, "error"}
  /\ Turns(c, "running", TRUE, e)

\* A file begins or ends.
Sends(c) ==
  /\ ~walk.on /\ Stays /\ UNCHANGED <<scope, walk, settled>>
  /\ ~calls[c].nexted /\ ~calls[c].direct
  /\ \/ calls[c].phase = "running" /\ Turns(c, "sending", calls[c].nexted, calls[c].error)
     \/ calls[c].phase = "sending" /\ Turns(c, "running", calls[c].nexted, calls[c].error)

\* A handler is told that its next() is done.
Wakes(c) ==
  /\ ~walk.on /\ Stays /\ UNCHANGED <<scope, walk>>
  /\ calls[c].phase = "waiting"
  /\ Turns(c, "running", calls[c].nexted, calls[c].error)
  /\ \E t \in settled : t.how = "awaited" /\ t.by = c /\ settled' = settled \ {t}

\* Nobody waits for a promise that settled.
Drops ==
  /\ ~walk.on /\ Stays /\ UNCHANGED <<scope, walk, calls>>
  /\ \E t \in settled : t.how # "awaited" /\ settled' = settled \ {t}

\* A step that is none of the walk's, but for its end.
Plain ==
  \/ Rests \/ Ends \/ Drops
  \/ \E c \in DOMAIN calls : \/ Returns(c) \/ Done(c) \/ Sends(c) \/ Wakes(c)
                             \/ \E h : Passes(c, h)
                             \/ \E e \in Errors : Breaks(c, e) \/ Asks(c, e) \/ \E how \in Hows : Nexts(c, e, how)

Kind == Plain \/ Moves \/ Starts \/ \E h : Calls(h)

LEMMA ThrowBreaks ==
  ASSUME TypeOK, ~walk.on, NEW c \in DOMAIN calls, NEW error \in {"error", "undefined"}, Throw(c, error)
  PROVE  TypeOK' /\ Breaks(c, error)
<1>1. error \in Errors /\ settled \in SUBSET Token
  BY DEF Errors, TypeOK
<1>2. Fails(c, error, settled) /\ calls[c].phase = "running"
  BY DEF Throw
<1>3. /\ TypeOK'
      /\ Turns(c, "failed", calls[c].nexted, error)
      /\ walk' = Walk(calls[c].rest, error, calls[c].by, calls[c].how)
  BY <1>1, <1>2, FailsDoes
<1>4. Stays /\ settled' = settled /\ scope' = IF calls[c].direct THEN scope ELSE calls[c].before
  BY <1>2 DEF Fails, Stays
<1>. QED
  BY <1>2, <1>3, <1>4 DEF Breaks

LEMMA FileFailsBreaks ==
  ASSUME TypeOK, ~walk.on, NEW c \in DOMAIN calls, FileFails(c)
  PROVE  TypeOK' /\ Breaks(c, "error")
<1>1. "error" \in Errors /\ settled \in SUBSET Token
  BY DEF Errors, TypeOK
<1>2. Fails(c, "error", settled) /\ calls[c].phase = "sending"
  BY DEF FileFails
<1>3. /\ TypeOK'
      /\ Turns(c, "failed", calls[c].nexted, "error")
      /\ walk' = Walk(calls[c].rest, "error", calls[c].by, calls[c].how)
  BY <1>1, <1>2, FailsDoes
<1>4. Stays /\ settled' = settled /\ scope' = IF calls[c].direct THEN scope ELSE calls[c].before
  BY <1>2 DEF Fails, Stays
<1>. QED
  BY <1>2, <1>3, <1>4 DEF Breaks

LEMMA DeliverKind ==
  ASSUME TypeOK, PromisesRight, ~walk.on, NEW d \in settled, Deliver(d)
  PROVE  TypeOK' /\ (Drops \/ \E c \in DOMAIN calls : Wakes(c) \/ \E e \in Errors : Breaks(c, e))
<1>1. d \in Token /\ settled \ {d} \in SUBSET Token
  BY DEF TypeOK
<1>2. CASE /\ d.how = "awaited" /\ ~d.rejects
           /\ settled' = settled \ {d}
           /\ calls' = [calls EXCEPT ![d.by].phase = "running"]
           /\ UNCHANGED <<app, routers, request, scope, walk, response, crashed>>
  <2>. DEFINE c == d.by
  <2>1. c \in DOMAIN calls /\ calls[c].phase = "waiting"
    BY <1>2 DEF PromisesRight, Waits
  <2>2. "running" \in Phases /\ calls' = [calls EXCEPT ![c].phase = "running"]
    BY <1>2 DEF Phases
  <2>3. d.by = c
    OBVIOUS
  <2>. HIDE DEF c
  <2>4. scope' \in Scope /\ settled' \subseteq Token /\ response' \in Answer
    BY <1>1, <1>2 DEF TypeOK
  <2>5. TypeOK' /\ Turns(c, "running", calls[c].nexted, calls[c].error)
    BY <1>2, <2>1, <2>2, <2>4, PhaseDoes
  <2>6. Wakes(c)
    BY <1>2, <2>1, <2>3, <2>5 DEF Wakes, Stays
  <2>. QED
    BY <2>1, <2>5, <2>6
<1>3. CASE d.how = "awaited" /\ d.rejects /\ Fails(d.by, "error", settled \ {d})
  <2>. DEFINE c == d.by
              told == settled \ {d}
  <2>1. c \in DOMAIN calls /\ calls[c].phase = "waiting"
    BY <1>3 DEF PromisesRight, Waits
  <2>2. "error" \in Errors /\ told \in SUBSET Token /\ Fails(c, "error", told)
    BY <1>1, <1>3 DEF Errors
  <2>3. d.by = c /\ told = settled \ {d}
    OBVIOUS
  <2>. HIDE DEF c, told
  <2>4. /\ TypeOK'
        /\ Turns(c, "failed", calls[c].nexted, "error")
        /\ walk' = Walk(calls[c].rest, "error", calls[c].by, calls[c].how)
    BY <2>1, <2>2, FailsDoes
  <2>5. Stays /\ settled' = told /\ scope' = IF calls[c].direct THEN scope ELSE calls[c].before
    BY <2>2 DEF Fails, Stays
  <2>6. Breaks(c, "error")
    BY <1>3, <2>1, <2>3, <2>4, <2>5 DEF Breaks
  <2>. QED
    BY <2>1, <2>2, <2>4, <2>6
<1>4. CASE /\ d.how \in {"dropped", "root"}
           /\ settled' = settled \ {d}
           /\ crashed' = (d.rejects /\ (d.how = "root" => ~Finished))
           /\ UNCHANGED <<app, routers, request, scope, walk, calls, response>>
  <2>1. crashed' \in BOOLEAN
    BY <1>4
  <2>2. CallsTyped' /\ WalkTyped'
    BY <1>4, CallsKept DEF TypeOK, WalkTyped
  <2>3. TypeOK'
    BY <1>1, <1>4, <2>1, <2>2, TypeKept DEF TypeOK
  <2>4. Drops
    BY <1>4 DEF Drops, Stays
  <2>. QED
    BY <2>3, <2>4
<1>. QED
  BY <1>2, <1>3, <1>4, Zenon DEF Deliver

LEMMA AnswerRests ==
  ASSUME TypeOK, UNCHANGED <<app, routers, request, scope, walk, calls, settled, crashed>>, response' \in Answer
  PROVE  TypeOK' /\ Rests
<1>1. CallsTyped' /\ WalkTyped'
  BY CallsKept DEF TypeOK, WalkTyped
<1>2. TypeOK'
  BY <1>1, TypeKept DEF TypeOK
<1>. QED
  BY <1>2 DEF Rests, Stays

LEMMA HandlerKind ==
  ASSUME TypeOK, PhasesRight, ~walk.on, NEW c \in DOMAIN calls, HandlerEnds(c) \/ HandlerActs(c)
  PROVE  /\ TypeOK'
         /\ \/ Rests \/ Returns(c) \/ Done(c) \/ Sends(c) \/ \E h : Passes(c, h)
            \/ \E e \in Errors : Breaks(c, e) \/ Asks(c, e) \/ \E how \in Hows : Nexts(c, e, how)
<1>1. CASE ChainReturn(c)
  <2>1. ~calls[c].direct /\ calls[c].phase = "running" /\ UNCHANGED <<app, routers, request, walk>>
        /\ scope' = IF calls[c].nexted THEN scope ELSE calls[c].before
    BY <1>1 DEF ChainReturn
  <2>2. /\ TypeOK'
        /\ Turns(c, IF calls[c].nexted THEN "returned" ELSE "silent", calls[c].nexted, calls[c].error)
        /\ settled' = settled \cup {Promise(c)}
    BY <1>1, ChainReturnDoes
  <2>3. Returns(c)
    BY <2>1, <2>2 DEF Returns, Stays
  <2>. QED
    BY <2>2, <2>3
<1>2. CASE DirectReturn(c)
  <2>1. calls[c].direct /\ calls[c].phase = "running" /\ UNCHANGED <<app, routers, request>>
    BY <1>2 DEF DirectReturn
  <2>2. TypeOK'
    BY <1>2, DirectReturnDoes
  <2>3. CASE /\ ~calls[c].nexted
             /\ Turns(c, "silent", calls[c].nexted, calls[c].error)
             /\ settled' = settled \cup {Promise(c)}
             /\ UNCHANGED <<scope, walk>>
    <3>1. Returns(c)
      BY <2>1, <2>3 DEF Returns, Stays
    <3>. QED
      BY <2>2, <3>1
  <2>4. CASE /\ calls[c].nexted /\ calls[c].error = None /\ calls[c].others # <<>>
             /\ \E h : Hands(c, h)
             /\ scope' = calls[c].scope
             /\ UNCHANGED <<walk, settled>>
    <3>1. PICK h : Hands(c, h)
      BY <2>4
    <3>2. Passes(c, h)
      BY <2>1, <2>4, <3>1 DEF Passes, Stays
    <3>. QED
      BY <2>2, <3>2
  <2>5. CASE /\ calls[c].nexted
             /\ Turns(c, "returned", calls[c].nexted, calls[c].error)
             /\ walk' = Walk(calls[c].rest, calls[c].error, calls[c].by, calls[c].how)
             /\ UNCHANGED <<scope, settled>>
    <3>1. Done(c)
      BY <2>1, <2>5 DEF Done, Stays
    <3>. QED
      BY <2>2, <3>1
  <2>. QED
    BY <1>2, <2>3, <2>4, <2>5, DirectReturnDoes
<1>3. CASE \E error \in {"error", "undefined"} : Throw(c, error)
  BY <1>3, ThrowBreaks DEF Errors
<1>4. ASSUME NEW error \in {None, "error"}, NEW how \in {"awaited", "dropped"}, ChainNext(c, error, how)
      PROVE  TypeOK' /\ Nexts(c, error, how) /\ error \in Errors /\ how \in Hows
  <2>1. /\ ~calls[c].direct /\ ~calls[c].nexted
        /\ calls[c].phase \in {"running", "silent"}
        /\ how = "awaited" => calls[c].phase = "running"
        /\ scope' = calls[c].before
        /\ UNCHANGED <<app, routers, request, settled>>
    BY <1>4 DEF ChainNext
  <2>2. /\ TypeOK'
        /\ Turns(c, IF how = "awaited" THEN "waiting" ELSE IF calls[c].phase = "silent" THEN "returned" ELSE calls[c].phase,
                 TRUE, calls[c].error)
        /\ walk' = Walk(calls[c].rest, error, c, how)
    BY <1>4, ChainNextDoes
  <2>. QED
    BY <2>1, <2>2 DEF Nexts, Stays, Errors, Hows
<1>5. ASSUME NEW error \in {None, "error"}, DirectNext(c, error)
      PROVE  TypeOK' /\ Asks(c, error) /\ error \in Errors
  <2>1. /\ calls[c].direct /\ calls[c].phase = "running" /\ ~calls[c].nexted
        /\ UNCHANGED <<app, routers, request, scope, walk, settled>>
    BY <1>5 DEF DirectNext
  <2>2. TypeOK' /\ Turns(c, calls[c].phase, TRUE, error)
    BY <1>5, DirectNextDoes
  <2>. QED
    BY <2>1, <2>2 DEF Asks, Stays, Errors
<1>6. CASE Respond(c)
  <2>1. UNCHANGED <<app, routers, request, scope, walk, calls, settled, crashed>>
        /\ response' = [response EXCEPT !.ended = TRUE, !.status = 200]
    BY <1>6 DEF Respond
  <2>. DEFINE x == [response EXCEPT !.ended = TRUE]
  <2>2. x \in Answer /\ response \in Answer
    BY DEF TypeOK, Answer
  <2>3. response' = [x EXCEPT !.status = 200]
    BY <2>1, <2>2 DEF Answer
  <2>. HIDE DEF x
  <2>4. response' \in Answer
    BY <2>2, <2>3 DEF Answer
  <2>. QED
    BY <2>1, <2>4, AnswerRests
<1>7. CASE Stream(c)
  <2>1. UNCHANGED <<app, routers, request, scope, walk, calls, settled, crashed>>
        /\ response' = [response EXCEPT !.head = "sent"]
    BY <1>7 DEF Stream
  <2>2. response' \in Answer
    BY <2>1 DEF TypeOK, Answer
  <2>. QED
    BY <2>1, <2>2, AnswerRests
<1>8. CASE FileBegins(c)
  <2>1. /\ calls[c].phase = "running" /\ ~calls[c].nexted /\ ~calls[c].direct
        /\ UNCHANGED <<app, routers, request, scope, walk, settled>>
    BY <1>8 DEF FileBegins, IsStatic, PhasesRight
  <2>2. TypeOK' /\ Turns(c, "sending", calls[c].nexted, calls[c].error)
    BY <1>8, FileBeginsDoes
  <2>. QED
    BY <2>1, <2>2 DEF Sends, Stays
<1>9. CASE FileEnds(c)
  <2>1. /\ calls[c].phase = "sending" /\ ~calls[c].nexted /\ ~calls[c].direct
        /\ UNCHANGED <<app, routers, request, scope, walk, settled>>
    BY <1>9 DEF FileEnds, PhasesRight
  <2>2. TypeOK' /\ Turns(c, "running", calls[c].nexted, calls[c].error)
    BY <1>9, FileEndsDoes
  <2>. QED
    BY <2>1, <2>2 DEF Sends, Stays
<1>10. CASE FileFails(c)
  BY <1>10, FileFailsBreaks DEF Errors
<1>11. \/ ChainReturn(c) \/ DirectReturn(c) \/ (\E error \in {"error", "undefined"} : Throw(c, error))
       \/ (\E error \in {None, "error"}, how \in {"awaited", "dropped"} : ChainNext(c, error, how))
       \/ (\E error \in {None, "error"} : DirectNext(c, error))
       \/ Respond(c) \/ Stream(c) \/ FileBegins(c) \/ FileEnds(c) \/ FileFails(c)
  BY DEF HandlerEnds, HandlerActs
<1>12. CASE \E error \in {None, "error"}, how \in {"awaited", "dropped"} : ChainNext(c, error, how)
  BY <1>4, <1>12
<1>13. CASE \E error \in {None, "error"} : DirectNext(c, error)
  BY <1>5, <1>13
<1>. QED
  BY <1>1, <1>2, <1>3, <1>6, <1>7, <1>8, <1>9, <1>10, <1>11, <1>12, <1>13

LEMMA StepPlain ==
  ASSUME TypeOK, Quiet, PhasesRight, PromisesRight, Next
  PROVE  \/ PassLayer \/ EnterRouter \/ LeaveRouter \/ CallHandler
         \/ \E req : Arrives(req)
         \/ TypeOK' /\ Plain
<1>5. CASE EndChain
  <2>1. UNCHANGED <<app, routers, request, scope, calls>>
    BY <1>5 DEF EndChain
  <2>2. TypeOK' /\ Ends
    BY <1>5, <2>1, EndChainDoes DEF Ends, Stays
  <2>. QED
    BY <2>2 DEF Plain
<1>6. ASSUME NEW registration \in UNION {Range(sequence) : sequence \in Apps}, Register(registration)
      PROVE  TypeOK' /\ Plain
  <2>1. TypeOK'
    BY <1>6, RegisterDoes
  <2>2. request = NoRequest /\ calls = <<>> /\ UNCHANGED <<request, scope, walk, calls, settled>>
    BY <1>6 DEF Register, Quiet
  <2>. QED
    BY <2>1, <2>2 DEF Plain, Rests
<1>8. ASSUME NEW c \in DOMAIN calls, ~walk.on, HandlerEnds(c) \/ HandlerActs(c)
      PROVE  TypeOK' /\ Plain
  BY <1>8, HandlerKind DEF Plain
<1>9. ASSUME ~walk.on, NEW d \in settled, Deliver(d)
      PROVE  TypeOK' /\ Plain
  BY <1>9, DeliverKind DEF Plain
<1>10. CASE ClientGone
  <2>1. UNCHANGED <<app, routers, request, scope, walk, calls, settled, crashed>>
        /\ response' = [response EXCEPT !.gone = TRUE]
    BY <1>10 DEF ClientGone
  <2>2. response' \in Answer
    BY <2>1 DEF TypeOK, Answer
  <2>. QED
    BY <2>1, <2>2, AnswerRests DEF Plain
<1>11. \/ PassLayer \/ EnterRouter \/ LeaveRouter \/ CallHandler \/ EndChain
       \/ (\E registration \in UNION {Range(sequence) : sequence \in Apps} : Register(registration))
       \/ (\E req \in Requests : Receive(req) \/ Upgrade(req))
       \/ (\E c \in DOMAIN calls : ~walk.on /\ (HandlerEnds(c) \/ HandlerActs(c)))
       \/ (\E d \in settled : ~walk.on /\ Deliver(d))
       \/ ClientGone
  BY DEF Next, WalkOn
<1>12. CASE \E req \in Requests : Receive(req) \/ Upgrade(req)
  BY <1>12, ReceiveArrives
<1>13. CASE \E registration \in UNION {Range(sequence) : sequence \in Apps} : Register(registration)
  BY <1>6, <1>13
<1>14. CASE \E c \in DOMAIN calls : ~walk.on /\ (HandlerEnds(c) \/ HandlerActs(c))
  BY <1>8, <1>14
<1>15. CASE \E d \in settled : ~walk.on /\ Deliver(d)
  BY <1>9, <1>15
<1>. QED
  BY <1>5, <1>10, <1>11, <1>12, <1>13, <1>14, <1>15

LEMMA StepKind ==
  ASSUME TypeOK, Quiet, PhasesRight, PromisesRight, Next
  PROVE  TypeOK' /\ Kind
<1>1. CASE PassLayer
  <2>1. TypeOK' /\ walk' = Walk(Behind, walk.error, walk.by, walk.how)
    BY <1>1, PassLayerDoes
  <2>2. walk.on /\ UNCHANGED <<app, routers, request, scope, calls, settled>>
    BY <1>1 DEF PassLayer, AtLayer
  <2>3. Moves
    BY <2>1, <2>2 DEF Moves, Stays
  <2>. QED
    BY <2>1, <2>3 DEF Kind
<1>2. CASE LeaveRouter
  <2>1. TypeOK' /\ walk' = Walk(Others, walk.error, walk.by, walk.how)
    BY <1>2, LeaveRouterDoes
  <2>2. walk.on /\ UNCHANGED <<app, routers, request, scope, calls, settled>>
    BY <1>2 DEF LeaveRouter
  <2>3. Moves
    BY <2>1, <2>2 DEF Moves, Stays
  <2>. QED
    BY <2>1, <2>3 DEF Kind
<1>3. CASE EnterRouter
  <2>1. walk.on /\ UNCHANGED <<app, routers, request, settled>>
    BY <1>3 DEF EnterRouter, AtLayer
  <2>2. TypeOK'
    BY <1>3, EnterRouterDoes
  <2>3. CASE /\ walk' = Walk(<<Entered>> \o Behind, IF walk.error = "undefined" THEN None ELSE walk.error, walk.by, walk.how)
             /\ scope' = scope
             /\ calls' = calls
    <3>1. Moves
      BY <2>1, <2>3 DEF Moves, Stays
    <3>. QED
      BY <2>2, <3>1 DEF Kind
  <2>4. CASE \E h : Begins(h) /\ FoundBy(h, Entered, request.method) /\ h.rest = Behind
                         /\ h.by = walk.by /\ h.how = walk.how
    <3>1. PICK h : Begins(h) /\ h.by = walk.by /\ h.how = walk.how
      BY <2>4
    <3>2. Calls(h)
      BY <2>1, <3>1 DEF Calls, Stays
    <3>. QED
      BY <2>2, <3>2 DEF Kind
  <2>. QED
    BY <1>3, <2>3, <2>4, EnterRouterDoes
<1>4. CASE CallHandler
  <2>1. TypeOK' /\ \E h : Begins(h) /\ Handles(h)
    BY <1>4, CallHandlerDoes
  <2>2. PICK h : Begins(h) /\ h.by = walk.by /\ h.how = walk.how
    BY <2>1 DEF Handles
  <2>3. walk.on /\ UNCHANGED <<app, routers, request, settled>>
    BY <1>4 DEF CallHandler, AtLayer
  <2>4. Calls(h)
    BY <2>2, <2>3 DEF Calls, Stays
  <2>. QED
    BY <2>1, <2>4 DEF Kind
<1>7. ASSUME NEW req, Arrives(req)
      PROVE  TypeOK' /\ Kind
  <2>1. TypeOK'
    BY <1>7, ArrivesDoes
  <2>2. request = NoRequest /\ request' # NoRequest /\ settled' = settled /\ UNCHANGED <<app, routers>>
    BY <1>7 DEF Arrives
  <2>3. \/ scope' = scope /\ calls' = calls /\ \E F : walk' = Walk(F, None, 0, "root")
        \/ \E h : Begins(h) /\ h.how = "root"
    BY <1>7, ArrivesDoes
  <2>4. Starts
    BY <2>2, <2>3 DEF Starts
  <2>. QED
    BY <2>1, <2>4 DEF Kind
<1>. QED
  BY <1>1, <1>2, <1>3, <1>4, <1>7, StepPlain DEF Kind

(***************************************************************************)
(* Phases and promises                                                     *)
(***************************************************************************)
LEMMA WalkFields ==
  ASSUME NEW F, NEW e, NEW by, NEW how, walk' = Walk(F, e, by, how)
  PROVE  walk'.on /\ walk'.frames = F /\ walk'.error = e /\ walk'.by = by /\ walk'.how = how
BY DEF Walk

LEMMA IdleFields ==
  /\ ~Idle.on /\ Idle.frames = <<>> /\ Idle.error = None
BY DEF Idle

LEMMA QuietKept ==
  ASSUME TypeOK, Quiet, Kind
  PROVE  Quiet'
<1>1. CASE Rests
  BY <1>1 DEF Rests, Quiet, Stays
<1>2. CASE Moves
  BY <1>2, IdleFields, WalkFields DEF Moves, Quiet, Stays
<1>3. CASE Ends
  BY <1>3, IdleFields DEF Ends, Quiet, Stays
<1>4. CASE Starts
  <2>1. CASE \E F : walk' = Walk(F, None, 0, "root")
    BY <1>4, <2>1, WalkFields DEF Starts, Quiet
  <2>2. CASE \E h : Begins(h)
    BY <1>4, <2>2 DEF Starts, Quiet, Begins
  <2>. QED
    BY <1>4, <2>1, <2>2 DEF Starts
<1>5. CASE Drops
  <2>1. settled # {} /\ request' = request /\ walk' = walk
    BY <1>5 DEF Drops, Stays
  <2>. QED
    BY <2>1 DEF Quiet
<1>6. CASE \E h : Calls(h)
  BY <1>6, IdleFields DEF Calls, Quiet, Stays, Begins
<1>7. ASSUME NEW c \in DOMAIN calls,
             \/ Returns(c) \/ Done(c) \/ Sends(c) \/ Wakes(c)
             \/ \E h : Passes(c, h)
             \/ \E e \in Errors : Breaks(c, e) \/ Asks(c, e) \/ \E how \in Hows : Nexts(c, e, how)
      PROVE  Quiet'
  <2>1. calls # <<>>
    BY EmptySeq
  <2>2. request # NoRequest
    BY <2>1 DEF Quiet
  <2>3. request' = request
    BY <1>7 DEF Returns, Done, Sends, Wakes, Passes, Breaks, Asks, Nexts, Stays
  <2>4. walk' = walk \/ walk'.on
    <3>1. CASE Done(c)
      BY <3>1, WalkFields DEF Done
    <3>2. CASE \E e \in Errors : Breaks(c, e) \/ \E how \in Hows : Nexts(c, e, how)
      BY <3>2, WalkFields DEF Breaks, Nexts
    <3>3. CASE Returns(c) \/ Sends(c) \/ Wakes(c) \/ (\E h : Passes(c, h)) \/ \E e \in Errors : Asks(c, e)
      BY <3>3 DEF Returns, Sends, Wakes, Passes, Asks
    <3>. QED
      BY <1>7, <3>1, <3>2, <3>3
  <2>. QED
    BY <2>2, <2>3, <2>4 DEF Quiet
<1>. QED
  BY <1>1, <1>2, <1>3, <1>4, <1>5, <1>6, <1>7 DEF Kind, Plain

\* What PhasesRight says of one call.
PhaseRight(h) ==
  /\ h.direct => h.layer = "route"
  /\ h.phase = "waiting" => h.nexted /\ ~h.direct
  /\ h.phase = "sending" => ~h.nexted /\ ~h.direct
  /\ h.error = "undefined" => h.phase = "failed"

LEMMA PhasesAltered ==
  ASSUME PhasesRight, NEW c, Alters(c), PhaseRight(calls'[c])
  PROVE  PhasesRight'
BY DEF PhasesRight, Alters, PhaseRight

LEMMA PhasesGrown ==
  ASSUME PhasesRight, NEW h, Begins(h)
  PROVE  PhasesRight'
<1>1. PhaseRight(h)
  BY DEF Begins, PhaseRight, None
<1>2. \A d \in DOMAIN calls' : d \in DOMAIN calls \/ d = Len(calls) + 1
  BY DEF Begins, Grows
<1>. QED
  BY <1>1, <1>2 DEF Begins, Grows, PhaseRight, PhasesRight

LEMMA PhasesKept ==
  ASSUME TypeOK, PhasesRight, Kind
  PROVE  PhasesRight'
<1>1. CASE Rests \/ Moves \/ Ends \/ Drops
  BY <1>1 DEF Rests, Moves, Ends, Drops, PhasesRight
<1>2. CASE Starts
  BY <1>2, PhasesGrown DEF Starts, PhasesRight
<1>3. CASE \E h : Calls(h)
  BY <1>3, PhasesGrown DEF Calls
<1>4. ASSUME NEW c \in DOMAIN calls, NEW h, Passes(c, h)
      PROVE  PhasesRight'
  <2>1. Hands(c, h) /\ calls[c].phase = "running"
    BY <1>4 DEF Passes
  <2>2. PhaseRight(h) /\ PhaseRight(calls'[c])
    BY <2>1 DEF Hands, Same, PhaseRight, None, PhasesRight
  <2>3. \A d \in DOMAIN calls' : d \in DOMAIN calls \/ d = Len(calls) + 1
    <3>1. Len(calls) \in Nat /\ DOMAIN calls = 1..Len(calls)
      BY CallTyped
    <3>. QED
      BY <2>1, <3>1 DEF Hands
  <2>. QED
    BY <2>1, <2>2, <2>3 DEF Hands, PhaseRight, PhasesRight
<1>5. ASSUME NEW c \in DOMAIN calls,
             \/ Returns(c) \/ Done(c) \/ Sends(c) \/ Wakes(c)
             \/ \E e \in Errors : Breaks(c, e) \/ Asks(c, e) \/ \E how \in Hows : Nexts(c, e, how)
      PROVE  PhasesRight'
  <2>1. PhaseRight(calls[c])
    BY DEF PhasesRight, PhaseRight
  <2>2. CASE Returns(c)
    <3>1. Turns(c, IF ~calls[c].nexted THEN "silent" ELSE "returned", calls[c].nexted, calls[c].error) /\ calls[c].phase = "running"
      BY <2>2 DEF Returns
    <3>2. Alters(c) /\ PhaseRight(calls'[c])
      BY <2>1, <3>1 DEF Turns, Alters, Same, PhaseRight
    <3>. QED
      BY <3>2, PhasesAltered
  <2>3. CASE Done(c)
    <3>1. Turns(c, "returned", calls[c].nexted, calls[c].error) /\ calls[c].phase = "running"
      BY <2>3 DEF Done
    <3>2. Alters(c) /\ PhaseRight(calls'[c])
      BY <2>1, <3>1 DEF Turns, Alters, Same, PhaseRight
    <3>. QED
      BY <3>2, PhasesAltered
  <2>4. CASE Sends(c)
    <3>1. /\ ~calls[c].nexted /\ ~calls[c].direct
          /\ \/ calls[c].phase = "running" /\ Turns(c, "sending", calls[c].nexted, calls[c].error)
             \/ calls[c].phase = "sending" /\ Turns(c, "running", calls[c].nexted, calls[c].error)
      BY <2>4 DEF Sends
    <3>2. Alters(c) /\ PhaseRight(calls'[c])
      BY <2>1, <3>1 DEF Turns, Alters, Same, PhaseRight
    <3>. QED
      BY <3>2, PhasesAltered
  <2>5. CASE Wakes(c)
    <3>1. calls[c].phase = "waiting" /\ Turns(c, "running", calls[c].nexted, calls[c].error)
      BY <2>5 DEF Wakes
    <3>2. Alters(c) /\ PhaseRight(calls'[c])
      BY <2>1, <3>1 DEF Turns, Alters, Same, PhaseRight
    <3>. QED
      BY <3>2, PhasesAltered
  <2>6. ASSUME NEW e \in Errors, Breaks(c, e) PROVE PhasesRight'
    <3>1. Turns(c, "failed", calls[c].nexted, e)
      BY <2>6 DEF Breaks
    <3>2. Alters(c) /\ PhaseRight(calls'[c])
      BY <2>1, <3>1 DEF Turns, Alters, Same, PhaseRight
    <3>. QED
      BY <3>2, PhasesAltered
  <2>7. ASSUME NEW e \in Errors, Asks(c, e) PROVE PhasesRight'
    <3>1. Turns(c, "running", TRUE, e) /\ e \in {None, "error"}
      BY <2>7 DEF Asks
    <3>2. Alters(c) /\ PhaseRight(calls'[c])
      BY <2>1, <3>1 DEF Turns, Alters, Same, PhaseRight, None
    <3>. QED
      BY <3>2, PhasesAltered
  <2>8. ASSUME NEW e \in Errors, NEW how \in Hows, Nexts(c, e, how) PROVE PhasesRight'
    <3>1. /\ Turns(c, IF how = "awaited" THEN "waiting" ELSE IF calls[c].phase = "silent" THEN "returned" ELSE calls[c].phase,
                   TRUE, calls[c].error)
          /\ ~calls[c].direct
          /\ calls[c].phase \in {"running", "silent"}
      BY <2>8 DEF Nexts
    <3>2. Alters(c) /\ PhaseRight(calls'[c])
      BY <2>1, <3>1 DEF Turns, Alters, Same, PhaseRight
    <3>. QED
      BY <3>2, PhasesAltered
  <2>. QED
    BY <1>5, <2>2, <2>3, <2>4, <2>5, <2>6, <2>7, <2>8
<1>. QED
  BY <1>1, <1>2, <1>3, <1>4, <1>5 DEF Kind, Plain

(***************************************************************************)
(* What the promises are of one state, by the facts a step changes: who    *)
(* waits (W), which calls hold a promise (H), of whom (O), the promises    *)
(* that settled (S) and the owner of the walk's (B, at most one).          *)
(***************************************************************************)
Promises(W, H, O, S, B) ==
  /\ \A c \in H : O[c] \in W
  /\ \A t \in S : t.how = "awaited" => t.by \in W
  /\ B \subseteq W
  /\ \A c, d \in H : c # d => O[c] # O[d]
  /\ \A c \in H, t \in S : t.how = "awaited" => O[c] # t.by
  /\ \A s, t \in S : s # t /\ s.how = "awaited" /\ t.how = "awaited" => s.by # t.by
  /\ \A c \in H : O[c] \notin B
  /\ \A t \in S : t.how = "awaited" => t.by \notin B

Waiting == {b \in DOMAIN calls : calls[b].phase = "waiting"}
Holding == {c \in DOMAIN calls : Holds(c)}
Owner == [c \in DOMAIN calls |-> calls[c].by]
Walking == IF WalkHolds THEN {walk.by} ELSE {}

LEMMA PromisesAre ==
  PromisesRight <=> Promises(Waiting, Holding, Owner, settled, Walking)
BY DEF PromisesRight, Promises, Waiting, Holding, Owner, Waits, Walking

LEMMA PromisesAreNext ==
  PromisesRight' <=> Promises(Waiting', Holding', Owner', settled', Walking')
BY DEF PromisesRight, Promises, Waiting, Holding, Owner, Waits, Walking

\* Promises that are forgotten.
LEMMA PromisesFewer ==
  ASSUME NEW W, NEW H, NEW O, NEW S, NEW B, Promises(W, H, O, S, B),
         NEW H2, H2 \subseteq H, NEW O2, \A c \in H2 : O2[c] = O[c], NEW S2, S2 \subseteq S,
         NEW B2, B2 \subseteq B
  PROVE  Promises(W, H2, O2, S2, B2)
BY DEF Promises

\* A holder gives its promise to the walk, the walk its own to a call or to those that settled.
LEMMA PromisesToWalk ==
  ASSUME NEW W, NEW H, NEW O, NEW S, NEW B, Promises(W, H, O, S, B),
         NEW c \in H, NEW H2, H2 = H \ {c}, NEW B2, B2 = {O[c]}
  PROVE  Promises(W, H2, O, S, B2)
BY DEF Promises

LEMMA PromisesToCall ==
  ASSUME NEW W, NEW H, NEW O, NEW S, NEW B, Promises(W, H, O, S, B),
         NEW n, n \notin H, NEW H2, H2 = H \cup {n}, NEW O2, \A c \in H : O2[c] = O[c], O2[n] \in B
  PROVE  Promises(W, H2, O2, S, {})
BY DEF Promises

LEMMA PromisesToToken ==
  ASSUME NEW W, NEW H, NEW O, NEW S, NEW B, Promises(W, H, O, S, B),
         NEW t, t.by \in B, NEW S2, S2 = S \cup {t}
  PROVE  Promises(W, H, O, S2, {})
BY DEF Promises

\* A promise nobody awaits.
LEMMA PromisesFree ==
  ASSUME NEW W, NEW H, NEW O, NEW S, NEW B, Promises(W, H, O, S, B),
         NEW t, t.how # "awaited", NEW S2, S2 = S \cup {t}
  PROVE  Promises(W, H, O, S2, B)
BY DEF Promises

\* A promise is told to its owner, who waits no more.
LEMMA PromisesTold ==
  ASSUME NEW W, NEW H, NEW O, NEW S, Promises(W, H, O, S, {}),
         NEW t \in S, t.how = "awaited", NEW S2, S2 = S \ {t}, NEW W2, W2 = W \ {t.by}
  PROVE  Promises(W2, H, O, S2, {})
BY DEF Promises

\* One that does not wait yet gives its promise to the walk.
LEMMA PromisesMade ==
  ASSUME NEW W, NEW H, NEW O, NEW S, Promises(W, H, O, S, {}),
         NEW c, c \notin W, NEW W2, W2 = W \cup {c}, NEW B2, B2 = {c}
  PROVE  Promises(W2, H, O, S, B2)
BY DEF Promises

\* Who waits and who holds a promise after a call has turned, and after another was made.
Pends(p) == p \in {"running", "waiting", "sending"}

LEMMA HoldersTurned ==
  ASSUME NEW c, NEW p, NEW n, NEW e, Turns(c, p, n, e)
  PROVE  /\ Owner' = Owner
         /\ Waiting' = IF p = "waiting" THEN Waiting \cup {c} ELSE Waiting \ {c}
         /\ Holding' = IF calls[c].how = "awaited" /\ Pends(p) THEN Holding \cup {c} ELSE Holding \ {c}
<1>1. /\ c \in DOMAIN calls /\ DOMAIN calls' = DOMAIN calls
      /\ calls'[c].by = calls[c].by /\ calls'[c].how = calls[c].how /\ calls'[c].phase = p
      /\ \A d \in DOMAIN calls : d # c => calls'[d] = calls[d]
  BY DEF Turns, Alters, Same
<1>2. Owner' = Owner
  <2>1. \A d \in DOMAIN calls : calls'[d].by = calls[d].by
    BY <1>1
  <2>. QED
    BY <1>1, <2>1 DEF Owner
<1>3. Waiting' = IF p = "waiting" THEN Waiting \cup {c} ELSE Waiting \ {c}
  BY <1>1 DEF Waiting
<1>4. Holding' = IF calls[c].how = "awaited" /\ Pends(p) THEN Holding \cup {c} ELSE Holding \ {c}
  BY <1>1 DEF Holding, Holds, Pends
<1>. QED
  BY <1>2, <1>3, <1>4

LEMMA HoldersGrown ==
  ASSUME NEW h, Begins(h), NEW m, m = Len(calls) + 1
  PROVE  /\ Waiting' = Waiting
         /\ m \notin Holding
         /\ \A c \in Holding : Owner'[c] = Owner[c]
         /\ Owner'[m] = h.by
         /\ Holding' \subseteq Holding \cup {m}
         /\ h.how # "awaited" => Holding' \subseteq Holding
<1>1. /\ Len(calls) \in Nat /\ DOMAIN calls = 1..Len(calls) /\ DOMAIN calls' = 1..m /\ calls'[m] = h
      /\ \A d \in DOMAIN calls : calls'[d] = calls[d]
      /\ h.phase # "waiting"
  BY DEF Begins, Grows
<1>2. m \notin DOMAIN calls /\ \A d \in DOMAIN calls' : d \in DOMAIN calls \/ d = m
  BY <1>1
<1>3. m \in DOMAIN calls' /\ DOMAIN calls \subseteq DOMAIN calls'
  BY <1>1
<1>4. Waiting' = Waiting
  BY <1>1, <1>2, <1>3 DEF Waiting
<1>5. m \notin Holding /\ Holding' \subseteq Holding \cup {m} /\ (h.how # "awaited" => Holding' \subseteq Holding)
  BY <1>1, <1>2, <1>3 DEF Holding, Holds
<1>6. (\A c \in Holding : Owner'[c] = Owner[c]) /\ Owner'[m] = h.by
  BY <1>1, <1>2, <1>3 DEF Holding, Owner
<1>. QED
  BY <1>4, <1>5, <1>6

LEMMA HoldersHanded ==
  ASSUME TypeOK, NEW c, NEW h, Hands(c, h), calls[c].phase = "running", NEW m, m = Len(calls) + 1
  PROVE  /\ Waiting' = Waiting
         /\ m \notin Holding
         /\ \A d \in Holding : Owner'[d] = Owner[d]
         /\ Owner'[m] = calls[c].by
         /\ Holding' \subseteq (Holding \ {c}) \cup {m}
         /\ m \in Holding' => calls[c].how = "awaited"
<1>1. /\ c \in DOMAIN calls /\ DOMAIN calls' = 1..m /\ calls'[m] = h
      /\ \A d \in DOMAIN calls : d # c => calls'[d] = calls[d]
      /\ calls'[c].by = calls[c].by /\ calls'[c].phase = "returned"
      /\ h.by = calls[c].by /\ h.how = calls[c].how /\ h.phase = "running"
  BY DEF Hands, Same
<1>2. Len(calls) \in Nat /\ DOMAIN calls = 1..Len(calls)
  BY <1>1, CallTyped
<1>3. m \notin DOMAIN calls /\ m \in DOMAIN calls' /\ DOMAIN calls \subseteq DOMAIN calls'
      /\ \A d \in DOMAIN calls' : d \in DOMAIN calls \/ d = m
  BY <1>1, <1>2
<1>4. Waiting' = Waiting
  BY <1>1, <1>3 DEF Waiting
<1>5. m \notin Holding /\ Holding' \subseteq (Holding \ {c}) \cup {m} /\ (m \in Holding' => calls[c].how = "awaited")
  BY <1>1, <1>3 DEF Holding, Holds
<1>6. (\A d \in Holding : Owner'[d] = Owner[d]) /\ Owner'[m] = calls[c].by
  BY <1>1, <1>3 DEF Holding, Owner
<1>. QED
  BY <1>4, <1>5, <1>6

LEMMA PromisesKept ==
  ASSUME TypeOK, Quiet, PhasesRight, PromisesRight, Kind
  PROVE  PromisesRight'
<1>. DEFINE W == Waiting
            H == Holding
            O == Owner
            S == settled
            B == Walking
            W2 == Waiting'
            H2 == Holding'
            O2 == Owner'
            S2 == settled'
            B2 == Walking'
<1>1. Promises(W, H, O, S, B)
  BY PromisesAre
<1>. SUFFICES Promises(W2, H2, O2, S2, B2)
  BY PromisesAreNext
<1>2. calls' = calls => W2 = W /\ H2 = H /\ O2 = O
  BY DEF Waiting, Holding, Owner, Holds
<1>3. settled' = settled => S2 = S
  OBVIOUS
<1>4. walk' = walk => B2 = B
  BY DEF Walking, WalkHolds
<1>5. walk' = Idle => B2 = {}
  BY IdleFields DEF Walking, WalkHolds
<1>6. ASSUME NEW F, NEW e, NEW b, NEW how, walk' = Walk(F, e, b, how)
      PROVE  B2 = IF how = "awaited" THEN {b} ELSE {}
  BY <1>6 DEF Walking, WalkHolds, Walk
<1>7. ~walk.on => B = {}
  BY DEF Walking, WalkHolds
<1>8. walk.on /\ walk.how = "awaited" => B = {walk.by}
  BY DEF Walking, WalkHolds
<1>9. ASSUME NEW c \in DOMAIN calls
      PROVE  O[c] = calls[c].by /\ (c \in H <=> calls[c].how = "awaited" /\ Pends(calls[c].phase))
             /\ (c \in W <=> calls[c].phase = "waiting")
  BY DEF Owner, Holding, Holds, Pends, Waiting
<1>10. ASSUME NEW c \in DOMAIN calls, NEW p, NEW n, NEW e, Turns(c, p, n, e)
       PROVE  /\ O2 = O
              /\ W2 = IF p = "waiting" THEN W \cup {c} ELSE W \ {c}
              /\ H2 = IF calls[c].how = "awaited" /\ Pends(p) THEN H \cup {c} ELSE H \ {c}
  BY <1>10, HoldersTurned
<1>11. ASSUME NEW h, Begins(h), NEW m, m = Len(calls) + 1
       PROVE  /\ W2 = W /\ m \notin H /\ (\A c \in H : O2[c] = O[c]) /\ O2[m] = h.by
              /\ H2 \subseteq H \cup {m} /\ (h.how # "awaited" => H2 \subseteq H)
  BY <1>11, HoldersGrown
<1>12. ASSUME NEW c, NEW h, Hands(c, h), calls[c].phase = "running", NEW m, m = Len(calls) + 1
       PROVE  /\ W2 = W /\ m \notin H /\ (\A d \in H : O2[d] = O[d]) /\ O2[m] = calls[c].by
              /\ H2 \subseteq (H \ {c}) \cup {m} /\ (m \in H2 => calls[c].how = "awaited")
  BY <1>12, HoldersHanded
<1>13. ASSUME NEW t \in settled, settled' = settled \ {t} PROVE S2 = S \ {t} /\ t \in S
  BY <1>13
<1>14. ASSUME NEW t, settled' = settled \cup {t} PROVE S2 = S \cup {t}
  BY <1>14
<1>. HIDE DEF W, H, O, S, B, W2, H2, O2, S2, B2
<1>15. CASE Rests
  BY <1>1, <1>2, <1>3, <1>4, <1>15 DEF Rests
<1>16. CASE Moves
  <2>1. PICK F, e : walk' = Walk(F, e, walk.by, walk.how)
    BY <1>16 DEF Moves
  <2>2. B2 \subseteq B
    BY <1>6, <1>8, <1>16, <2>1 DEF Moves
  <2>3. W2 = W /\ H2 = H /\ O2 = O /\ S2 = S
    BY <1>2, <1>3, <1>16 DEF Moves
  <2>. QED
    BY <1>1, <2>2, <2>3, PromisesFewer
<1>17. CASE Ends
  <2>1. W2 = W /\ H2 = H /\ O2 = O /\ B2 = {} /\ walk.on
    BY <1>2, <1>5, <1>17 DEF Ends
  <2>2. CASE settled' = settled
    BY <1>1, <1>3, <2>1, <2>2, PromisesFewer
  <2>3. ASSUME NEW rejects \in BOOLEAN,
               settled' = settled \cup {[by |-> walk.by, how |-> walk.how, rejects |-> rejects]}
        PROVE  Promises(W2, H2, O2, S2, B2)
    <3>. DEFINE t == [by |-> walk.by, how |-> walk.how, rejects |-> rejects]
    <3>1. t.by = walk.by /\ t.how = walk.how /\ S2 = S \cup {t}
      BY <1>14, <2>3
    <3>. HIDE DEF t
    <3>2. CASE walk.how = "awaited"
      <4>1. t.by \in B
        BY <1>8, <2>1, <3>1, <3>2
      <4>. QED
        BY <1>1, <2>1, <3>1, <4>1, PromisesToToken
    <3>3. CASE walk.how # "awaited"
      <4>1. Promises(W, H, O, S2, B)
        BY <1>1, <3>1, <3>3, PromisesFree
      <4>. QED
        BY <2>1, <4>1, PromisesFewer
    <3>. QED
      BY <3>2, <3>3
  <2>. QED
    BY <1>17, <2>2, <2>3 DEF Ends
<1>18. CASE Drops
  <2>1. W2 = W /\ H2 = H /\ O2 = O /\ B2 = B
    BY <1>2, <1>4, <1>18 DEF Drops
  <2>2. PICK t \in settled : settled' = settled \ {t}
    BY <1>18 DEF Drops
  <2>3. S2 \subseteq S
    BY <1>13, <2>2
  <2>. QED
    BY <1>1, <2>1, <2>3, PromisesFewer
\* A call begins that takes the walk's promise, or none.
<1>19. ASSUME NEW h, Begins(h), settled' = settled, h.how = "awaited" => h.by \in B
       PROVE  Promises(W2, H2, O2, S2, B2)
  <2>. DEFINE m == Len(calls) + 1
              H3 == H \cup {m}
  <2>1. /\ W2 = W /\ m \notin H /\ (\A c \in H : O2[c] = O[c]) /\ O2[m] = h.by
        /\ H2 \subseteq H \cup {m} /\ (h.how # "awaited" => H2 \subseteq H)
    BY <1>11, <1>19
  <2>2. B2 = {} /\ S2 = S
    BY <1>3, <1>5, <1>19 DEF Begins
  <2>3. H3 = H \cup {m}
    OBVIOUS
  <2>. HIDE DEF m, H3
  <2>4. CASE h.how = "awaited"
    <3>1. O2[m] \in B
      BY <1>19, <2>1, <2>4
    <3>2. Promises(W, H3, O2, S, {})
      BY <1>1, <2>1, <2>3, <3>1, PromisesToCall
    <3>. QED
      BY <2>1, <2>2, <2>3, <3>2, PromisesFewer
  <2>5. CASE h.how # "awaited"
    <3>1. H2 \subseteq H /\ (\A c \in H2 : O2[c] = O[c]) /\ B2 \subseteq B
      BY <2>1, <2>2, <2>5
    <3>. QED
      BY <1>1, <2>1, <2>2, <3>1, PromisesFewer
  <2>. QED
    BY <2>4, <2>5
<1>20. CASE Starts
  <2>1. calls = <<>> /\ settled = {} /\ ~walk.on /\ settled' = settled
    BY <1>20, IdleFields DEF Starts, Quiet
  <2>2. ASSUME calls' = calls, NEW F, walk' = Walk(F, None, 0, "root")
        PROVE  Promises(W2, H2, O2, S2, B2)
    <3>1. B2 = {}
      BY <1>6, <2>2
    <3>2. W2 = W /\ H2 = H /\ O2 = O /\ S2 = S
      BY <1>2, <1>3, <2>1, <2>2
    <3>. QED
      BY <1>1, <3>1, <3>2, PromisesFewer
  <2>3. ASSUME NEW h, Begins(h), h.how = "root" PROVE Promises(W2, H2, O2, S2, B2)
    BY <1>19, <2>1, <2>3
  <2>. QED
    BY <1>20, <2>2, <2>3 DEF Starts
<1>21. ASSUME NEW h, Calls(h) PROVE Promises(W2, H2, O2, S2, B2)
  <2>1. Begins(h) /\ settled' = settled /\ (h.how = "awaited" => h.by \in B)
    BY <1>8, <1>21 DEF Calls
  <2>. QED
    BY <1>19, <2>1
<1>22. ASSUME NEW c \in DOMAIN calls, Returns(c) PROVE Promises(W2, H2, O2, S2, B2)
  <2>. DEFINE t == Promise(c)
              p == IF ~calls[c].nexted THEN "silent" ELSE "returned"
              B3 == {O[c]}
  <2>1. Turns(c, p, calls[c].nexted, calls[c].error) /\ ~Pends(p) /\ p # "waiting" /\ calls[c].phase = "running"
    BY <1>22 DEF Returns, Pends
  <2>2. W2 = W /\ H2 = H \ {c} /\ O2 = O
    BY <1>9, <1>10, <2>1
  <2>3. B = {} /\ B2 = {}
    BY <1>4, <1>7, <1>22 DEF Returns
  <2>4. S2 = S \cup {t} /\ t.by = O[c] /\ t.how = calls[c].how
    BY <1>9, <1>14, <1>22 DEF Returns, Promise
  <2>5. B3 = {O[c]}
    OBVIOUS
  <2>. HIDE DEF t, p, B3
  <2>6. CASE c \in H
    <3>1. Promises(W, H2, O, S, B3)
      BY <1>1, <2>2, <2>5, <2>6, PromisesToWalk
    <3>2. t.by \in B3
      BY <2>4, <2>5
    <3>. QED
      BY <2>2, <2>3, <2>4, <3>1, <3>2, PromisesToToken
  <2>7. CASE c \notin H
    <3>1. t.how # "awaited"
      BY <1>9, <2>1, <2>4, <2>7 DEF Pends
    <3>2. Promises(W, H, O, S2, B)
      BY <1>1, <2>4, <3>1, PromisesFree
    <3>. QED
      BY <2>2, <2>3, <3>2, PromisesFewer
  <2>. QED
    BY <2>6, <2>7
\* A call c gives its promise, if it is awaited, to the walk.
<1>23. ASSUME NEW c \in DOMAIN calls, NEW p, NEW n, NEW e, NEW x, Turns(c, p, n, e), ~Pends(p), p # "waiting",
              Pends(calls[c].phase), calls[c].phase # "waiting", ~walk.on,
              walk' = Walk(calls[c].rest, x, calls[c].by, calls[c].how), settled' = settled
       PROVE  Promises(W2, H2, O2, S2, B2)
  <2>1. W2 = W /\ H2 = H \ {c} /\ O2 = O /\ S2 = S
    BY <1>3, <1>9, <1>10, <1>23
  <2>2. B2 = IF calls[c].how = "awaited" THEN {calls[c].by} ELSE {}
    BY <1>6, <1>23
  <2>3. CASE c \in H
    <3>1. B2 = {O[c]}
      BY <1>9, <2>2, <2>3
    <3>. QED
      BY <1>1, <2>1, <2>3, <3>1, PromisesToWalk
  <2>4. CASE c \notin H
    <3>1. B2 = {}
      BY <1>9, <1>23, <2>2, <2>4
    <3>. QED
      BY <1>1, <2>1, <3>1, PromisesFewer
  <2>. QED
    BY <2>3, <2>4
<1>24. ASSUME NEW c \in DOMAIN calls, Done(c) PROVE Promises(W2, H2, O2, S2, B2)
  <2>1. /\ Turns(c, "returned", calls[c].nexted, calls[c].error) /\ calls[c].phase = "running" /\ ~walk.on
        /\ walk' = Walk(calls[c].rest, calls[c].error, calls[c].by, calls[c].how) /\ settled' = settled
    BY <1>24 DEF Done
  <2>. QED
    BY <1>23, <2>1 DEF Pends
\* A call turns that holds its promise as before and waits no more and no less.
<1>25. ASSUME NEW c \in DOMAIN calls, NEW p, NEW n, NEW e, Turns(c, p, n, e),
              Pends(p) <=> Pends(calls[c].phase), p = "waiting" <=> calls[c].phase = "waiting",
              UNCHANGED <<walk, settled>>
       PROVE  Promises(W2, H2, O2, S2, B2)
  <2>1. W2 = W /\ H2 = H /\ O2 = O
    BY <1>9, <1>10, <1>25
  <2>2. S2 = S /\ B2 = B
    BY <1>3, <1>4, <1>25
  <2>. QED
    BY <1>1, <2>1, <2>2
<1>26. ASSUME NEW c \in DOMAIN calls, Sends(c) PROVE Promises(W2, H2, O2, S2, B2)
  <2>1. UNCHANGED <<walk, settled>>
    BY <1>26 DEF Sends
  <2>2. CASE calls[c].phase = "running" /\ Turns(c, "sending", calls[c].nexted, calls[c].error)
    BY <1>25, <2>1, <2>2 DEF Pends
  <2>3. CASE calls[c].phase = "sending" /\ Turns(c, "running", calls[c].nexted, calls[c].error)
    BY <1>25, <2>1, <2>3 DEF Pends
  <2>. QED
    BY <1>26, <2>2, <2>3 DEF Sends
<1>27. ASSUME NEW c \in DOMAIN calls, NEW e \in Errors, Asks(c, e) PROVE Promises(W2, H2, O2, S2, B2)
  <2>1. UNCHANGED <<walk, settled>> /\ Turns(c, "running", TRUE, e) /\ calls[c].phase = "running"
    BY <1>27 DEF Asks
  <2>. QED
    BY <1>25, <2>1 DEF Pends
<1>28. ASSUME NEW c \in DOMAIN calls, Wakes(c) PROVE Promises(W2, H2, O2, S2, B2)
  <2>1. PICK t \in settled : t.how = "awaited" /\ t.by = c /\ settled' = settled \ {t}
    BY <1>28 DEF Wakes
  <2>2. calls[c].phase = "waiting" /\ Turns(c, "running", calls[c].nexted, calls[c].error) /\ ~walk.on /\ walk' = walk
    BY <1>28 DEF Wakes
  <2>3. W2 = W \ {c} /\ O2 = O /\ H2 = IF calls[c].how = "awaited" THEN H \cup {c} ELSE H \ {c}
    BY <1>10, <2>2 DEF Pends
  <2>4. c \in H <=> calls[c].how = "awaited"
    BY <1>9, <2>2 DEF Pends
  <2>5. W2 = W \ {t.by} /\ H2 = H /\ O2 = O
    BY <2>1, <2>3, <2>4
  <2>6. B = {} /\ B2 = {} /\ S2 = S \ {t} /\ t \in S
    BY <1>4, <1>7, <1>13, <2>1, <2>2
  <2>. QED
    BY <1>1, <2>1, <2>5, <2>6, PromisesTold
<1>29. ASSUME NEW c \in DOMAIN calls, NEW e \in Errors, NEW how \in Hows, Nexts(c, e, how)
       PROVE  Promises(W2, H2, O2, S2, B2)
  <2>. DEFINE p == IF how = "awaited" THEN "waiting" ELSE IF calls[c].phase = "silent" THEN "returned" ELSE calls[c].phase
  <2>1. /\ Turns(c, p, TRUE, calls[c].error)
        /\ ~walk.on /\ settled' = settled
        /\ calls[c].phase \in {"running", "silent"}
        /\ how = "awaited" => calls[c].phase = "running"
        /\ walk' = Walk(calls[c].rest, e, c, how)
    BY <1>29 DEF Nexts
  <2>2. p = IF how = "awaited" THEN "waiting" ELSE IF calls[c].phase = "silent" THEN "returned" ELSE calls[c].phase
    OBVIOUS
  <2>3. B = {} /\ S2 = S /\ B2 = IF how = "awaited" THEN {c} ELSE {}
    BY <1>3, <1>6, <1>7, <2>1
  <2>4. /\ O2 = O
        /\ W2 = IF p = "waiting" THEN W \cup {c} ELSE W \ {c}
        /\ H2 = IF calls[c].how = "awaited" /\ Pends(p) THEN H \cup {c} ELSE H \ {c}
    BY <1>10, <2>1
  <2>. HIDE DEF p
  <2>5. c \notin W /\ H2 = H
    BY <1>9, <2>1, <2>2, <2>4 DEF Pends
  <2>6. CASE how = "awaited"
    <3>1. W2 = W \cup {c} /\ B2 = {c}
      BY <2>2, <2>3, <2>4, <2>6
    <3>. QED
      BY <1>1, <2>3, <2>4, <2>5, <3>1, PromisesMade
  <2>7. CASE how # "awaited"
    <3>1. W2 = W /\ B2 = {}
      BY <2>1, <2>2, <2>3, <2>4, <2>5, <2>7
    <3>. QED
      BY <1>1, <2>3, <2>4, <2>5, <3>1
  <2>. QED
    BY <2>6, <2>7
<1>30. ASSUME NEW c \in DOMAIN calls, NEW e \in Errors, Breaks(c, e) PROVE Promises(W2, H2, O2, S2, B2)
  <2>1. /\ Turns(c, "failed", calls[c].nexted, e) /\ ~walk.on
        /\ walk' = Walk(calls[c].rest, e, calls[c].by, calls[c].how)
    BY <1>30 DEF Breaks
  <2>2. CASE calls[c].phase \in {"running", "sending"} /\ settled' = settled
    BY <1>23, <2>1, <2>2 DEF Pends
  <2>3. ASSUME calls[c].phase = "waiting", NEW t \in settled, t.how = "awaited", t.by = c, settled' = settled \ {t}
        PROVE  Promises(W2, H2, O2, S2, B2)
    <3>1. W2 = W \ {t.by} /\ H2 = H \ {c} /\ O2 = O
      BY <1>10, <2>1, <2>3 DEF Pends
    <3>2. B = {} /\ S2 = S \ {t} /\ t \in S
      BY <1>7, <1>13, <2>1, <2>3
    <3>3. B2 = IF calls[c].how = "awaited" THEN {calls[c].by} ELSE {}
      BY <1>6, <2>1
    <3>4. Promises(W2, H, O, S2, B)
      BY <1>1, <2>3, <3>1, <3>2, PromisesTold
    <3>5. CASE c \in H
      <4>1. B2 = {O[c]}
        BY <1>9, <3>3, <3>5
      <4>. QED
        BY <3>1, <3>4, <3>5, <4>1, PromisesToWalk
    <3>6. CASE c \notin H
      <4>1. B2 = {}
        BY <1>9, <2>3, <3>3, <3>6 DEF Pends
      <4>. QED
        BY <3>1, <3>4, <4>1, PromisesFewer
    <3>. QED
      BY <3>5, <3>6
  <2>. QED
    BY <1>30, <2>2, <2>3 DEF Breaks
<1>31. ASSUME NEW c \in DOMAIN calls, NEW h, Passes(c, h) PROVE Promises(W2, H2, O2, S2, B2)
  <2>. DEFINE m == Len(calls) + 1
              H3 == H \ {c}
              H4 == H3 \cup {m}
              B3 == {O[c]}
  <2>1. Hands(c, h) /\ calls[c].phase = "running" /\ UNCHANGED <<walk, settled>> /\ ~walk.on
    BY <1>31 DEF Passes
  <2>2. /\ W2 = W /\ m \notin H /\ (\A d \in H : O2[d] = O[d]) /\ O2[m] = calls[c].by
        /\ H2 \subseteq (H \ {c}) \cup {m} /\ (m \in H2 => calls[c].how = "awaited")
    BY <1>12, <2>1
  <2>3. S2 = S /\ B = {} /\ B2 = {} /\ O[c] = calls[c].by /\ (c \in H <=> calls[c].how = "awaited")
    BY <1>3, <1>4, <1>7, <1>9, <2>1 DEF Pends
  <2>4. H3 = H \ {c} /\ H4 = H3 \cup {m} /\ B3 = {O[c]}
    OBVIOUS
  <2>. HIDE DEF m, H3, H4, B3
  <2>5. CASE c \in H
    <3>1. Promises(W, H3, O, S, B3)
      BY <1>1, <2>4, <2>5, PromisesToWalk
    <3>2. m \notin H3 /\ (\A d \in H3 : O2[d] = O[d]) /\ O2[m] \in B3
      BY <2>2, <2>3, <2>4
    <3>3. Promises(W, H4, O2, S, {})
      BY <2>4, <3>1, <3>2, PromisesToCall
    <3>4. H2 \subseteq H4 /\ B2 = {}
      BY <2>2, <2>3, <2>4
    <3>. QED
      BY <2>2, <2>3, <3>3, <3>4, PromisesFewer
  <2>6. CASE c \notin H
    <3>1. H2 \subseteq H /\ (\A d \in H2 : O2[d] = O[d])
      BY <2>2, <2>3, <2>6
    <3>. QED
      BY <1>1, <2>2, <2>3, <3>1, PromisesFewer
  <2>. QED
    BY <2>5, <2>6
<1>. QED
  BY <1>15, <1>16, <1>17, <1>18, <1>20, <1>21, <1>22, <1>24, <1>26, <1>27, <1>28, <1>29, <1>30, <1>31 DEF Kind, Plain

(***************************************************************************)
(* The calls that are not over, and what they read of the request          *)
(***************************************************************************)
\* A failed call stays as it is, and one that is over stays over.
Settles ==
  \A c \in DOMAIN calls :
    /\ c \in DOMAIN calls'
    /\ Same(calls'[c], calls[c])
    /\ calls[c].phase = "failed" => calls'[c] = calls[c]
    /\ Over(calls[c]) => Over(calls'[c])

Steady == calls' = calls \/ (\E h : Begins(h)) \/ (\E c \in DOMAIN calls : \E h : Hands(c, h) /\ calls[c].phase # "failed")

LEMMA OverTurned ==
  ASSUME NEW c \in DOMAIN calls, NEW p, NEW n, NEW e, Turns(c, p, n, e), calls[c].phase # "failed",
         calls[c].nexted => n, (n /\ calls[c].direct /\ calls[c].phase = "returned") => p = "returned"
  PROVE  Settles
<1>1. /\ c \in DOMAIN calls /\ DOMAIN calls' = DOMAIN calls /\ Same(calls'[c], calls[c])
      /\ calls'[c].phase = p /\ calls'[c].nexted = n
      /\ \A d \in DOMAIN calls : d # c => calls'[d] = calls[d]
  BY DEF Turns, Alters
<1>. QED
  BY <1>1 DEF Settles, Over, Same

LEMMA OverSteady ==
  ASSUME TypeOK, Steady
  PROVE  Settles
<1>1. CASE calls' = calls
  BY <1>1 DEF Settles, Same
<1>2. ASSUME NEW h, Begins(h) PROVE Settles
  <2>1. \A d \in DOMAIN calls : d \in DOMAIN calls' /\ calls'[d] = calls[d]
    BY <1>2 DEF Begins, Grows
  <2>. QED
    BY <2>1 DEF Settles, Same
<1>3. ASSUME NEW c \in DOMAIN calls, NEW h, Hands(c, h), calls[c].phase # "failed" PROVE Settles
  <2>1. /\ DOMAIN calls' = 1..(Len(calls) + 1) /\ calls'[c].phase = "returned" /\ Same(calls'[c], calls[c])
        /\ calls'[c].nexted = calls[c].nexted
        /\ \A d \in DOMAIN calls : d # c => calls'[d] = calls[d]
    BY <1>3 DEF Hands
  <2>2. Len(calls) \in Nat /\ DOMAIN calls = 1..Len(calls)
    BY CallTyped
  <2>3. \A d \in DOMAIN calls : d \in DOMAIN calls'
    BY <2>1, <2>2
  <2>. QED
    BY <1>3, <2>1, <2>3 DEF Settles, Same, Over
<1>. QED
  BY <1>1, <1>2, <1>3 DEF Steady

LEMMA KindSettles ==
  ASSUME TypeOK, Quiet, PhasesRight, Kind
  PROVE  Settles
<1>1. CASE Rests \/ Moves \/ Ends \/ Drops \/ (\E h : Calls(h)) \/ Starts
  <2>1. Steady
    BY <1>1 DEF Rests, Moves, Ends, Drops, Calls, Starts, Steady
  <2>. QED
    BY <2>1, OverSteady
<1>2. ASSUME NEW c \in DOMAIN calls, NEW h, Passes(c, h) PROVE Settles
  <2>1. Steady
    BY <1>2 DEF Passes, Steady
  <2>. QED
    BY <2>1, OverSteady
<1>3. ASSUME NEW c \in DOMAIN calls, Returns(c) PROVE Settles
  BY <1>3, OverTurned DEF Returns
<1>4. ASSUME NEW c \in DOMAIN calls, Done(c) PROVE Settles
  BY <1>4, OverTurned DEF Done
<1>5. ASSUME NEW c \in DOMAIN calls, Sends(c) PROVE Settles
  BY <1>5, OverTurned DEF Sends
<1>6. ASSUME NEW c \in DOMAIN calls, Wakes(c) PROVE Settles
  BY <1>6, OverTurned DEF Wakes
<1>7. ASSUME NEW c \in DOMAIN calls, NEW e \in Errors, Breaks(c, e) PROVE Settles
  <2>1. Turns(c, "failed", calls[c].nexted, e) /\ calls[c].phase \in {"running", "sending", "waiting"}
    BY <1>7 DEF Breaks
  <2>. QED
    BY <2>1, OverTurned
<1>8. ASSUME NEW c \in DOMAIN calls, NEW e \in Errors, Asks(c, e) PROVE Settles
  BY <1>8, OverTurned DEF Asks
<1>9. ASSUME NEW c \in DOMAIN calls, NEW e \in Errors, NEW how \in Hows, Nexts(c, e, how) PROVE Settles
  <2>. DEFINE p == IF how = "awaited" THEN "waiting" ELSE IF calls[c].phase = "silent" THEN "returned" ELSE calls[c].phase
  <2>1. Turns(c, p, TRUE, calls[c].error) /\ calls[c].phase \in {"running", "silent"}
    BY <1>9 DEF Nexts
  <2>. HIDE DEF p
  <2>. QED
    BY <2>1, OverTurned
<1>. QED
  BY <1>1, <1>2, <1>3, <1>4, <1>5, <1>6, <1>7, <1>8, <1>9 DEF Kind, Plain

LEMMA FailureStays ==
  ASSUME Settles
  PROVE  /\ FailedAfterNext => FailedAfterNext'
         /\ PhasesRight /\ FailedWithUndefined => FailedWithUndefined'
BY DEF Settles, Same, FailedAfterNext, FailedWithUndefined, PhasesRight

\* Everything but call c is over.
OnlyOne(c) == \A d \in DOMAIN calls : d # c => Over(calls[d])

LEMMA NotOver ==
  ASSUME LastRight, ~FailedAfterNext, NEW c \in DOMAIN calls, ~Over(calls[c])
  PROVE  c = Len(calls) /\ ~walk.on /\ OnlyOne(c)
BY DEF LastRight, OnlyOne

LEMMA LastTurned ==
  ASSUME Settles, NEW c \in DOMAIN calls, NEW p, NEW n, NEW e, Turns(c, p, n, e), OnlyOne(c), Over(calls'[c])
  PROVE  LastRight'
BY DEF Settles, Turns, Alters, OnlyOne, LastRight

LEMMA LastStays ==
  ASSUME Settles, LastRight, ~FailedAfterNext, NEW c, NEW p, NEW n, NEW e, Turns(c, p, n, e), ~walk'.on
  PROVE  LastRight'
BY DEF Settles, Turns, Alters, LastRight

LEMMA LastBegins ==
  ASSUME NEW h, Begins(h), \A c \in DOMAIN calls : Over(calls[c])
  PROVE  LastRight'
<1>1. /\ Len(calls') = Len(calls) + 1
      /\ \A d \in DOMAIN calls : calls'[d] = calls[d]
      /\ ~walk'.on
  BY IdleFields DEF Begins, Grows
<1>2. \A d \in DOMAIN calls' : d \in DOMAIN calls \/ d = Len(calls) + 1
  BY DEF Begins, Grows
<1>. QED
  BY <1>1, <1>2 DEF LastRight

LEMMA LastKept ==
  ASSUME TypeOK, Quiet, PhasesRight, LastRight, Kind
  PROVE  LastRight'
<1>. SUFFICES ASSUME ~FailedAfterNext' PROVE LastRight'
  BY DEF LastRight
<1>1. Settles
  BY KindSettles
<1>2. ~FailedAfterNext
  BY <1>1, FailureStays
<1>3. calls' = calls /\ (walk'.on => walk.on) => LastRight'
  BY <1>2 DEF LastRight
<1>4. walk.on => \A c \in DOMAIN calls : Over(calls[c])
  BY <1>2 DEF LastRight
<1>5. CASE Rests \/ Drops
  BY <1>3, <1>5 DEF Rests, Drops
<1>6. CASE Moves
  BY <1>3, <1>6 DEF Moves
<1>7. CASE Ends
  BY <1>3, <1>7 DEF Ends
<1>8. CASE Starts
  <2>1. calls = <<>>
    BY <1>8 DEF Starts, Quiet
  <2>2. \A c \in DOMAIN calls : Over(calls[c])
    BY <2>1, EmptySeq
  <2>3. CASE calls' = calls
    BY <2>2, <2>3 DEF LastRight
  <2>4. ASSUME NEW h, Begins(h) PROVE LastRight'
    BY <2>2, <2>4, LastBegins
  <2>. QED
    BY <1>8, <2>3, <2>4 DEF Starts
<1>9. ASSUME NEW h, Calls(h) PROVE LastRight'
  BY <1>4, <1>9, LastBegins DEF Calls
<1>10. ASSUME NEW c \in DOMAIN calls, NEW h, Passes(c, h) PROVE LastRight'
  <2>1. Hands(c, h) /\ calls[c].phase = "running" /\ calls[c].direct /\ ~walk'.on
    BY <1>10 DEF Passes
  <2>2. ~Over(calls[c])
    BY <2>1 DEF Over
  <2>3. OnlyOne(c)
    BY <1>2, <2>2, NotOver
  <2>4. Over(calls'[c])
    BY <1>10, <2>1 DEF Hands, Passes, Over
  <2>5. \A d \in DOMAIN calls : Over(calls'[d])
    BY <1>1, <2>3, <2>4 DEF Settles, OnlyOne
  <2>6. Len(calls) \in Nat /\ DOMAIN calls = 1..Len(calls)
    BY CallTyped
  <2>7. Len(calls') = Len(calls) + 1 /\ DOMAIN calls' = 1..(Len(calls) + 1)
    BY <2>1 DEF Hands
  <2>8. \A d \in DOMAIN calls' : d \in DOMAIN calls \/ d = Len(calls')
    BY <2>6, <2>7
  <2>. QED
    BY <2>1, <2>5, <2>8 DEF LastRight
<1>11. ASSUME NEW c \in DOMAIN calls, Returns(c) \/ Sends(c) \/ Wakes(c) PROVE LastRight'
  <2>1. ~walk'.on /\ \E p, n, e : Turns(c, p, n, e)
    BY <1>11 DEF Returns, Sends, Wakes
  <2>. QED
    BY <1>1, <1>2, <2>1, LastStays
<1>12. ASSUME NEW c \in DOMAIN calls, NEW e \in Errors, Asks(c, e) PROVE LastRight'
  <2>1. ~walk'.on /\ Turns(c, "running", TRUE, e)
    BY <1>12 DEF Asks
  <2>. QED
    BY <1>1, <1>2, <2>1, LastStays
<1>13. ASSUME NEW c \in DOMAIN calls, Done(c) PROVE LastRight'
  <2>1. Turns(c, "returned", calls[c].nexted, calls[c].error) /\ calls[c].phase = "running" /\ calls[c].direct /\ calls[c].nexted
    BY <1>13 DEF Done
  <2>2. ~Over(calls[c])
    BY <2>1 DEF Over
  <2>3. OnlyOne(c) /\ Over(calls'[c])
    BY <1>2, <2>1, <2>2, NotOver DEF Turns, Over
  <2>. QED
    BY <1>1, <2>1, <2>3, LastTurned
<1>14. ASSUME NEW c \in DOMAIN calls, NEW e \in Errors, Breaks(c, e) PROVE LastRight'
  <2>1. Turns(c, "failed", calls[c].nexted, e) /\ calls[c].phase \in {"running", "sending", "waiting"}
    BY <1>14 DEF Breaks
  <2>2. Over(calls'[c])
    BY <2>1 DEF Turns, Over
  <2>3. ~(~calls[c].direct /\ calls[c].nexted)
    BY <2>1 DEF FailedAfterNext, Turns, Alters, Same
  <2>4. ~Over(calls[c])
    BY <2>1, <2>3 DEF Over
  <2>. QED
    BY <1>1, <1>2, <2>1, <2>2, <2>4, NotOver, LastTurned
<1>15. ASSUME NEW c \in DOMAIN calls, NEW e \in Errors, NEW how \in Hows, Nexts(c, e, how) PROVE LastRight'
  <2>1. /\ \E p : Turns(c, p, TRUE, calls[c].error)
        /\ ~calls[c].nexted /\ ~calls[c].direct /\ calls[c].phase \in {"running", "silent"}
    BY <1>15 DEF Nexts
  <2>2. Over(calls'[c])
    BY <2>1 DEF Turns, Over, Alters, Same
  <2>3. ~Over(calls[c])
    BY <2>1 DEF Over
  <2>. QED
    BY <1>1, <1>2, <2>1, <2>2, <2>3, NotOver, LastTurned
<1>. QED
  BY <1>5, <1>6, <1>7, <1>8, <1>9, <1>10, <1>11, <1>12, <1>13, <1>14, <1>15 DEF Kind, Plain

\* A call that has something to read of the request.
Reads(c) == calls[c].phase \in {"running", "sending"} /\ ~calls[c].nexted

LEMMA ScopeGrown ==
  ASSUME NEW h, Begins(h), \A c \in DOMAIN calls : Over(calls[c])
  PROVE  ScopeRight'
<1>1. /\ calls'[Len(calls) + 1] = h /\ scope' = h.scope
      /\ \A d \in DOMAIN calls : calls'[d] = calls[d]
      /\ \A d \in DOMAIN calls' : d \in DOMAIN calls \/ d = Len(calls) + 1
  BY DEF Begins, Grows
<1>. QED
  BY <1>1 DEF ScopeRight, Over

LEMMA ScopeTurned ==
  ASSUME Settles, LastRight', ScopeRight, ~FailedAfterNext,
         NEW c \in DOMAIN calls, NEW p, NEW n, NEW e, Turns(c, p, n, e),
         walk'.on \/ n \/ p \in {"silent", "returned", "failed"} \/ (Reads(c) /\ scope' = scope),
         scope' = scope \/ walk'.on \/ OnlyOne(c)
  PROVE  ScopeRight'
<1>. SUFFICES ASSUME ~FailedAfterNext', NEW d \in DOMAIN calls', calls'[d].phase \in {"running", "sending"}, ~calls'[d].nexted
              PROVE  scope' = calls'[d].scope
  BY DEF ScopeRight
<1>1. ~Over(calls'[d])
  BY DEF Over
<1>2. ~walk'.on
  BY <1>1 DEF LastRight
<1>3. d \in DOMAIN calls
  BY DEF Turns, Alters
<1>4. CASE d # c
  <2>1. calls'[d] = calls[d]
    BY <1>3, <1>4 DEF Turns, Alters
  <2>2. ~OnlyOne(c)
    BY <1>1, <1>3, <1>4, <2>1 DEF OnlyOne
  <2>. QED
    BY <1>2, <1>3, <2>1, <2>2 DEF ScopeRight
<1>5. CASE d = c
  <2>1. calls'[c].phase = p /\ calls'[c].nexted = n /\ calls'[c].scope = calls[c].scope
    BY DEF Turns, Alters, Same
  <2>2. Reads(c) /\ scope' = scope
    BY <1>2, <1>5, <2>1
  <2>. QED
    BY <1>5, <2>1, <2>2 DEF ScopeRight, Reads
<1>. QED
  BY <1>4, <1>5

LEMMA ScopeKept ==
  ASSUME TypeOK, Quiet, PhasesRight, LastRight, ScopeRight, Kind
  PROVE  ScopeRight'
<1>. SUFFICES ASSUME ~FailedAfterNext' PROVE ScopeRight'
  BY DEF ScopeRight
<1>1. Settles /\ LastRight'
  BY KindSettles, LastKept
<1>2. ~FailedAfterNext
  BY <1>1, FailureStays
<1>3. calls' = calls /\ scope' = scope => ScopeRight'
  BY <1>2 DEF ScopeRight
<1>4. walk.on => \A c \in DOMAIN calls : Over(calls[c])
  BY <1>2 DEF LastRight
<1>5. CASE Rests \/ Drops \/ Moves \/ Ends
  BY <1>3, <1>5 DEF Rests, Drops, Moves, Ends
<1>6. CASE Starts
  <2>1. calls = <<>>
    BY <1>6 DEF Starts, Quiet
  <2>2. \A c \in DOMAIN calls : Over(calls[c])
    BY <2>1, EmptySeq
  <2>3. ASSUME NEW h, Begins(h) PROVE ScopeRight'
    BY <2>2, <2>3, ScopeGrown
  <2>. QED
    BY <1>3, <1>6, <2>3 DEF Starts
<1>7. ASSUME NEW h, Calls(h) PROVE ScopeRight'
  BY <1>4, <1>7, ScopeGrown DEF Calls
<1>8. ASSUME NEW c \in DOMAIN calls, NEW h, Passes(c, h) PROVE ScopeRight'
  <2>1. Hands(c, h) /\ calls[c].phase = "running" /\ calls[c].direct /\ calls[c].nexted /\ scope' = calls[c].scope
    BY <1>8 DEF Passes
  <2>2. ~Over(calls[c])
    BY <2>1 DEF Over
  <2>3. OnlyOne(c)
    BY <1>2, <2>2, NotOver
  <2>4. Over(calls'[c])
    BY <2>1 DEF Hands, Over
  <2>5. \A d \in DOMAIN calls : Over(calls'[d])
    BY <1>1, <2>3, <2>4 DEF Settles, OnlyOne
  <2>6. Len(calls) \in Nat /\ DOMAIN calls = 1..Len(calls)
    BY CallTyped
  <2>7. DOMAIN calls' = 1..(Len(calls) + 1) /\ calls'[Len(calls) + 1] = h /\ h.scope = calls[c].scope
    BY <2>1 DEF Hands
  <2>8. \A d \in DOMAIN calls' : d \in DOMAIN calls \/ d = Len(calls) + 1
    BY <2>6, <2>7
  <2>. QED
    BY <2>1, <2>5, <2>7, <2>8 DEF ScopeRight, Over
<1>9. ASSUME NEW c \in DOMAIN calls, Returns(c) PROVE ScopeRight'
  <2>. DEFINE p == IF ~calls[c].nexted THEN "silent" ELSE "returned"
  <2>1. Turns(c, p, calls[c].nexted, calls[c].error) /\ calls[c].phase = "running" /\ p \in {"silent", "returned"}
    BY <1>9 DEF Returns
  <2>2. scope' = scope \/ ~Over(calls[c])
    BY <1>9, <2>1 DEF Returns, Over
  <2>. HIDE DEF p
  <2>. QED
    BY <1>1, <1>2, <2>1, <2>2, NotOver, ScopeTurned
<1>10. ASSUME NEW c \in DOMAIN calls, Sends(c) PROVE ScopeRight'
  <2>1. scope' = scope /\ Reads(c) /\ \E p, n, e : Turns(c, p, n, e)
    BY <1>10 DEF Sends, Reads
  <2>. QED
    BY <1>1, <1>2, <2>1, ScopeTurned
<1>11. ASSUME NEW c \in DOMAIN calls, Wakes(c) PROVE ScopeRight'
  <2>1. scope' = scope /\ Turns(c, "running", calls[c].nexted, calls[c].error) /\ calls[c].nexted
    BY <1>11 DEF Wakes, PhasesRight
  <2>. QED
    BY <1>1, <1>2, <2>1, ScopeTurned
<1>12. ASSUME NEW c \in DOMAIN calls, NEW e \in Errors, Asks(c, e) PROVE ScopeRight'
  <2>1. scope' = scope /\ Turns(c, "running", TRUE, e)
    BY <1>12 DEF Asks
  <2>. DEFINE n == TRUE
  <2>2. Turns(c, "running", n, e) /\ n
    BY <2>1
  <2>. HIDE DEF n
  <2>. QED
    BY <1>1, <1>2, <2>1, <2>2, ScopeTurned
<1>13. ASSUME NEW c \in DOMAIN calls,
              Done(c) \/ \E e \in Errors : Breaks(c, e) \/ \E how \in Hows : Nexts(c, e, how)
       PROVE  ScopeRight'
  <2>1. walk'.on
    BY <1>13, WalkFields DEF Done, Breaks, Nexts
  <2>. QED
    BY <1>1, <2>1 DEF LastRight, ScopeRight, Over
<1>. QED
  BY <1>5, <1>6, <1>7, <1>8, <1>9, <1>10, <1>11, <1>12, <1>13 DEF Kind, Plain

(***************************************************************************)
(* Stacks of frames                                                        *)
(***************************************************************************)
LayersKnown(a, m, layers) ==
  /\ Len(layers) \in Nat
  /\ DOMAIN layers = 1..Len(layers)
  /\ \A k \in 1..Len(layers) : layers[k].id \in DOMAIN a /\ layers[k].id \in Nat /\ a[layers[k].id].at = m
  /\ \A j, k \in 1..Len(layers) : j < k => layers[j].id < layers[k].id
  /\ \A id \in DOMAIN a : a[id].at = m => \E k \in 1..Len(layers) : layers[k].id = id

LEMMA LayersOf ==
  ASSUME NEW a, NEW R, World(a, R), NEW m \in 0..Len(a)
  PROVE  LayersKnown(a, m, R[m].layers)
<1>. DEFINE layers == R[m].layers
<1>1. LayersRight(a, m, layers)
  BY DEF World, RouterRight
<1>2. Len(layers) \in Nat /\ DOMAIN layers = 1..Len(layers)
  BY <1>1, LenProperties DEF LayersRight
<1>3. \A k \in DOMAIN layers : layers[k].id \in DOMAIN a /\ a[layers[k].id].at = m
  BY <1>1 DEF LayersRight
<1>4. \A k \in DOMAIN layers : layers[k].id \in Nat
  BY <1>3, Placed DEF World
<1>. QED
  BY <1>1, <1>2, <1>3, <1>4 DEF LayersRight, LayersKnown

\* The layers that a frame has left.
LEMMA PendingRight ==
  ASSUME NEW a, NEW R, World(a, R), NEW f, f.place \in 0..Len(a), f.index \in Nat \ {0}
  PROVE  /\ \A j \in Pending(R, f) : j \in DOMAIN a /\ j \in Nat /\ a[j].at = f.place /\ f.place < j
         /\ \A id \in DOMAIN a : a[id].at = f.place =>
               \/ id \in Pending(R, f)
               \/ \E k \in 1..(f.index - 1) : k \in DOMAIN R[f.place].layers /\ R[f.place].layers[k].id = id
<1>. DEFINE m == f.place
            layers == R[m].layers
            i == f.index
            P == Pending(R, f)
<1>1. m \in 0..Len(a) /\ layers = R[m].layers /\ i \in Nat \ {0}
  OBVIOUS
<1>2. P = {layers[k].id : k \in i..Len(layers)}
  BY DEF Pending
<1>. HIDE DEF m, layers, i, P
<1>3. LayersKnown(a, m, layers)
  BY <1>1, LayersOf
<1>4. /\ Len(layers) \in Nat
      /\ DOMAIN layers = 1..Len(layers)
      /\ \A k \in 1..Len(layers) : layers[k].id \in DOMAIN a /\ layers[k].id \in Nat /\ a[layers[k].id].at = m
      /\ \A id \in DOMAIN a : a[id].at = m => \E k \in 1..Len(layers) : layers[k].id = id
  BY <1>3 DEF LayersKnown
<1>5. \A id \in DOMAIN a : a[id].at < id
  BY Placed DEF World
<1>6. \A j \in P : j \in DOMAIN a /\ j \in Nat /\ a[j].at = m /\ m < j
  BY <1>1, <1>2, <1>4, <1>5
<1>7. ASSUME NEW id \in DOMAIN a, a[id].at = m
      PROVE  id \in P \/ \E k \in 1..(i - 1) : k \in DOMAIN layers /\ layers[k].id = id
  <2>1. PICK k \in 1..Len(layers) : layers[k].id = id
    BY <1>4, <1>7
  <2>2. k \in i..Len(layers) \/ k \in 1..(i - 1)
    BY <1>1, <1>4
  <2>. QED
    BY <1>2, <1>4, <2>1, <2>2
<1>. QED
  BY <1>6, <1>7 DEF m, layers, i, P

LEMMA AheadOf ==
  ASSUME NEW R, NEW f \in Frame, NEW G \in Seq(Frame)
  PROVE  /\ Ahead(R, <<f>> \o G) = Pending(R, f) \cup Ahead(R, G)
         /\ Ahead(R, <<>>) = {}
<1>1. /\ DOMAIN G = 1..Len(G) /\ Len(G) \in Nat
      /\ DOMAIN (<<f>> \o G) = 1..(Len(G) + 1)
      /\ (<<f>> \o G)[1] = f
      /\ \A i \in 1..Len(G) : (<<f>> \o G)[i + 1] = G[i]
  BY Pushed
<1>2. Ahead(R, <<>>) = {}
  BY EmptySeq DEF Ahead
<1>3. ASSUME NEW j \in Ahead(R, <<f>> \o G) PROVE j \in Pending(R, f) \cup Ahead(R, G)
  <2>1. PICK i \in 1..(Len(G) + 1) : j \in Pending(R, (<<f>> \o G)[i])
    BY <1>1, <1>3 DEF Ahead
  <2>2. CASE i = 1
    BY <1>1, <2>1, <2>2
  <2>3. CASE i # 1
    <3>1. i - 1 \in 1..Len(G) /\ (i - 1) + 1 = i
      BY <1>1, <2>3
    <3>2. j \in Pending(R, G[i - 1])
      BY <1>1, <2>1, <3>1
    <3>. QED
      BY <1>1, <3>1, <3>2 DEF Ahead
  <2>. QED
    BY <2>2, <2>3
<1>4. Pending(R, f) \subseteq Ahead(R, <<f>> \o G)
  <2>1. 1 \in DOMAIN (<<f>> \o G)
    BY <1>1
  <2>. QED
    BY <1>1, <2>1 DEF Ahead
<1>5. ASSUME NEW j \in Ahead(R, G) PROVE j \in Ahead(R, <<f>> \o G)
  <2>1. PICK i \in 1..Len(G) : j \in Pending(R, G[i])
    BY <1>1, <1>5 DEF Ahead
  <2>2. i + 1 \in DOMAIN (<<f>> \o G)
    BY <1>1
  <2>. QED
    BY <1>1, <2>1, <2>2 DEF Ahead
<1>. QED
  BY <1>2, <1>3, <1>4, <1>5

LEMMA Whole ==
  ASSUME NEW S, NEW F \in Seq(S), F # <<>>
  PROVE  F = <<F[1]>> \o Tail(F) /\ F[1] \in S /\ Tail(F) \in Seq(S)
<1>1. F[1] \in S /\ Head(F) = F[1] /\ Tail(F) \in Seq(S)
  BY Popped
<1>2. F = <<Head(F)>> \o Tail(F)
  BY HeadTailProperties
<1>. QED
  BY <1>1, <1>2

\* What a frame must be to those under it.
Above(a, R, f, G) ==
  /\ G = <<>> => f.place = 0
  /\ G # <<>> =>
       /\ a[f.place].at = G[1].place
       /\ G[1].place < f.place
       /\ \A k \in 1..(G[1].index - 1) : R[G[1].place].layers[k].id <= f.place
  /\ \A k \in Pending(R, f), l \in Ahead(R, G) : k < l

LEMMA StackPopped ==
  ASSUME NEW a, NEW R, NEW q, NEW F, StackRight(a, R, q, F), F # <<>>
  PROVE  FrameRight(a, R, q, F[1]) /\ StackRight(a, R, q, Tail(F)) /\ Above(a, R, F[1], Tail(F))
<1>. DEFINE G == Tail(F)
<1>1. /\ Len(F) \in Nat /\ Len(F) >= 1 /\ DOMAIN F = 1..Len(F) /\ 1 \in DOMAIN F
      /\ G \in Seq(Frame)
      /\ Len(G) = Len(F) - 1
      /\ DOMAIN G = 1..(Len(F) - 1)
      /\ \A i \in 1..(Len(F) - 1) : G[i] = F[i + 1]
  BY Popped DEF StackRight
<1>2. G # <<>> => 1 \in DOMAIN G /\ G[1] = F[2] /\ 2 \in DOMAIN F
  <2>1. G # <<>> => Len(G) # 0
    BY <1>1, EmptySeq
  <2>. QED
    BY <1>1, <2>1
<1>. HIDE DEF G
<1>3. G = <<>> => Len(F) = 1
  <2>. DEFINE n == Len(G)
  <2>1. n = Len(F) - 1 /\ (G = <<>> => n = 0)
    BY <1>1, EmptySeq
  <2>. HIDE DEF n
  <2>. QED
    BY <1>1, <2>1
<1>4. FrameRight(a, R, q, F[1])
  BY <1>1 DEF StackRight
<1>5. StackRight(a, R, q, G)
  <2>1. \A i \in DOMAIN G : i + 1 \in DOMAIN F /\ G[i] = F[i + 1] /\ i \in Nat
    BY <1>1
  <2>2. \A i \in DOMAIN G : FrameRight(a, R, q, G[i])
    BY <2>1 DEF StackRight
  <2>3. \A i, j \in DOMAIN G : i < j =>
       /\ G[j].place < G[i].place
       /\ \A k \in Pending(R, G[i]), l \in Pending(R, G[j]) : k < l
    BY <2>1 DEF StackRight
  <2>4. \A i \in DOMAIN G : i = Len(G) => G[i].place = 0
    BY <1>1, <2>1 DEF StackRight
  <2>5. \A i, j \in DOMAIN G : j = i + 1 =>
       /\ a[G[i].place].at = G[j].place
       /\ \A k \in 1..(G[j].index - 1) : R[G[j].place].layers[k].id <= G[i].place
    BY <2>1 DEF StackRight
  <2>. QED
    BY <1>1, <2>2, <2>3, <2>4, <2>5 DEF StackRight
<1>6. Above(a, R, F[1], G)
  <2>1. G = <<>> => F[1].place = 0
    BY <1>1, <1>3 DEF StackRight
  <2>2. ASSUME G # <<>>
        PROVE  /\ a[F[1].place].at = G[1].place
               /\ G[1].place < F[1].place
               /\ \A k \in 1..(G[1].index - 1) : R[G[1].place].layers[k].id <= F[1].place
    BY <1>1, <1>2, <2>2 DEF StackRight
  <2>3. ASSUME NEW k \in Pending(R, F[1]), NEW l \in Ahead(R, G) PROVE k < l
    <3>1. PICK i \in DOMAIN G : l \in Pending(R, G[i])
      BY <2>3 DEF Ahead
    <3>2. i + 1 \in DOMAIN F /\ G[i] = F[i + 1] /\ 1 < i + 1
      BY <1>1
    <3>. QED
      BY <1>1, <3>1, <3>2 DEF StackRight
  <2>. QED
    BY <2>1, <2>2, <2>3 DEF Above
<1>. QED
  BY <1>4, <1>5, <1>6 DEF G

LEMMA StackPushed ==
  ASSUME NEW a, NEW R, NEW q, NEW f, FrameRight(a, R, q, f), f.place \in Nat,
         NEW G, StackRight(a, R, q, G), Above(a, R, f, G)
  PROVE  StackRight(a, R, q, <<f>> \o G)
<1>. DEFINE F == <<f>> \o G
<1>1. /\ F \in Seq(Frame)
      /\ Len(G) \in Nat
      /\ DOMAIN G = 1..Len(G)
      /\ Len(F) = Len(G) + 1
      /\ DOMAIN F = 1..(Len(G) + 1)
      /\ F[1] = f
      /\ \A i \in 1..Len(G) : F[i + 1] = G[i]
  BY Pushed DEF StackRight, FrameRight
<1>. HIDE DEF F
<1>2. \A i \in DOMAIN F : i \in Nat /\ (i = 1 \/ (i - 1 \in DOMAIN G /\ F[i] = G[i - 1]))
  BY <1>1
<1>3. \A i \in DOMAIN F : FrameRight(a, R, q, F[i])
  BY <1>1, <1>2 DEF StackRight
<1>4. \A j \in DOMAIN G : G[j].place < f.place
  <2>1. ASSUME NEW j \in DOMAIN G PROVE G[j].place < f.place
    <3>1. G # <<>> /\ 1 \in DOMAIN G
      BY <1>1, EmptySeq
    <3>2. G[1].place < f.place
      BY <3>1 DEF Above
    <3>3. j = 1 \/ (1 < j /\ G[j].place < G[1].place)
      BY <1>1, <3>1 DEF StackRight
    <3>4. G[j] \in Frame /\ G[1] \in Frame
      BY <3>1 DEF StackRight, FrameRight
    <3>5. G[j].place \in Nat /\ G[1].place \in Nat
      BY <3>4 DEF Frame
    <3>. QED
      BY <3>2, <3>3, <3>5
  <2>. QED
    BY <2>1
<1>5. ASSUME NEW i \in DOMAIN F, NEW j \in DOMAIN F, i < j
      PROVE  /\ F[j].place < F[i].place
             /\ \A k \in Pending(R, F[i]), l \in Pending(R, F[j]) : k < l
  <2>1. j - 1 \in DOMAIN G /\ F[j] = G[j - 1]
    BY <1>1, <1>2, <1>5
  <2>2. CASE i = 1
    <3>1. Pending(R, F[j]) \subseteq Ahead(R, G)
      BY <2>1 DEF Ahead
    <3>. QED
      BY <1>1, <1>4, <2>1, <2>2, <3>1 DEF Above
  <2>3. CASE i # 1
    <3>1. i - 1 \in DOMAIN G /\ F[i] = G[i - 1] /\ i - 1 < j - 1
      BY <1>1, <1>2, <1>5, <2>3
    <3>. QED
      BY <2>1, <3>1 DEF StackRight
  <2>. QED
    BY <2>2, <2>3
<1>6. ASSUME NEW i \in DOMAIN F, i = Len(F) PROVE F[i].place = 0
  <2>1. CASE Len(G) = 0
    <3>1. G = <<>>
      BY <2>1, EmptySeq DEF StackRight
    <3>. QED
      BY <1>1, <1>6, <2>1, <3>1 DEF Above
  <2>2. CASE Len(G) # 0
    <3>1. Len(G) \in DOMAIN G /\ F[i] = G[Len(G)]
      BY <1>1, <1>6, <2>2
    <3>. QED
      BY <3>1 DEF StackRight
  <2>. QED
    BY <2>1, <2>2
<1>7. ASSUME NEW i \in DOMAIN F, NEW j \in DOMAIN F, j = i + 1
      PROVE  /\ a[F[i].place].at = F[j].place
             /\ \A k \in 1..(F[j].index - 1) : R[F[j].place].layers[k].id <= F[i].place
  <2>1. j - 1 \in DOMAIN G /\ F[j] = G[j - 1]
    BY <1>1, <1>2, <1>7
  <2>2. CASE i = 1
    <3>1. G # <<>> /\ F[j] = G[1] /\ F[i] = f
      BY <1>1, <1>7, <2>1, <2>2, EmptySeq
    <3>. QED
      BY <3>1 DEF Above
  <2>3. CASE i # 1
    <3>1. i - 1 \in DOMAIN G /\ F[i] = G[i - 1] /\ j - 1 = (i - 1) + 1
      BY <1>1, <1>2, <1>7, <2>3
    <3>. QED
      BY <2>1, <3>1 DEF StackRight
  <2>. QED
    BY <2>2, <2>3
<1>8. StackRight(a, R, q, F)
  BY <1>1, <1>3, <1>5, <1>6, <1>7 DEF StackRight
<1>. QED
  BY <1>8 DEF F

\* What a stack has left to do.
LEMMA AheadRight ==
  ASSUME NEW a, NEW R, World(a, R), NEW q, NEW G, StackRight(a, R, q, G), NEW l \in Ahead(R, G)
  PROVE  /\ G # <<>> /\ l \in DOMAIN a /\ l \in Nat
         /\ G[1].place \in Nat /\ a[l].at \in Nat /\ a[l].at <= G[1].place
<1>1. PICK i \in DOMAIN G : l \in Pending(R, G[i])
  BY DEF Ahead
<1>2. G \in Seq(Frame) /\ Len(G) \in Nat /\ DOMAIN G = 1..Len(G)
  BY LenProperties DEF StackRight
<1>3. G # <<>> /\ 1 \in DOMAIN G
  BY <1>1, <1>2, EmptySeq
<1>4. FrameRight(a, R, q, G[1]) /\ FrameRight(a, R, q, G[i])
  BY <1>1, <1>3 DEF StackRight
<1>. DEFINE f == G[i]
            g == G[1]
<1>5. f.place \in 0..Len(a) /\ f.index \in Nat \ {0} /\ f.place \in Nat /\ g.place \in Nat
  BY <1>4 DEF FrameRight, Frame
<1>6. i = 1 \/ (1 < i /\ f.place < g.place)
  BY <1>1, <1>2, <1>3 DEF StackRight
<1>7. l \in Pending(R, f)
  BY <1>1
<1>8. f.place <= g.place
  BY <1>5, <1>6
<1>. HIDE DEF f
<1>9. l \in DOMAIN a /\ l \in Nat /\ a[l].at = f.place
  BY <1>5, <1>7, PendingRight
<1>. QED
  BY <1>3, <1>5, <1>8, <1>9

Advanced(g, f) == g \in Frame /\ g.place = f.place /\ g.index = f.index + 1 /\ g.path = f.path

Here(R, f) == R[f.place].layers[f.index].id

\* The frames G are those of F without the layer id, their first.
PastOf(a, R, q, F, G, id) ==
  /\ StackRight(a, R, q, G)
  /\ G # <<>>
  /\ Ahead(R, F) = {id} \cup Ahead(R, G)
  /\ \A j \in Ahead(R, G) : id < j
  /\ a[id].at = G[1].place
  /\ G[1].place = F[1].place
  /\ \A k \in 1..(G[1].index - 1) : R[G[1].place].layers[k].id <= id

\* The frames behind a layer.
LEMMA StackBehind ==
  ASSUME NEW a, NEW R, World(a, R), NEW q, NEW F, StackRight(a, R, q, F), F # <<>>,
         NEW f, f = F[1], f.index <= Len(R[f.place].layers), NEW g, Advanced(g, f), NEW G, G = Tail(F),
         NEW here, here = Here(R, f)
  PROVE  PastOf(a, R, q, F, <<g>> \o G, here)
<1>1. FrameRight(a, R, q, f) /\ StackRight(a, R, q, G) /\ Above(a, R, f, G)
  BY StackPopped
<1>2. f.place \in 0..Len(a) /\ f.index \in Nat \ {0} /\ f.index <= Len(R[f.place].layers) /\ f \in Frame
      /\ g.place = f.place /\ g.index = f.index + 1 /\ g.path = f.path /\ g \in Frame /\ g.place \in Nat
  BY <1>1 DEF FrameRight, Frame, Advanced
<1>. DEFINE m == f.place
            layers == R[m].layers
            i == f.index
            id == layers[i].id
<1>3. LayersKnown(a, m, layers)
  BY <1>2, LayersOf
<1>4. Here(R, f) = id /\ Pending(R, f) = {layers[k].id : k \in i..Len(layers)}
      /\ Pending(R, g) = {layers[k].id : k \in (i + 1)..Len(layers)}
  BY <1>2 DEF Here, Pending
<1>5. i \in Nat \ {0} /\ i <= Len(layers) /\ m \in 0..Len(a)
  BY <1>2
<1>6. f.place = m /\ f.index = i /\ g.place = m /\ g.index = i + 1
  BY <1>2
<1>. HIDE DEF m, layers, i
<1>7. /\ Len(layers) \in Nat
      /\ \A k \in 1..Len(layers) : layers[k].id \in DOMAIN a /\ layers[k].id \in Nat /\ a[layers[k].id].at = m
      /\ \A j, k \in 1..Len(layers) : j < k => layers[j].id < layers[k].id
  BY <1>3 DEF LayersKnown
<1>8. i \in 1..Len(layers) /\ \A k \in (i + 1)..Len(layers) : k \in 1..Len(layers) /\ i < k
  BY <1>5, <1>7
<1>9. Pending(R, f) = {id} \cup Pending(R, g)
  <2>1. \A k \in i..Len(layers) : k = i \/ k \in (i + 1)..Len(layers)
    BY <1>5, <1>7
  <2>2. \A k \in (i + 1)..Len(layers) : k \in i..Len(layers)
    BY <1>5, <1>7
  <2>3. i \in i..Len(layers)
    BY <1>5, <1>7
  <2>. QED
    BY <1>4, <2>1, <2>2, <2>3
<1>10. \A k \in Pending(R, g) : id < k
  BY <1>4, <1>7, <1>8
<1>11. \A k \in Pending(R, f), l \in Ahead(R, G) : k < l
  BY <1>1 DEF Above
<1>12. Above(a, R, g, G)
  BY <1>1, <1>2, <1>9 DEF Above
<1>13. FrameRight(a, R, q, g)
  <2>1. g.index <= Len(R[g.place].layers) + 1
    BY <1>2
  <2>. QED
    BY <1>1, <1>2, <2>1 DEF FrameRight
<1>14. StackRight(a, R, q, <<g>> \o G)
  BY <1>1, <1>2, <1>12, <1>13, StackPushed
<1>15. Ahead(R, F) = Pending(R, f) \cup Ahead(R, G) /\ Ahead(R, <<g>> \o G) = Pending(R, g) \cup Ahead(R, G)
  <2>1. G \in Seq(Frame) /\ F \in Seq(Frame) /\ F = <<f>> \o G
    BY Whole DEF StackRight
  <2>2. \A h \in Frame : Ahead(R, <<h>> \o G) = Pending(R, h) \cup Ahead(R, G)
    BY <2>1, AheadOf
  <2>. QED
    BY <1>2, <2>1, <2>2
<1>16. \A k \in 1..i : layers[k].id <= id
  <2>1. ASSUME NEW k \in 1..i PROVE layers[k].id <= id
    <3>1. k \in 1..Len(layers) /\ (k = i \/ k < i)
      BY <1>5, <1>7
    <3>. QED
      BY <1>7, <1>8, <3>1
  <2>. QED
    BY <2>1
<1>17. a[id].at = m
  BY <1>7, <1>8
<1>18. \A k \in 1..(g.index - 1) : k \in 1..i
  BY <1>5, <1>6
<1>19. G \in Seq(Frame) /\ g.place = F[1].place
  BY <1>1, <1>2 DEF StackRight
<1>. DEFINE H == <<g>> \o G
<1>20. H # <<>> /\ H[1] = g
  <2>1. H[1] = g /\ Len(H) = Len(G) + 1 /\ Len(G) \in Nat
    BY <1>2, <1>19, Pushed
  <2>. HIDE DEF H
  <2>. QED
    BY <2>1, EmptySeq DEF H
<1>21. /\ StackRight(a, R, q, H)
       /\ Ahead(R, F) = {id} \cup Ahead(R, H)
       /\ \A j \in Ahead(R, H) : id < j
       /\ a[id].at = g.place
       /\ \A k \in 1..(g.index - 1) : R[g.place].layers[k].id <= id
  BY <1>4, <1>6, <1>9, <1>10, <1>11, <1>14, <1>15, <1>16, <1>17, <1>18 DEF m, layers
<1>22. here = id
  BY <1>4
<1>. HIDE DEF H, id
<1>23. PastOf(a, R, q, F, H, here)
  BY <1>19, <1>20, <1>21, <1>22 DEF PastOf
<1>. QED
  BY <1>23 DEF H

\* What a router that is mounted holds comes before what follows the mount.
LEMMA Within ==
  ASSUME NEW a, NEW R, World(a, R), NEW m \in DOMAIN a, NEW k \in DOMAIN a, a[k].at = m,
         NEW l \in DOMAIN a, m < l, a[l].at < m
  PROVE  k < l
<1>1. k \in Nat /\ l \in Nat /\ m \in Nat /\ a[l].at \in Nat /\ InPlace(a)
  BY Placed DEF World
<1>2. \A j \in (m + 1)..(k - 1) : a[j].at >= m
  BY <1>1 DEF InPlace
<1>3. CASE l < k
  <2>1. l \in (m + 1)..(k - 1)
    BY <1>1, <1>3
  <2>. QED
    BY <1>1, <1>2, <2>1
<1>. QED
  BY <1>1, <1>3

\* The frame f of the router m that is mounted, before the frames G.
Opened(a, R, q, f, G, m) ==
  /\ StackRight(a, R, q, <<f>> \o G)
  /\ Ahead(R, <<f>> \o G) = Pending(R, f) \cup Ahead(R, G)
  /\ \A j \in Ahead(R, <<f>> \o G) : m < j
  /\ \A k \in DOMAIN a, l \in Ahead(R, G) : a[k].at = m => k < l

LEMMA StackEntered ==
  ASSUME NEW a, NEW R, World(a, R), NEW q, NEW G, StackRight(a, R, q, G), G # <<>>,
         NEW f, FrameRight(a, R, q, f), f.index = 1, NEW m \in DOMAIN a, m = f.place, a[m].at = G[1].place,
         \A k \in 1..(G[1].index - 1) : R[G[1].place].layers[k].id <= m,
         \A l \in Ahead(R, G) : m < l
  PROVE  Opened(a, R, q, f, G, m)
<1>1. m \in Nat /\ a[m].at \in Nat /\ a[m].at < m
  BY Placed DEF World
<1>2. f.place \in 0..Len(a) /\ f.index \in Nat \ {0} /\ f \in Frame
  BY DEF FrameRight, Frame
<1>3. \A j \in Pending(R, f) : j \in DOMAIN a /\ j \in Nat /\ a[j].at = m /\ m < j
  BY <1>2, PendingRight
<1>4. \A l \in Ahead(R, G) : l \in DOMAIN a /\ l \in Nat /\ a[l].at \in Nat /\ a[l].at < m
  <2>1. ASSUME NEW l \in Ahead(R, G) PROVE l \in DOMAIN a /\ l \in Nat /\ a[l].at \in Nat /\ a[l].at < m
    <3>1. l \in DOMAIN a /\ l \in Nat /\ a[l].at \in Nat /\ a[l].at <= a[m].at
      BY AheadRight
    <3>. QED
      BY <1>1, <3>1
  <2>. QED
    BY <2>1
<1>5. \A k \in DOMAIN a, l \in Ahead(R, G) : a[k].at = m => k < l
  BY <1>4, Within
<1>6. Above(a, R, f, G)
  BY <1>1, <1>3, <1>5 DEF Above
<1>7. StackRight(a, R, q, <<f>> \o G)
  BY <1>1, <1>6, StackPushed
<1>8. Ahead(R, <<f>> \o G) = Pending(R, f) \cup Ahead(R, G)
  <2>1. G \in Seq(Frame)
    BY DEF StackRight
  <2>. QED
    BY <1>2, <2>1, AheadOf
<1>. QED
  BY <1>3, <1>5, <1>7, <1>8 DEF Opened

(***************************************************************************)
(* Nothing that the request comes to is left out by a stack                *)
(***************************************************************************)
LEMMA Places ==
  ASSUME NEW a, NEW R, World(a, R), NEW q, NEW G, StackRight(a, R, q, G), G # <<>>
  PROVE  /\ Len(G) \in Nat /\ DOMAIN G = 1..Len(G) /\ 1 \in DOMAIN G
         /\ \A i \in DOMAIN G : G[i].place \in Nat /\ G[i].place \in 0..Len(a) /\ G[i].index \in Nat \ {0}
                                /\ G[i].place <= G[1].place
<1>1. G \in Seq(Frame) /\ Len(G) \in Nat /\ DOMAIN G = 1..Len(G)
  BY LenProperties DEF StackRight
<1>2. 1 \in DOMAIN G
  BY <1>1, EmptySeq
<1>3. \A i \in DOMAIN G : G[i].place \in Nat /\ G[i].place \in 0..Len(a) /\ G[i].index \in Nat \ {0}
  BY DEF StackRight, FrameRight, Frame
<1>4. \A i \in DOMAIN G : i = 1 \/ (1 < i /\ G[i].place < G[1].place)
  BY <1>1, <1>2 DEF StackRight
<1>. QED
  BY <1>1, <1>2, <1>3, <1>4

\* A router that the stack has gone past is on it.
LEMMA OnStack ==
  ASSUME NEW a, NEW R, World(a, R), NEW q, NEW G, StackRight(a, R, q, G), G # <<>>,
         NEW id \in DOMAIN a, G[1].place < id, a[id].at <= G[1].place
  PROVE  \E i \in DOMAIN G : G[i].place = a[id].at
<1>. DEFINE p == a[id].at
            L == Len(G)
            S == {n \in Nat : \E i \in DOMAIN G : n = L - i /\ p <= G[i].place}
<1>1. /\ L \in Nat /\ DOMAIN G = 1..L /\ 1 \in DOMAIN G
      /\ \A i \in DOMAIN G : G[i].place \in Nat /\ G[i].place <= G[1].place
  BY Places
<1>2. id \in Nat /\ p \in Nat /\ InPlace(a) /\ p <= G[1].place
  BY Placed DEF World
<1>3. \A j \in (p + 1)..(id - 1) : a[j].at >= p
  BY <1>2 DEF InPlace
<1>4. \A i \in DOMAIN G : (i = L => G[i].place = 0) /\ (i # L => i + 1 \in DOMAIN G)
  BY <1>1 DEF StackRight
<1>5. \A i, j \in DOMAIN G : j = i + 1 => a[G[i].place].at = G[j].place
  BY DEF StackRight
<1>. HIDE DEF p, L
<1>6. S \in SUBSET Nat /\ S # {}
  <2>1. L - 1 \in Nat
    BY <1>1
  <2>. QED
    BY <1>1, <1>2, <2>1
<1>7. PICK n \in S : \A k \in S : n <= k
  BY <1>6, LeastNumber
<1>8. PICK i \in DOMAIN G : n = L - i /\ p <= G[i].place
  BY <1>7
<1>9. CASE G[i].place = p
  BY <1>9 DEF p
<1>10. CASE G[i].place # p
  <2>1. G[i].place > p /\ G[i].place < id /\ G[i].place \in Nat
    BY <1>1, <1>2, <1>8, <1>10
  <2>2. G[i].place \in (p + 1)..(id - 1)
    BY <1>2, <2>1
  <2>3. i # L
    BY <1>2, <1>4, <2>1
  <2>4. i + 1 \in DOMAIN G /\ p <= G[i + 1].place
    BY <1>2, <1>3, <1>4, <1>5, <2>2, <2>3
  <2>5. n - 1 \in S
    BY <1>1, <1>8, <2>3, <2>4
  <2>. QED
    BY <1>7, <2>5
<1>. QED
  BY <1>9, <1>10

\* The requests that come into a router came into the one it is mounted in.
LEMMA OuterReached ==
  ASSUME NEW a, NEW R, World(a, R), NEW q, NEW p \in DOMAIN a, Inside(a, q)[p].reached
  PROVE  Inside(a, q)[a[p].at].reached
<1>. DEFINE I == Inside(a, q)
            outer == I[a[p].at]
<1>. SUFFICES outer.reached
  OBVIOUS
<1>1. a \in Seq(Registration) /\ InPlace(a)
  BY DEF World
<1>2. \A m \in DOMAIN a : I[m] = Reached(a, q, I, m)
  BY <1>1, InsideRight
<1>3. p # 0
  BY <1>1, Placed
<1>4. I[p] = Reached(a, q, I, p) /\ I[p].reached
  BY <1>2
<1>. HIDE DEF I
<1>5. CASE a[p].kind = "router"
  <2>1. I[p] = [reached |-> outer.reached /\ MatchesPrefix(a[p].pattern, outer.path),
                path |-> Consumed(a[p].pattern, outer.path)]
    BY <1>3, <1>4, <1>5 DEF Reached
  <2>2. I[p].reached = (outer.reached /\ MatchesPrefix(a[p].pattern, outer.path))
    BY <2>1
  <2>. QED
    BY <1>4, <2>2, Zenon
<1>6. CASE a[p].kind # "router"
  <2>1. I[p] = [reached |-> outer.reached /\ a[p].kind = "scope" /\ q.host, path |-> outer.path]
    BY <1>3, <1>4, <1>6 DEF Reached
  <2>2. I[p].reached = (outer.reached /\ a[p].kind = "scope" /\ q.host)
    BY <2>1
  <2>. QED
    BY <1>4, <2>2, Zenon
<1>. QED
  BY <1>5, <1>6

LEMMA Covered ==
  ASSUME NEW a, NEW R, World(a, R), NEW q, NEW G, StackRight(a, R, q, G), G # <<>>,
         NEW x \in Nat, G[1].place <= x,
         \A k \in DOMAIN a : (a[k].at = G[1].place /\ x < k) => k \in Ahead(R, G),
         \A k \in DOMAIN a : (x < k /\ Inside(a, q)[a[k].at].reached /\ G[1].place < a[k].at) => x < a[k].at,
         NEW id \in DOMAIN a, x < id, Inside(a, q)[a[id].at].reached
  PROVE  \E j \in Ahead(R, G) : j <= id
<1>. DEFINE Bad == {k \in DOMAIN a : x < k /\ Inside(a, q)[a[k].at].reached /\ ~ \E j \in Ahead(R, G) : j <= k}
<1>. SUFFICES ASSUME Bad # {} PROVE FALSE
  OBVIOUS
<1>1. \A k \in DOMAIN a : k \in Nat /\ a[k].at \in Nat /\ a[k].at < k /\ (a[k].at > 0 => a[k].at \in DOMAIN a)
  BY Placed DEF World
<1>2. Bad \in SUBSET Nat
  BY <1>1
<1>3. PICK k \in Bad : \A l \in Bad : k <= l
  BY <1>2, LeastNumber
<1>. DEFINE p == a[k].at
<1>4. k \in DOMAIN a /\ x < k /\ Inside(a, q)[p].reached /\ k \in Nat /\ p \in Nat /\ p < k
      /\ \A j \in Ahead(R, G) : ~(j <= k)
  BY <1>1, <1>3
<1>5. /\ Len(G) \in Nat /\ DOMAIN G = 1..Len(G) /\ 1 \in DOMAIN G
      /\ \A i \in DOMAIN G : G[i].place \in Nat /\ G[i].place \in 0..Len(a) /\ G[i].index \in Nat \ {0}
                             /\ G[i].place <= G[1].place
  BY Places
<1>6. CASE p <= G[1].place
  <2>1. G[1].place < k
    BY <1>4, <1>5
  <2>2. PICK i \in DOMAIN G : G[i].place = p
    BY <1>4, <1>6, <2>1, OnStack
  <2>3. CASE i = 1
    <3>1. k \in Ahead(R, G)
      BY <1>4, <2>2, <2>3
    <3>. QED
      BY <1>4, <3>1
  <2>4. CASE i # 1
    <3>. DEFINE f == G[i]
    <3>1. f.place \in 0..Len(a) /\ f.index \in Nat \ {0} /\ a[k].at = f.place
      BY <1>5, <2>2
    <3>2. \A n \in 1..(f.index - 1) : R[f.place].layers[n].id <= G[i - 1].place
      <4>1. i - 1 \in DOMAIN G /\ i = (i - 1) + 1
        BY <1>5, <2>4
      <4>. QED
        BY <4>1 DEF StackRight
    <3>3. G[i - 1].place < k
      <4>1. i - 1 \in DOMAIN G
        BY <1>5, <2>4
      <4>. QED
        BY <1>4, <1>5, <4>1
    <3>4. f = G[i]
      OBVIOUS
    <3>. HIDE DEF f
    <3>5. \/ k \in Pending(R, f)
          \/ \E n \in 1..(f.index - 1) : n \in DOMAIN R[f.place].layers /\ R[f.place].layers[n].id = k
      BY <1>4, <3>1, PendingRight
    <3>6. G[i - 1].place \in Nat
      <4>1. i - 1 \in DOMAIN G
        BY <1>5, <2>4
      <4>. QED
        BY <1>5, <4>1
    <3>7. k \in Pending(R, f)
      BY <1>4, <3>2, <3>3, <3>5, <3>6
    <3>8. k \in Ahead(R, G)
      BY <3>4, <3>7 DEF Ahead
    <3>. QED
      BY <1>4, <3>8
  <2>. QED
    BY <2>3, <2>4
<1>7. CASE ~(p <= G[1].place)
  <2>1. G[1].place < p
    BY <1>4, <1>5, <1>7
  <2>2. x < p /\ p \in DOMAIN a
    BY <1>1, <1>4, <1>5, <2>1
  <2>3. Inside(a, q)[a[p].at].reached
    BY <1>4, <2>2, OuterReached
  <2>4. p \notin Bad
    BY <1>3, <1>4
  <2>5. PICK j \in Ahead(R, G) : j <= p
    BY <2>2, <2>3, <2>4
  <2>6. j \in Nat
    BY AheadRight
  <2>7. j <= k
    BY <1>4, <2>5, <2>6
  <2>. QED
    BY <1>4, <2>7
<1>. QED
  BY <1>6, <1>7

(***************************************************************************)
(* The stack of the walk                                                   *)
(***************************************************************************)
LEMMA InsideMount ==
  ASSUME NEW a, NEW R, World(a, R), NEW q, NEW m \in DOMAIN a, NEW I, I = Inside(a, q), NEW outer, outer = I[a[m].at]
  PROVE  /\ a[m].kind = "router" =>
              /\ I[m].reached <=> outer.reached /\ MatchesPrefix(a[m].pattern, outer.path)
              /\ I[m].path = Consumed(a[m].pattern, outer.path)
         /\ a[m].kind = "scope" =>
              /\ I[m].reached <=> outer.reached /\ q.host
              /\ I[m].path = outer.path
<1>1. a \in Seq(Registration) /\ InPlace(a)
  BY DEF World
<1>2. \A n \in DOMAIN a : I[n] = Reached(a, q, I, n)
  BY <1>1, InsideRight
<1>3. m # 0
  BY <1>1, Placed
<1>4. I[m] = Reached(a, q, I, m)
  BY <1>2
<1>5. ASSUME a[m].kind = "router"
      PROVE  /\ I[m].reached <=> outer.reached /\ MatchesPrefix(a[m].pattern, outer.path)
             /\ I[m].path = Consumed(a[m].pattern, outer.path)
  <2>1. I[m] = [reached |-> outer.reached /\ MatchesPrefix(a[m].pattern, outer.path),
                path |-> Consumed(a[m].pattern, outer.path)]
    BY <1>3, <1>4, <1>5 DEF Reached
  <2>2. I[m].reached = (outer.reached /\ MatchesPrefix(a[m].pattern, outer.path))
    BY <2>1
  <2>3. I[m].path = Consumed(a[m].pattern, outer.path)
    BY <2>1
  <2>. QED
    BY <2>2, <2>3, Zenon
<1>6. ASSUME a[m].kind = "scope"
      PROVE  /\ I[m].reached <=> outer.reached /\ q.host
             /\ I[m].path = outer.path
  <2>1. I[m] = [reached |-> outer.reached /\ a[m].kind = "scope" /\ q.host, path |-> outer.path]
    BY <1>3, <1>4, <1>6 DEF Reached
  <2>2. I[m].reached = (outer.reached /\ a[m].kind = "scope" /\ q.host)
    BY <2>1
  <2>3. I[m].path = outer.path
    BY <2>1
  <2>. QED
    BY <1>6, <2>2, <2>3, Zenon
<1>. QED
  BY <1>5, <1>6

Stacked(F) == StackRight(app, routers, request, F)
Left(F) == Ahead(routers, F)

Past(F, G, id) == PastOf(app, routers, request, F, G, id)

LEMMA NextFrame ==
  ASSUME NEW f \in Frame, NEW keys \in SUBSET Names
  PROVE  Advanced([f EXCEPT !.index = @ + 1], f) /\ Advanced([f EXCEPT !.index = @ + 1, !.keys = keys], f)
<1>. DEFINE g1 == [f EXCEPT !.index = @ + 1]
            g2 == [g1 EXCEPT !.keys = keys]
<1>1. g1 = [place |-> f.place, index |-> f.index + 1, base |-> f.base, keys |-> f.keys, path |-> f.path]
  BY DEF Frame
<1>2. g1 \in Frame /\ g1.place = f.place /\ g1.index = f.index + 1 /\ g1.path = f.path
  <2>1. f.index + 1 \in Nat \ {0}
    BY DEF Frame
  <2>. QED
    BY <1>1, <2>1 DEF Frame
<1>3. [f EXCEPT !.index = @ + 1, !.keys = keys] = g2
  BY DEF Frame
<1>. HIDE DEF g1
<1>4. g2 \in Frame /\ g2.place = f.place /\ g2.index = f.index + 1 /\ g2.path = f.path
  BY <1>2 DEF Frame
<1>5. Advanced(g1, f) /\ Advanced(g2, f)
  BY <1>2, <1>4 DEF Advanced
<1>. QED
  BY <1>3, <1>5 DEF g1

LEMMA BehindPast ==
  ASSUME TypeOK, AtLayer, Stacked(walk.frames), NEW keys \in SUBSET Names
  PROVE  Past(walk.frames, Behind, Layer.id) /\ Past(walk.frames, BehindWith(keys), Layer.id)
<1>. DEFINE F == walk.frames
            f == Top
            G == Others
            g1 == [Top EXCEPT !.index = @ + 1]
            g2 == [Top EXCEPT !.index = @ + 1, !.keys = keys]
            R == routers
<1>1. World(app, R) /\ F # <<>> /\ Top \in Frame /\ G \in Seq(Frame) /\ Top.index <= Len(Layers)
  BY LayerRight DEF TypeOK, AtLayer
<1>2. f = F[1] /\ f.index <= Len(R[f.place].layers) /\ G = Tail(F) /\ StackRight(app, R, request, F)
  BY <1>1 DEF Top, Others, Layers, Stacked
<1>3. Advanced(g1, f) /\ Advanced(g2, f)
  BY <1>1, NextFrame
<1>5. Behind = <<g1>> \o G /\ BehindWith(keys) = <<g2>> \o G
  BY DEF Behind, BehindWith
<1>6. Here(R, f) = Layer.id
  BY DEF Here, Layer, Layers
<1>. DEFINE id == Layer.id
<1>. HIDE DEF g1, g2, f, G, F, R, id
<1>7. ASSUME NEW g, Advanced(g, f)
      PROVE  Past(F, <<g>> \o G, id)
  <2>1. id = Here(R, f)
    BY <1>6 DEF id
  <2>2. PastOf(app, R, request, F, <<g>> \o G, id)
    BY <1>1, <1>2, <1>7, <2>1, StackBehind
  <2>. QED
    BY <2>2 DEF Past, R
<1>8. Past(F, <<g1>> \o G, id) /\ Past(F, <<g2>> \o G, id)
  BY <1>3, <1>7
<1>. QED
  BY <1>5, <1>8 DEF F, id

LEMMA EnteredFrame ==
  ASSUME TypeOK, AtLayer, Enters, Stacked(walk.frames)
  PROVE  FrameRight(app, routers, request, Entered) /\ Entered.index = 1 /\ app[Layer.id].kind \in Mounts
<1>. DEFINE a == app
            q == request
            m == Layer.id
            I == Inside(app, request)
            outer == I[Top.place]
            e == Entered
<1>1. /\ Top \in Frame /\ Layer.id \in DOMAIN app /\ Layer.id \in 0..Len(app)
      /\ app[Layer.id].at = Top.place /\ Layer.kind = app[Layer.id].kind /\ Layer.pattern = app[Layer.id].pattern
      /\ Layer.pattern \in Seq(Segment)
      /\ World(app, routers)
  BY LayerRight DEF TypeOK
<1>2. FrameRight(app, routers, request, Top)
  BY StackPopped DEF Stacked, AtLayer, Top
<1>3. outer.reached /\ outer.path = Top.path /\ (EmptySegment(Top.path) => EmptySegment(request.path))
      /\ Top.path \in Seq(Names) /\ Top.path # <<>>
  BY <1>1, <1>2 DEF FrameRight, Frame
<1>4. Entered \in Frame /\ Entered.place = m
  BY EnteredRight
<1>5. Len(routers[m].layers) \in Nat
  BY <1>1, LayersOf DEF LayersKnown
<1>6. /\ app[m].kind = "router" =>
              /\ I[m].reached <=> outer.reached /\ MatchesPrefix(app[m].pattern, outer.path)
              /\ I[m].path = Consumed(app[m].pattern, outer.path)
      /\ app[m].kind = "scope" =>
              /\ I[m].reached <=> outer.reached /\ request.host
              /\ I[m].path = outer.path
  <2>1. World(a, routers) /\ m \in DOMAIN a /\ I = Inside(a, q) /\ outer = I[a[m].at]
    BY <1>1
  <2>. HIDE DEF a, q, m, I, outer
  <2>2. /\ a[m].kind = "router" =>
              /\ I[m].reached <=> outer.reached /\ MatchesPrefix(a[m].pattern, outer.path)
              /\ I[m].path = Consumed(a[m].pattern, outer.path)
        /\ a[m].kind = "scope" =>
              /\ I[m].reached <=> outer.reached /\ q.host
              /\ I[m].path = outer.path
    BY <2>1, InsideMount
  <2>. QED
    BY <2>2 DEF a, q
<1>7. CASE Layer.kind = "scope" /\ request.host
  <2>1. Entered.index = 1 /\ Entered.path = Top.path
    BY <1>1, <1>7 DEF Entered, Frame
  <2>2. I[m].reached /\ I[m].path = Top.path
    BY <1>1, <1>3, <1>6, <1>7
  <2>. HIDE DEF I, outer
  <2>3. FrameRight(app, routers, request, Entered)
    BY <1>1, <1>3, <1>4, <1>5, <2>1, <2>2 DEF FrameRight, I
  <2>. QED
    BY <1>1, <1>7, <2>1, <2>3 DEF Mounts
<1>8. CASE Layer.kind = "router" /\ MatchesPrefix(Layer.pattern, Top.path)
  <2>1. Entered.index = 1 /\ Entered.path = Consumed(Layer.pattern, Top.path)
    BY <1>8 DEF Entered
  <2>2. I[m].reached /\ I[m].path = Entered.path
    BY <1>1, <1>3, <1>6, <1>8, <2>1
  <2>3. EmptySegment(Entered.path) => EmptySegment(request.path)
    BY <1>1, <1>3, <2>1, ConsumedRight
  <2>4. FrameRight(app, routers, request, Entered)
    BY <1>1, <1>4, <1>5, <2>1, <2>2, <2>3 DEF FrameRight
  <2>. QED
    BY <1>1, <1>8, <2>1, <2>4 DEF Mounts
<1>. QED
  BY <1>7, <1>8 DEF Enters

(***************************************************************************)
(* The stacks that the steps of the walk make, and the calls               *)
(***************************************************************************)
LEMMA EnterStack ==
  ASSUME TypeOK, AtLayer, Enters, Stacked(walk.frames)
  PROVE  Opened(app, routers, request, Entered, Behind, Layer.id)
<1>. DEFINE f == Entered
            G == Behind
            m == Layer.id
<1>1. Past(walk.frames, G, m)
  <2>1. {} \in SUBSET Names
    OBVIOUS
  <2>. QED
    BY <2>1, BehindPast
<1>2. FrameRight(app, routers, request, f) /\ f.index = 1
  BY EnteredFrame
<1>3. World(app, routers) /\ m \in DOMAIN app /\ m = f.place
  BY LayerRight, EnteredRight DEF TypeOK
<1>. HIDE DEF f, G, m
<1>4. /\ StackRight(app, routers, request, G)
      /\ G # <<>>
      /\ \A j \in Ahead(routers, G) : m < j
      /\ app[m].at = G[1].place
      /\ \A k \in 1..(G[1].index - 1) : routers[G[1].place].layers[k].id <= m
  BY <1>1 DEF Past, PastOf
<1>5. Opened(app, routers, request, f, G, m)
  BY <1>2, <1>3, <1>4, StackEntered
<1>. QED
  BY <1>5 DEF f, G, m

LEMMA LeaveStack ==
  ASSUME TypeOK, LeaveRouter, Stacked(walk.frames)
  PROVE  Stacked(Others) /\ Left(Others) = Left(walk.frames)
<1>. DEFINE F == walk.frames
            f == Top
            G == Others
<1>1. F # <<>> /\ f = F[1] /\ G = Tail(F) /\ Top.index > Len(Layers)
  BY DEF LeaveRouter, Top, Others
<1>2. FrameRight(app, routers, request, f) /\ StackRight(app, routers, request, G)
  BY <1>1, StackPopped DEF Stacked
<1>3. F \in Seq(Frame) /\ f \in Frame /\ G \in Seq(Frame)
  BY <1>2 DEF Stacked, StackRight, FrameRight
<1>4. F = <<f>> \o G
  BY <1>1, <1>3, Whole
<1>5. Pending(routers, f) = {}
  <2>1. f.place \in 0..Len(app) /\ f.index \in Nat \ {0} /\ f.index > Len(routers[f.place].layers)
    BY <1>1, <1>2 DEF FrameRight, Frame, Layers
  <2>2. Len(routers[f.place].layers) \in Nat
    BY <2>1, LayersOf DEF LayersKnown, TypeOK
  <2>3. f.index..Len(routers[f.place].layers) = {}
    BY <2>1, <2>2
  <2>. QED
    BY <2>3 DEF Pending
<1>. HIDE DEF f, G
<1>6. Ahead(routers, <<f>> \o G) = Pending(routers, f) \cup Ahead(routers, G)
  BY <1>3, AheadOf
<1>7. Left(G) = Left(F) /\ Stacked(G)
  BY <1>2, <1>4, <1>5, <1>6 DEF Left, Stacked
<1>. QED
  BY <1>7 DEF G

\* The stack of a request that arrives.
Arrived(a, R, q, f) ==
  /\ FrameRight(a, R, q, f)
  /\ StackRight(a, R, q, <<>>)
  /\ Ahead(R, <<>>) = {}
  /\ StackRight(a, R, q, <<f>> \o <<>>)
  /\ \A k \in DOMAIN a : a[k].at = 0 => k \in Ahead(R, <<f>> \o <<>>)

LEMMA ArriveStack ==
  ASSUME NEW a, NEW R, World(a, R), NEW q, q.path \in Seq(Names), q.path # <<>>,
         NEW f, f \in Frame, f = TopFrame(q.path)
  PROVE  Arrived(a, R, q, f)
<1>1. f.place = 0 /\ f.index = 1 /\ f.path = q.path
  BY DEF TopFrame
<1>2. Inside(a, q)[0].reached /\ Inside(a, q)[0].path = q.path
  <2>1. a \in Seq(Registration) /\ InPlace(a)
    BY DEF World
  <2>2. Inside(a, q)[0] = [reached |-> TRUE, path |-> q.path]
    BY <2>1, InsideRight
  <2>. QED
    BY <2>2
<1>3. 0 \in 0..Len(a)
  <2>1. Len(a) \in Nat
    BY LenProperties DEF World
  <2>. QED
    BY <2>1
<1>4. LayersKnown(a, 0, R[0].layers)
  BY <1>3, LayersOf
<1>5. FrameRight(a, R, q, f)
  <2>1. 1 <= Len(R[0].layers) + 1
    BY <1>4 DEF LayersKnown
  <2>. QED
    BY <1>1, <1>2, <1>3, <2>1 DEF FrameRight
<1>. DEFINE E == <<>>
<1>6. E \in Seq(Frame) /\ DOMAIN E = {} /\ E = <<>>
  BY EmptySeq
<1>. HIDE DEF E
<1>7. StackRight(a, R, q, E)
  BY <1>6 DEF StackRight
<1>8. Ahead(R, E) = {}
  BY <1>6 DEF Ahead
<1>9. Above(a, R, f, E)
  BY <1>1, <1>6, <1>8 DEF Above
<1>10. StackRight(a, R, q, <<f>> \o E)
  BY <1>1, <1>5, <1>7, <1>9, StackPushed
<1>11. Ahead(R, <<f>> \o E) = Pending(R, f) \cup Ahead(R, E)
  BY <1>6, AheadOf
<1>12. ASSUME NEW k \in DOMAIN a, a[k].at = 0 PROVE k \in Pending(R, f)
  <2>1. f.place \in 0..Len(a) /\ f.index \in Nat \ {0} /\ a[k].at = f.place
    BY <1>1, <1>3, <1>12
  <2>2. 1..(f.index - 1) = {}
    BY <1>1
  <2>. QED
    BY <2>1, <2>2, PendingRight
<1>. QED
  BY <1>5, <1>6, <1>7, <1>8, <1>10, <1>11, <1>12 DEF Arrived

(***************************************************************************)
(* What a call is made with                                                *)
(***************************************************************************)
LEMMA LayerSuits ==
  ASSUME TypeOK, AtLayer, Takes, Stacked(walk.frames), NEW keys, OwnKeys \subseteq keys, NEW direct
  PROVE  Suits(app, request, Layer.id, direct, keys)
<1>. DEFINE id == Layer.id
            l == Layer
            r == app[Layer.id]
            I == Inside(app, request)
<1>1. /\ id \in DOMAIN app /\ r.at = Top.place /\ l.kind = r.kind /\ l.method = r.method
      /\ l.pattern = r.pattern /\ l.pattern \in Seq(Segment)
      /\ World(app, routers)
  BY LayerRight DEF TypeOK
<1>2. FrameRight(app, routers, request, Top)
  BY StackPopped DEF Stacked, AtLayer, Top
<1>3. I[r.at].reached /\ I[r.at].path = Top.path
  BY <1>1, <1>2 DEF FrameRight
<1>4. l.kind \in {"route", "use", "static", "ws"}
  BY DEF Takes
<1>5. r.kind \notin Mounts
  BY <1>1, <1>4 DEF Mounts
<1>6. Admits(r, request.method, Top.path)
  <2>1. CASE request.method = "UPGRADE"
    BY <1>1, <2>1 DEF Takes, Admits
  <2>2. CASE request.method # "UPGRADE"
    BY <1>1, <2>2 DEF Takes, Admits
  <2>. QED
    BY <2>1, <2>2
<1>7. NamedKeys(r.pattern) \subseteq keys \/ Everything(r.pattern)
  <2>1. CASE l.kind \in {"route", "ws"}
    BY <1>1, <2>1 DEF OwnKeys, Keys
  <2>2. CASE l.kind = "use"
    BY <1>1, <2>2 DEF OwnKeys, PrefixKeys
  <2>3. CASE l.kind = "static"
    <3>1. InPlace(app) /\ r.kind = "static"
      BY <1>1, <2>3 DEF World
    <3>2. \A i \in DOMAIN r.pattern : r.pattern[i].kind = "static"
      BY <1>1, <3>1 DEF InPlace
    <3>3. DOMAIN Cut(r.pattern) \subseteq DOMAIN r.pattern
      <4>. DEFINE p == r.pattern
      <4>1. p \in Seq(Segment)
        BY <1>1
      <4>2. Len(p) \in Nat /\ DOMAIN p = 1..Len(p)
        BY <4>1, LenProperties
      <4>. HIDE DEF p
      <4>3. Len(Cut(p)) \in Nat /\ Len(Cut(p)) <= Len(p) /\ DOMAIN Cut(p) = 1..Len(Cut(p))
        BY <4>1, CutRight
      <4>4. DOMAIN Cut(p) \subseteq DOMAIN p
        BY <4>2, <4>3
      <4>. QED
        BY <4>4 DEF p
    <3>. QED
      BY <3>2, <3>3 DEF NamedKeys
  <2>. QED
    BY <1>4, <2>1, <2>2, <2>3
<1>. QED
  BY <1>1, <1>3, <1>5, <1>6, <1>7 DEF Suits

\* The call of a layer's handler.
LEMMA HandledCall ==
  ASSUME TypeOK, AtLayer, Takes, Stacked(walk.frames), NEW late, walk.error = "undefined" => late,
         NEW h \in CallRecord, Handles(h)
  PROVE  CallRight(app, routers, request, h, late)
<1>. DEFINE keys == Top.keys \cup OwnKeys
<1>1. keys \in SUBSET Names
  <2>1. Top \in Frame /\ Layer.pattern \in Seq(Segment)
    BY LayerRight
  <2>2. Top.keys \in SUBSET Names
    BY <2>1 DEF Frame
  <2>3. Keys(Layer.pattern) \in SUBSET Names /\ PrefixKeys(Layer.pattern) \in SUBSET Names
    BY <2>1, KeysAreNames
  <2>. QED
    BY <2>2, <2>3 DEF OwnKeys
<1>. HIDE DEF keys
<1>2. Past(walk.frames, BehindWith(keys), Layer.id)
  BY <1>1, BehindPast
<1>3. h.rest = BehindWith(keys) /\ h.scope.keys = keys /\ h.handler = Layer.id /\ ~h.direct
      /\ h.errors = (Layer.errors /\ walk.error # "undefined")
  BY DEF Handles, keys
<1>4. Suits(app, request, Layer.id, h.direct, keys)
  BY LayerSuits DEF keys
<1>5. StackRight(app, routers, request, h.rest) /\ Beyond(routers, h.rest, h.handler)
  BY <1>2, <1>3 DEF Past, PastOf, Beyond
<1>6. h.errors = app[h.handler].errors \/ late
  <2>1. Layer.errors = app[Layer.id].errors /\ Layer.errors \in BOOLEAN
    BY LayerRight DEF LayerRecord
  <2>2. CASE walk.error = "undefined"
    BY <2>2
  <2>3. CASE walk.error # "undefined"
    <3>1. h.errors = Layer.errors
      BY <1>3, <2>1, <2>3, Zenon
    <3>. QED
      BY <1>3, <2>1, <3>1
  <2>. QED
    BY <2>2, <2>3
<1>. QED
  BY <1>3, <1>4, <1>5, <1>6 DEF CallRight

\* A route of the router m that the request may be given.
Chosen(a, q, id, keys, m) ==
  Suits(a, q, id, TRUE, keys) /\ ~a[id].errors /\ a[id].at = m /\ id \in DOMAIN a /\ id \in Nat

\* The routes that a tree finds.
LEMMA FoundSuits ==
  ASSUME NEW a, NEW R, World(a, R), NEW q, q.method # "UPGRADE", NEW f, FrameRight(a, R, q, f),
         NEW m, m = f.place, NEW path, path = f.path,
         NEW method, method = q.method, NEW id, NEW K, FoundRoute(a, m, method, path, id, K),
         NEW keys, K \subseteq keys
  PROVE  Chosen(a, q, id, keys, m)
<1>1. /\ id \in DOMAIN a
      /\ a[id].at = m
      /\ a[id].kind = "route"
      /\ MethodMatches(a[id].method, method)
      /\ Matches(a[id].pattern, path) \/ EmptySegment(path)
  BY DEF FoundRoute
<1>2. Inside(a, q)[m].reached /\ path = Inside(a, q)[m].path /\ (EmptySegment(path) => EmptySegment(q.path))
  BY DEF FrameRight
<1>3. ~a[id].errors /\ id \in Nat
  <2>1. id \in Nat /\ InPlace(a)
    BY <1>1, Placed DEF World
  <2>. QED
    BY <1>1, <2>1 DEF InPlace
<1>4. a[id].kind \notin Mounts
  BY <1>1 DEF Mounts
<1>5. \/ Inside(a, q)[a[id].at].reached /\ Admits(a[id], q.method, Inside(a, q)[a[id].at].path)
      \/ EmptySegment(q.path)
  BY <1>1, <1>2 DEF Admits
<1>6. \/ NamedKeys(a[id].pattern) \subseteq keys
      \/ \E other \in DOMAIN a, i \in Nodes(a[id].pattern) :
             /\ other # id
             /\ a[other].kind \notin Mounts
             /\ a[other].at = a[id].at
             /\ i \in Nodes(a[other].pattern)
             /\ SubSeq(Shape(a[other].pattern), 1, i) = SubSeq(Shape(a[id].pattern), 1, i)
  <2>1. CASE NamedKeys(a[id].pattern) \subseteq K
    BY <2>1
  <2>2. CASE ~(NamedKeys(a[id].pattern) \subseteq K)
    <3>1. PICK other \in DOMAIN a, i \in Nodes(a[id].pattern) :
             /\ other # id
             /\ a[other].kind = "route"
             /\ a[other].at = m
             /\ i \in Nodes(a[other].pattern)
             /\ SubSeq(Shape(a[other].pattern), 1, i) = SubSeq(Shape(a[id].pattern), 1, i)
      BY <2>2 DEF FoundRoute
    <3>2. a[other].kind \notin Mounts
      BY <3>1 DEF Mounts
    <3>. QED
      BY <1>1, <3>1, <3>2
  <2>. QED
    BY <2>1, <2>2
<1>. QED
  BY <1>1, <1>3, <1>4, <1>5, <1>6 DEF Suits, Chosen

\* What dispatchDirectRoute calls one after the other.
Line(h, id) == id = h.handler \/ \E i \in DOMAIN h.others : id = h.others[i]

\* A direct call, of the routes that the tree of the router f is at found.
Founds(a, R, q, f, h) ==
  /\ h.direct
  /\ ~h.errors
  /\ h.others \in Seq(Nat)
  /\ \A id : Line(h, id) => Chosen(a, q, id, h.scope.keys, f.place)
  /\ \A i \in DOMAIN h.others : h.handler < h.others[i]
  /\ \A i, j \in DOMAIN h.others : i < j => h.others[i] < h.others[j]

LEMMA FoundIs ==
  ASSUME TypeOK, NEW q, NEW f, FrameRight(app, routers, q, f), NEW method, method = q.method,
         NEW h, FoundBy(h, f, method)
  PROVE  Founds(app, routers, q, f, h)
<1>. DEFINE a == app
            R == routers
            path == f.path
            m == f.place
            keys == h.scope.keys
<1>1. h.direct /\ ~h.errors /\ q.method # "UPGRADE" /\ World(a, R) /\ FrameRight(a, R, q, f)
      /\ m = f.place /\ path = f.path
  BY DEF FoundBy, TypeOK
<1>2. PICK match : /\ FoundMatch(a, m, method, path, match)
                   /\ h.handler = Head(match.handlers)
                   /\ h.others = Tail(match.handlers)
                   /\ match.keys \subseteq keys
  BY DEF FoundBy
<1>. DEFINE H == match.handlers
            K == match.keys
<1>3. /\ H \in Seq(Nat) /\ H # <<>>
      /\ \A k \in DOMAIN H : FoundRoute(a, m, method, path, H[k], K)
      /\ \A j, k \in DOMAIN H : j < k => H[j] < H[k]
      /\ h.handler = Head(H) /\ h.others = Tail(H) /\ K \subseteq keys
  BY <1>2 DEF FoundMatch
<1>. HIDE DEF H, K, a, R, path, m
<1>4. /\ Len(H) \in Nat /\ Len(H) >= 1 /\ DOMAIN H = 1..Len(H) /\ 1 \in DOMAIN H
      /\ Head(H) = H[1]
      /\ Tail(H) \in Seq(Nat)
      /\ DOMAIN Tail(H) = 1..(Len(H) - 1)
      /\ \A i \in 1..(Len(H) - 1) : Tail(H)[i] = H[i + 1]
  BY <1>3, Popped
<1>5. ASSUME NEW id, Line(h, id)
      PROVE  Chosen(a, q, id, keys, m)
  <2>1. PICK k \in DOMAIN H : id = H[k]
    <3>1. CASE id = h.handler
      BY <1>3, <1>4, <3>1
    <3>2. ASSUME NEW i \in DOMAIN h.others, id = h.others[i] PROVE \E k \in DOMAIN H : id = H[k]
      <4>1. i + 1 \in DOMAIN H /\ id = H[i + 1]
        BY <1>3, <1>4, <3>2
      <4>. QED
        BY <4>1
    <3>. QED
      BY <1>5, <3>1, <3>2 DEF Line
  <2>2. FoundRoute(a, m, method, path, id, K)
    BY <1>3, <2>1
  <2>. HIDE DEF keys
  <2>. QED
    BY <1>1, <1>3, <2>2, FoundSuits
<1>6. \A i \in DOMAIN h.others : h.handler < h.others[i]
  BY <1>3, <1>4
<1>7. \A i, j \in DOMAIN h.others : i < j => h.others[i] < h.others[j]
  BY <1>3, <1>4
<1>8. h.others \in Seq(Nat)
  BY <1>3, <1>4
<1>. QED
  BY <1>1, <1>5, <1>6, <1>7, <1>8 DEF Founds, a, m

LEMMA ErrorsAre ==
  ASSUME NEW a, NEW R, World(a, R), NEW q, NEW h \in CallRecord, NEW direct, NEW keys, Suits(a, q, h.handler, direct, keys),
         ~h.errors, ~a[h.handler].errors
  PROVE  h.errors = a[h.handler].errors
<1>1. a[h.handler] \in Registration
  BY Placed DEF World, Suits
<1>. QED
  BY <1>1 DEF Registration, CallRecord

LEMMA FoundCall ==
  ASSUME NEW a, NEW R, World(a, R), NEW q, NEW f, NEW h \in CallRecord, Founds(a, R, q, f, h), NEW late,
         StackRight(a, R, q, h.rest),
         \A k \in DOMAIN a, l \in Ahead(R, h.rest) : a[k].at = f.place => k < l
  PROVE  CallRight(a, R, q, h, late)
<1>1. \A id : Line(h, id) =>
       Suits(a, q, id, TRUE, h.scope.keys) /\ ~a[id].errors /\ Beyond(R, h.rest, id)
  BY DEF Founds, Beyond, Chosen
<1>2. Line(h, h.handler) /\ \A i \in DOMAIN h.others : Line(h, h.others[i])
  BY DEF Line
<1>3. h.direct /\ ~h.errors
  BY DEF Founds
<1>4. Suits(a, q, h.handler, h.direct, h.scope.keys)
  BY <1>1, <1>2, <1>3 DEF Suits
<1>5. h.errors = a[h.handler].errors \/ late
  <2>1. ~h.errors /\ ~a[h.handler].errors
    BY <1>1, <1>2, <1>3
  <2>. QED
    BY <1>4, <2>1, ErrorsAre
<1>. QED
  BY <1>1, <1>2, <1>3, <1>4, <1>5 DEF CallRight, Founds

\* The call of the next route of an entry.
LEMMA HandedCall ==
  ASSUME NEW a, NEW R, World(a, R), NEW q, NEW g, NEW late, CallRight(a, R, q, g, late), g.direct,
         NEW others, others = g.others, others \in Seq(Nat), others # <<>>,
         NEW h \in CallRecord, h.handler = Head(others), h.others = Tail(others), h.direct, ~h.errors,
         h.rest = g.rest, h.scope = g.scope
  PROVE  CallRight(a, R, q, h, late) /\ g.handler < h.handler
<1>1. /\ Len(others) \in Nat /\ Len(others) >= 1 /\ DOMAIN others = 1..Len(others) /\ 1 \in DOMAIN others
      /\ Head(others) = others[1]
      /\ DOMAIN Tail(others) = 1..(Len(others) - 1)
      /\ \A i \in 1..(Len(others) - 1) : Tail(others)[i] = others[i + 1]
  BY Popped
<1>2. /\ StackRight(a, R, q, g.rest)
      /\ \A i \in DOMAIN others :
            /\ Suits(a, q, others[i], TRUE, g.scope.keys)
            /\ ~a[others[i]].errors
            /\ g.handler < others[i]
            /\ Beyond(R, g.rest, others[i])
      /\ \A i, j \in DOMAIN others : i < j => others[i] < others[j]
  BY DEF CallRight
<1>3. \A i \in DOMAIN h.others : i + 1 \in DOMAIN others /\ h.others[i] = others[i + 1] /\ 1 < i + 1 /\ i \in Nat
  BY <1>1
<1>4. h.handler = others[1]
  BY <1>1
<1>5. Suits(a, q, h.handler, h.direct, h.scope.keys)
  <2>1. Suits(a, q, h.handler, TRUE, h.scope.keys)
    BY <1>1, <1>2, <1>4
  <2>. QED
    BY <2>1 DEF Suits
<1>6. h.errors = a[h.handler].errors \/ late
  <2>1. ~h.errors /\ ~a[h.handler].errors
    BY <1>1, <1>2, <1>4
  <2>. QED
    BY <1>5, <2>1, ErrorsAre
<1>7. \A i \in DOMAIN h.others :
            /\ Suits(a, q, h.others[i], TRUE, h.scope.keys)
            /\ ~a[h.others[i]].errors
            /\ h.handler < h.others[i]
            /\ Beyond(R, h.rest, h.others[i])
  BY <1>1, <1>2, <1>3, <1>4
<1>8. ASSUME NEW i \in DOMAIN h.others, NEW j \in DOMAIN h.others, i < j PROVE h.others[i] < h.others[j]
  <2>1. i + 1 \in DOMAIN others /\ j + 1 \in DOMAIN others /\ i + 1 < j + 1
    BY <1>3, <1>8
  <2>. QED
    BY <1>2, <1>3, <2>1
<1>9. Beyond(R, h.rest, h.handler) /\ StackRight(a, R, q, h.rest) /\ g.handler < h.handler
  BY <1>1, <1>2, <1>4
<1>. QED
  BY <1>5, <1>6, <1>7, <1>8, <1>9 DEF CallRight

\* A call keeps what it was made with.
LEMMA SameCall ==
  ASSUME NEW a, NEW R, NEW q, NEW g, NEW late, CallRight(a, R, q, g, late), NEW h, Same(h, g),
         NEW later, late => later
  PROVE  CallRight(a, R, q, h, later)
BY DEF CallRight, Same

(***************************************************************************)
(* CallsRight                                                              *)
(***************************************************************************)
\* The calls there were, after a step.
OldCalls == \A c \in DOMAIN calls : CallRight(app', routers', request', calls'[c], FailedWithUndefined')

WalkRight ==
  /\ walk.on => StackRight(app, routers, request, walk.frames)
  /\ walk.error = "undefined" => FailedWithUndefined

LEMMA CallsSettle ==
  ASSUME Settles, Stays, CallsRight, PhasesRight
  PROVE  OldCalls
<1>. SUFFICES ASSUME NEW c \in DOMAIN calls
              PROVE  CallRight(app', routers', request', calls'[c], FailedWithUndefined')
  BY DEF OldCalls
<1>. DEFINE h == calls'[c]
            g == calls[c]
            late == FailedWithUndefined
            later == FailedWithUndefined'
<1>1. Same(h, g) /\ CallRight(app, routers, request, g, late)
  BY DEF Settles, CallsRight
<1>2. late => later
  BY FailureStays
<1>3. app' = app /\ routers' = routers /\ request' = request
  BY DEF Stays
<1>. HIDE DEF h, g, late, later
<1>4. CallRight(app, routers, request, h, later)
  BY <1>1, <1>2 DEF CallRight, Same
<1>. QED
  BY <1>3, <1>4 DEF h, later

LEMMA CallsBegin ==
  ASSUME OldCalls, NEW h, Begins(h), CallRight(app', routers', request', h, FailedWithUndefined')
  PROVE  CallsRight'
<1>1. /\ Len(calls) \in Nat /\ DOMAIN calls = 1..Len(calls)
      /\ DOMAIN calls' = 1..(Len(calls) + 1) /\ calls'[Len(calls) + 1] = h
  BY DEF Begins, Grows
<1>2. \A d \in DOMAIN calls' : d \in DOMAIN calls \/ d = Len(calls) + 1
  BY <1>1
<1>3. \A d \in DOMAIN calls' : CallRight(app', routers', request', calls'[d], FailedWithUndefined')
  BY <1>1, <1>2 DEF OldCalls
<1>4. ~walk'.on /\ walk'.error = None
  BY IdleFields DEF Begins
<1>. QED
  BY <1>3, <1>4 DEF CallsRight, None

LEMMA CallsWalk ==
  ASSUME OldCalls, DOMAIN calls' = DOMAIN calls, WalkRight'
  PROVE  CallsRight'
BY DEF OldCalls, CallsRight, WalkRight

LEMMA WalkIdle ==
  ASSUME walk' = Idle
  PROVE  WalkRight'
BY IdleFields DEF WalkRight, None

\* A call turns, and the walk goes on with what it left, or there is none.
LEMMA CallsTurn ==
  ASSUME TypeOK, Quiet, PhasesRight, CallsRight, Settles, Stays, NEW c \in DOMAIN calls,
         NEW p, NEW n, NEW e, Turns(c, p, n, e),
         \/ ~walk.on /\ walk' = walk
         \/ \E x, by, how : walk' = Walk(calls[c].rest, x, by, how) /\ (x = "undefined" => e = "undefined")
  PROVE  CallsRight'
<1>1. OldCalls /\ DOMAIN calls' = DOMAIN calls /\ calls'[c].error = e /\ c \in DOMAIN calls'
  BY CallsSettle DEF Turns, Alters
<1>2. CASE ~walk.on /\ walk' = walk
  <2>1. walk' = Idle
    BY <1>2 DEF Quiet
  <2>. QED
    BY <1>1, <2>1, CallsWalk, WalkIdle
<1>3. ASSUME NEW x, NEW by, NEW how, walk' = Walk(calls[c].rest, x, by, how), x = "undefined" => e = "undefined"
      PROVE  CallsRight'
  <2>1. walk'.frames = calls[c].rest /\ walk'.error = x
    BY <1>3, WalkFields
  <2>2. StackRight(app, routers, request, calls[c].rest)
    BY DEF CallsRight, CallRight
  <2>3. x = "undefined" => FailedWithUndefined'
    BY <1>1, <1>3 DEF FailedWithUndefined
  <2>4. WalkRight'
    BY <2>1, <2>2, <2>3 DEF WalkRight, Stays
  <2>. QED
    BY <1>1, <2>4, CallsWalk
<1>. QED
  BY <1>2, <1>3

LEMMA CallsPlain ==
  ASSUME TypeOK, Quiet, PhasesRight, CallsRight, Plain
  PROVE  CallsRight'
<1>1. Settles
  BY KindSettles DEF Kind
<1>2. CASE Rests
  <2>1. calls' = calls /\ walk' = walk /\ (FailedWithUndefined <=> FailedWithUndefined')
    BY <1>2 DEF Rests, FailedWithUndefined
  <2>2. CASE Stays
    <3>1. OldCalls
      BY <1>1, <2>2, CallsSettle
    <3>2. WalkRight'
      BY <2>1, <2>2 DEF CallsRight, WalkRight, Stays
    <3>. QED
      BY <2>1, <3>1, <3>2, CallsWalk
  <2>3. CASE ~Stays
    <3>1. calls = <<>> /\ walk' = Idle
      BY <1>2, <2>1, <2>3 DEF Rests, Quiet
    <3>2. DOMAIN calls = {}
      BY <3>1, EmptySeq
    <3>. QED
      BY <2>1, <3>1, <3>2, CallsWalk, WalkIdle DEF OldCalls
  <2>. QED
    BY <2>2, <2>3
<1>3. CASE Ends \/ Drops
  <2>1. Stays /\ calls' = calls /\ (walk' = Idle \/ (~walk.on /\ walk' = walk))
    BY <1>3 DEF Ends, Drops
  <2>2. walk' = Idle /\ OldCalls
    BY <1>1, <2>1, CallsSettle DEF Quiet
  <2>. QED
    BY <2>1, <2>2, CallsWalk, WalkIdle
<1>4. ASSUME NEW c \in DOMAIN calls,
             \/ Returns(c) \/ Sends(c) \/ Wakes(c)
             \/ \E e \in Errors : Asks(c, e)
      PROVE  CallsRight'
  <2>1. Stays /\ ~walk.on /\ walk' = walk /\ \E p, n, e : Turns(c, p, n, e)
    BY <1>4 DEF Returns, Sends, Wakes, Asks
  <2>. QED
    BY <1>1, <2>1, CallsTurn
<1>5. ASSUME NEW c \in DOMAIN calls, Done(c) PROVE CallsRight'
  <2>1. /\ Stays
        /\ Turns(c, "returned", calls[c].nexted, calls[c].error)
        /\ walk' = Walk(calls[c].rest, calls[c].error, calls[c].by, calls[c].how)
    BY <1>5 DEF Done
  <2>2. \/ ~walk.on /\ walk' = walk
        \/ \E x, by, how : walk' = Walk(calls[c].rest, x, by, how) /\ (x = "undefined" => calls[c].error = "undefined")
    BY <2>1
  <2>. QED
    BY <1>1, <2>1, <2>2, CallsTurn
<1>6. ASSUME NEW c \in DOMAIN calls, NEW e \in Errors, Breaks(c, e) PROVE CallsRight'
  <2>1. /\ Stays
        /\ Turns(c, "failed", calls[c].nexted, e)
        /\ walk' = Walk(calls[c].rest, e, calls[c].by, calls[c].how)
    BY <1>6 DEF Breaks
  <2>2. \/ ~walk.on /\ walk' = walk
        \/ \E x, by, how : walk' = Walk(calls[c].rest, x, by, how) /\ (x = "undefined" => e = "undefined")
    BY <2>1
  <2>. QED
    BY <1>1, <2>1, <2>2, CallsTurn
<1>7. ASSUME NEW c \in DOMAIN calls, NEW e \in Errors, NEW how \in Hows, Nexts(c, e, how) PROVE CallsRight'
  <2>1. /\ Stays /\ e # "undefined"
        /\ \E p : Turns(c, p, TRUE, calls[c].error)
        /\ walk' = Walk(calls[c].rest, e, c, how)
    BY <1>7 DEF Nexts, None
  <2>2. \/ ~walk.on /\ walk' = walk
        \/ \E x, by, w : walk' = Walk(calls[c].rest, x, by, w) /\ (x = "undefined" => calls[c].error = "undefined")
    BY <2>1
  <2>3. \E p, n : Turns(c, p, n, calls[c].error)
    BY <2>1
  <2>. QED
    BY <1>1, <2>1, <2>2, <2>3, CallsTurn
<1>8. ASSUME NEW c \in DOMAIN calls, NEW h, Passes(c, h) PROVE CallsRight'
  <2>. DEFINE g == calls[c]
              others == calls[c].others
              late == FailedWithUndefined'
  <2>1. /\ Stays /\ ~walk.on /\ walk' = walk /\ g.direct /\ others # <<>> /\ Hands(c, h)
    BY <1>8 DEF Passes
  <2>2. OldCalls
    BY <1>1, <2>1, CallsSettle
  <2>3. g \in CallRecord /\ others \in Seq(Nat) /\ World(app, routers) /\ Len(calls) \in Nat /\ DOMAIN calls = 1..Len(calls)
    BY CallTyped DEF CallRecord, TypeOK
  <2>4. CallRight(app, routers, request, g, late)
    <3>1. CallRight(app, routers, request, g, FailedWithUndefined)
      BY DEF CallsRight
    <3>2. FailedWithUndefined => FailedWithUndefined'
      BY <1>1, FailureStays
    <3>. HIDE DEF g
    <3>. QED
      BY <3>1, <3>2 DEF CallRight
  <2>5. h \in CallRecord /\ h.handler = Head(others) /\ h.others = Tail(others) /\ h.direct /\ ~h.errors
        /\ h.rest = g.rest /\ h.scope = g.scope
    BY <2>1 DEF Hands
  <2>. HIDE DEF late, g, others
  <2>6. others = g.others
    BY DEF g, others
  <2>7. CallRight(app, routers, request, h, late)
    BY <2>1, <2>3, <2>4, <2>5, <2>6, HandedCall
  <2>8. DOMAIN calls' = 1..(Len(calls) + 1) /\ calls'[Len(calls) + 1] = h
    BY <2>1 DEF Hands
  <2>9. \A d \in DOMAIN calls' : d \in DOMAIN calls \/ d = Len(calls) + 1
    BY <2>3, <2>8
  <2>10. CallRight(app', routers', request', h, FailedWithUndefined')
    BY <2>1, <2>7 DEF Stays, late
  <2>11. walk' = Idle
    BY <2>1 DEF Quiet
  <2>12. WalkRight'
    BY <2>11, WalkIdle
  <2>. QED
    BY <2>2, <2>8, <2>9, <2>10, <2>12 DEF OldCalls, WalkRight, CallsRight
<1>. QED
  BY <1>2, <1>3, <1>4, <1>5, <1>6, <1>7, <1>8 DEF Plain

LEMMA CallsRightKept ==
  ASSUME TypeOK, Quiet, PhasesRight, PromisesRight, CallsRight, Next
  PROVE  CallsRight'
<1>1. TypeOK' /\ Kind
  BY StepKind
<1>2. Settles
  BY <1>1, KindSettles
<1>3. World(app, routers)
  BY DEF TypeOK
<1>. DEFINE late == FailedWithUndefined'
<1>4. CASE PassLayer
  <2>1. /\ AtLayer /\ ~Enters /\ ~Takes /\ Stays /\ calls' = calls
        /\ walk' = Walk(Behind, walk.error, walk.by, walk.how)
    BY <1>4, PassLayerDoes DEF PassLayer, Stays
  <2>2. Stacked(walk.frames)
    BY <2>1 DEF CallsRight, Stacked, AtLayer
  <2>3. Past(walk.frames, Behind, Layer.id)
    <3>1. {} \in SUBSET Names
      OBVIOUS
    <3>. QED
      BY <2>1, <2>2, <3>1, BehindPast
  <2>4. WalkRight'
    <3>1. walk'.frames = Behind /\ walk'.error = walk.error
      BY <2>1, WalkFields
    <3>2. FailedWithUndefined => FailedWithUndefined'
      BY <1>2, FailureStays
    <3>3. StackRight(app, routers, request, Behind)
      BY <2>3 DEF Past, PastOf
    <3>. QED
      BY <2>1, <3>1, <3>2, <3>3 DEF WalkRight, CallsRight, Stays
  <2>. QED
    BY <1>2, <2>1, <2>4, CallsSettle, CallsWalk
<1>5. CASE LeaveRouter
  <2>1. /\ Stays /\ calls' = calls /\ walk.on
        /\ walk' = Walk(Others, walk.error, walk.by, walk.how)
    BY <1>5, LeaveRouterDoes DEF LeaveRouter, Stays
  <2>2. Stacked(walk.frames)
    BY <2>1 DEF CallsRight, Stacked
  <2>3. Stacked(Others)
    BY <1>5, <2>2, LeaveStack
  <2>4. WalkRight'
    <3>1. walk'.frames = Others /\ walk'.error = walk.error
      BY <2>1, WalkFields
    <3>2. FailedWithUndefined => FailedWithUndefined'
      BY <1>2, FailureStays
    <3>. QED
      BY <2>1, <2>3, <3>1, <3>2 DEF WalkRight, CallsRight, Stays, Stacked
  <2>. QED
    BY <1>2, <2>1, <2>4, CallsSettle, CallsWalk
<1>6. CASE EnterRouter
  <2>1. AtLayer /\ Enters /\ Stays
    BY <1>6 DEF EnterRouter, Stays
  <2>2. Stacked(walk.frames)
    BY <2>1 DEF CallsRight, Stacked, AtLayer
  <2>3. Opened(app, routers, request, Entered, Behind, Layer.id)
    BY <2>1, <2>2, EnterStack
  <2>4. OldCalls
    BY <1>2, <2>1, CallsSettle
  <2>5. CASE /\ walk' = Walk(<<Entered>> \o Behind, IF walk.error = "undefined" THEN None ELSE walk.error, walk.by, walk.how)
             /\ calls' = calls
    <3>. DEFINE F == <<Entered>> \o Behind
    <3>1. walk'.frames = F /\ walk'.error # "undefined"
      BY <2>5, WalkFields DEF None
    <3>2. StackRight(app, routers, request, F)
      BY <2>3 DEF Opened
    <3>. HIDE DEF F
    <3>3. WalkRight'
      BY <2>1, <3>1, <3>2 DEF WalkRight, Stays
    <3>. QED
      BY <2>4, <2>5, <3>3, CallsWalk
  <2>6. ASSUME NEW h, Begins(h), FoundBy(h, Entered, request.method), h.rest = Behind
        PROVE  CallsRight'
    <3>. DEFINE q == request
                f == Entered
                method == request.method
    <3>1. FrameRight(app, routers, q, f)
      BY <2>1, <2>2, EnteredFrame
    <3>2. method = q.method /\ FoundBy(h, f, method) /\ h \in CallRecord
      BY <2>6 DEF Begins, Grows
    <3>3. StackRight(app, routers, q, h.rest)
      <4>1. Past(walk.frames, Behind, Layer.id)
        <5>1. {} \in SUBSET Names
          OBVIOUS
        <5>. QED
          BY <2>1, <2>2, <5>1, BehindPast
      <4>. QED
        BY <2>6, <4>1 DEF Past, PastOf
    <3>4. \A k \in DOMAIN app, l \in Ahead(routers, h.rest) : app[k].at = f.place => k < l
      BY <2>1, <2>3, <2>6, EnteredRight DEF Opened
    <3>. HIDE DEF q, f, method, late
    <3>5. Founds(app, routers, q, f, h)
      BY <3>1, <3>2, FoundIs
    <3>6. CallRight(app, routers, q, h, late)
      BY <1>3, <3>2, <3>3, <3>4, <3>5, FoundCall
    <3>7. CallRight(app', routers', request', h, FailedWithUndefined')
      BY <2>1, <3>6 DEF q, late, Stays
    <3>. QED
      BY <2>4, <2>6, <3>7, CallsBegin
  <2>. QED
    BY <1>6, <2>5, <2>6, EnterRouterDoes
<1>7. CASE CallHandler
  <2>1. AtLayer /\ Takes /\ Stays
    BY <1>7 DEF CallHandler, Stays
  <2>2. PICK h : Begins(h) /\ Handles(h)
    BY <1>7, CallHandlerDoes
  <2>3. h \in CallRecord
    BY <2>2 DEF Begins, Grows
  <2>4. Stacked(walk.frames)
    BY <2>1 DEF CallsRight, Stacked, AtLayer
  <2>5. walk.error = "undefined" => late
    <3>1. FailedWithUndefined => FailedWithUndefined'
      BY <1>2, FailureStays
    <3>. QED
      BY <3>1 DEF CallsRight
  <2>. HIDE DEF late
  <2>6. CallRight(app, routers, request, h, late)
    BY <2>1, <2>2, <2>3, <2>4, <2>5, HandledCall
  <2>7. CallRight(app', routers', request', h, FailedWithUndefined')
    BY <2>1, <2>6 DEF late, Stays
  <2>. QED
    BY <1>2, <2>1, <2>2, <2>7, CallsSettle, CallsBegin
<1>8. ASSUME NEW req, Arrives(req) PROVE CallsRight'
  <2>. DEFINE f == TopFrame(req.path)
              method == req.method
  <2>1. /\ app' = app /\ routers' = routers /\ request' = req /\ calls = <<>> /\ f \in Frame
        /\ req.path \in Seq(Names) /\ req.path # <<>>
    BY <1>8, ArrivesDoes DEF Arrives, Quiet, Request
  <2>2. DOMAIN calls = {}
    BY <2>1, EmptySeq
  <2>3. OldCalls
    BY <2>2 DEF OldCalls
  <2>4. f = TopFrame(req.path)
    OBVIOUS
  <2>5. \/ walk' = Walk(<<f>> \o <<>>, None, 0, "root") /\ calls' = calls
        \/ \E h : Begins(h) /\ FoundBy(h, f, method) /\ h.rest = <<>>
    BY <1>8, ArrivesDoes
  <2>. HIDE DEF f, method
  <2>6. Arrived(app, routers, req, f)
    BY <1>3, <2>1, <2>4, ArriveStack
  <2>7. CASE walk' = Walk(<<f>> \o <<>>, None, 0, "root") /\ calls' = calls
    <3>. DEFINE F == <<f>> \o <<>>
    <3>1. walk'.frames = F /\ walk'.error # "undefined"
      BY <2>7, WalkFields DEF None
    <3>2. StackRight(app, routers, req, F)
      BY <2>6 DEF Arrived
    <3>. HIDE DEF F
    <3>3. WalkRight'
      BY <2>1, <3>1, <3>2 DEF WalkRight
    <3>. QED
      BY <2>3, <2>7, <3>3, CallsWalk
  <2>8. ASSUME NEW h, Begins(h), FoundBy(h, f, method), h.rest = <<>>
        PROVE  CallsRight'
    <3>1. FrameRight(app, routers, req, f) /\ StackRight(app, routers, req, h.rest) /\ Ahead(routers, h.rest) = {}
      BY <2>6, <2>8 DEF Arrived
    <3>2. method = req.method /\ h \in CallRecord
      BY <2>8 DEF Begins, Grows, method
    <3>. HIDE DEF late
    <3>3. Founds(app, routers, req, f, h)
      BY <2>8, <3>1, <3>2, FoundIs
    <3>4. CallRight(app, routers, req, h, late)
      BY <1>3, <3>1, <3>2, <3>3, FoundCall
    <3>5. CallRight(app', routers', request', h, FailedWithUndefined')
      BY <2>1, <3>4 DEF late
    <3>. QED
      BY <2>3, <2>8, <3>5, CallsBegin
  <2>. QED
    BY <2>5, <2>7, <2>8
<1>9. CASE Plain
  BY <1>9, CallsPlain
<1>. QED
  BY <1>4, <1>5, <1>6, <1>7, <1>8, <1>9, StepPlain

(***************************************************************************)
(* OrderRight                                                              *)
(***************************************************************************)
LEMMA OrderWalk ==
  ASSUME Settles, OrderRight, ~FailedAfterNext, DOMAIN calls' = DOMAIN calls,
         walk'.on => \A c \in DOMAIN calls : Beyond(routers', walk'.frames, calls[c].handler)
  PROVE  OrderRight'
<1>1. \A c \in DOMAIN calls' : calls'[c].handler = calls[c].handler
  BY DEF Settles, Same
<1>2. \A c, d \in DOMAIN calls' : c < d => calls'[c].handler < calls'[d].handler
  BY <1>1 DEF OrderRight
<1>3. walk'.on => \A c \in DOMAIN calls' : Beyond(routers', walk'.frames, calls'[c].handler)
  BY <1>1
<1>. QED
  BY <1>2, <1>3 DEF OrderRight

LEMMA OrderGrow ==
  ASSUME TypeOK, Settles, OrderRight, ~FailedAfterNext, NEW n, n = Len(calls) + 1, DOMAIN calls' = 1..n, ~walk'.on,
         \A c \in DOMAIN calls : calls[c].handler < calls'[n].handler
  PROVE  OrderRight'
<1>1. Len(calls) \in Nat /\ DOMAIN calls = 1..Len(calls)
  BY LenProperties DEF TypeOK, CallsTyped
<1>2. \A c \in DOMAIN calls : calls'[c].handler = calls[c].handler
  BY DEF Settles, Same
<1>3. ASSUME NEW c \in DOMAIN calls', NEW d \in DOMAIN calls', c < d PROVE calls'[c].handler < calls'[d].handler
  <2>1. c \in DOMAIN calls
    BY <1>1, <1>3
  <2>2. d \in DOMAIN calls \/ d = n
    BY <1>1
  <2>. QED
    BY <1>2, <1>3, <2>1, <2>2 DEF OrderRight
<1>. QED
  BY <1>3 DEF OrderRight

\* A stack that is beyond what comes later is beyond what comes before that.
LEMMA BeyondBefore ==
  ASSUME NEW a, NEW R, World(a, R), NEW q, NEW F, StackRight(a, R, q, F), NEW y \in Nat, Beyond(R, F, y),
         NEW x \in Nat, x <= y
  PROVE  Beyond(R, F, x)
<1>. SUFFICES ASSUME NEW j \in Ahead(R, F) PROVE x < j
  BY DEF Beyond
<1>1. j \in Nat
  BY AheadRight
<1>. QED
  BY <1>1 DEF Beyond

LEMMA HandlersAre ==
  ASSUME TypeOK
  PROVE  \A c \in DOMAIN calls : calls[c].handler \in Nat
BY CallTyped DEF CallRecord

\* The last call goes on with what it left.
LEMMA OrderLast ==
  ASSUME TypeOK, Settles, CallsRight, OrderRight, LastRight, ~FailedAfterNext, Stays, DOMAIN calls' = DOMAIN calls,
         NEW c \in DOMAIN calls, ~Over(calls[c]), walk'.frames = calls[c].rest
  PROVE  OrderRight'
<1>1. c = Len(calls)
  BY NotOver
<1>2. DOMAIN calls = 1..Len(calls) /\ Len(calls) \in Nat
  BY LenProperties DEF TypeOK, CallsTyped
<1>3. StackRight(app, routers, request, calls[c].rest) /\ Beyond(routers, calls[c].rest, calls[c].handler)
  BY DEF CallsRight, CallRight
<1>4. ASSUME NEW d \in DOMAIN calls PROVE Beyond(routers, calls[c].rest, calls[d].handler)
  <2>. DEFINE F == calls[c].rest
              x == calls[d].handler
              y == calls[c].handler
  <2>1. x \in Nat /\ y \in Nat /\ World(app, routers)
    BY HandlersAre DEF TypeOK
  <2>2. d = c \/ d < c
    BY <1>1, <1>2
  <2>3. x <= y
    BY <2>1, <2>2 DEF OrderRight
  <2>4. StackRight(app, routers, request, F) /\ Beyond(routers, F, y)
    BY <1>3
  <2>. HIDE DEF F, x, y
  <2>5. Beyond(routers, F, x)
    BY <2>1, <2>3, <2>4, BeyondBefore
  <2>. QED
    BY <2>5 DEF F, x
<1>. QED
  BY <1>4, OrderWalk DEF Stays

LEMMA OrderPlain ==
  ASSUME TypeOK, Quiet, PhasesRight, CallsRight, LastRight, OrderRight, Plain
  PROVE  OrderRight'
<1>. SUFFICES ASSUME ~FailedAfterNext' PROVE OrderRight'
  BY DEF OrderRight
<1>1. Settles
  BY KindSettles DEF Kind
<1>2. ~FailedAfterNext
  BY <1>1, FailureStays
<1>3. CASE Rests
  <2>1. calls' = calls /\ walk' = walk
    BY <1>3 DEF Rests
  <2>2. CASE Stays
    BY <1>1, <1>2, <2>1, <2>2, OrderWalk DEF Stays, OrderRight
  <2>3. CASE ~Stays
    <3>1. calls = <<>>
      BY <1>3, <2>3 DEF Rests
    <3>2. DOMAIN calls = {}
      BY <3>1, EmptySeq
    <3>. QED
      BY <1>1, <1>2, <2>1, <3>2, OrderWalk
  <2>. QED
    BY <2>2, <2>3
<1>4. CASE Ends \/ Drops
  <2>1. calls' = calls /\ ~walk'.on
    BY <1>4, IdleFields DEF Ends, Drops
  <2>. QED
    BY <1>1, <1>2, <2>1, OrderWalk
<1>5. ASSUME NEW c \in DOMAIN calls,
             \/ Returns(c) \/ Sends(c) \/ Wakes(c)
             \/ \E e \in Errors : Asks(c, e)
      PROVE  OrderRight'
  <2>1. ~walk'.on /\ DOMAIN calls' = DOMAIN calls
    BY <1>5 DEF Returns, Sends, Wakes, Asks, Turns, Alters
  <2>. QED
    BY <1>1, <1>2, <2>1, OrderWalk
<1>6. ASSUME NEW c \in DOMAIN calls, Done(c) PROVE OrderRight'
  <2>1. Stays /\ DOMAIN calls' = DOMAIN calls /\ walk'.frames = calls[c].rest
    BY <1>6, WalkFields DEF Done, Turns, Alters
  <2>2. ~Over(calls[c])
    BY <1>6 DEF Done, Over
  <2>. QED
    BY <1>1, <1>2, <2>1, <2>2, OrderLast
<1>7. ASSUME NEW c \in DOMAIN calls, NEW e \in Errors, Breaks(c, e) PROVE OrderRight'
  <2>1. Stays /\ DOMAIN calls' = DOMAIN calls /\ walk'.frames = calls[c].rest
    BY <1>7, WalkFields DEF Breaks, Turns, Alters
  <2>2. Turns(c, "failed", calls[c].nexted, e) /\ calls[c].phase \in {"running", "sending", "waiting"}
    BY <1>7 DEF Breaks
  <2>3. ~(~calls[c].direct /\ calls[c].nexted)
    BY <2>2 DEF FailedAfterNext, Turns, Alters, Same
  <2>4. ~Over(calls[c])
    BY <2>2, <2>3 DEF Over
  <2>. QED
    BY <1>1, <1>2, <2>1, <2>4, OrderLast
<1>8. ASSUME NEW c \in DOMAIN calls, NEW e \in Errors, NEW how \in Hows, Nexts(c, e, how) PROVE OrderRight'
  <2>1. Stays /\ DOMAIN calls' = DOMAIN calls /\ walk'.frames = calls[c].rest
    BY <1>8, WalkFields DEF Nexts, Turns, Alters
  <2>2. ~Over(calls[c])
    BY <1>8 DEF Nexts, Over
  <2>. QED
    BY <1>1, <1>2, <2>1, <2>2, OrderLast
<1>9. ASSUME NEW c \in DOMAIN calls, NEW h, Passes(c, h) PROVE OrderRight'
  <2>. DEFINE g == calls[c]
              others == calls[c].others
              late == FailedWithUndefined
              n == Len(calls) + 1
  <2>1. /\ ~walk'.on /\ g.direct /\ others # <<>> /\ Hands(c, h) /\ g.phase = "running"
    BY <1>9 DEF Passes
  <2>2. g \in CallRecord /\ others \in Seq(Nat) /\ World(app, routers) /\ Len(calls) \in Nat /\ DOMAIN calls = 1..Len(calls)
    BY CallTyped DEF CallRecord, TypeOK
  <2>3. CallRight(app, routers, request, g, late)
    BY DEF CallsRight
  <2>4. h \in CallRecord /\ h.handler = Head(others) /\ h.others = Tail(others) /\ h.direct /\ ~h.errors
        /\ h.rest = g.rest /\ h.scope = g.scope
    BY <2>1 DEF Hands
  <2>5. ~Over(g)
    BY <2>1 DEF Over
  <2>6. c = Len(calls)
    BY <1>2, <2>5, NotOver
  <2>7. DOMAIN calls' = 1..n /\ calls'[n] = h
    BY <2>1 DEF Hands
  <2>. HIDE DEF late, g, others
  <2>8. others = g.others
    BY DEF g, others
  <2>9. g.handler < h.handler
    BY <2>1, <2>2, <2>3, <2>4, <2>8, HandedCall
  <2>10. \A d \in DOMAIN calls : calls[d].handler < h.handler
    <3>1. ASSUME NEW d \in DOMAIN calls PROVE calls[d].handler < h.handler
      <4>1. d = c \/ d < c
        BY <2>2, <2>6
      <4>2. calls[d].handler \in Nat /\ g.handler \in Nat /\ h.handler \in Nat
        BY <2>2, <2>4, HandlersAre DEF CallRecord
      <4>3. d = c \/ calls[d].handler < g.handler
        BY <1>2, <4>1 DEF OrderRight, g
      <4>. QED
        BY <2>9, <4>2, <4>3 DEF g
    <3>. QED
      BY <3>1
  <2>11. n = Len(calls) + 1
    OBVIOUS
  <2>. HIDE DEF n
  <2>. QED
    BY <1>1, <1>2, <2>1, <2>7, <2>10, <2>11, OrderGrow
<1>. QED
  BY <1>3, <1>4, <1>5, <1>6, <1>7, <1>8, <1>9 DEF Plain

\* While the walk is on, the calls come before the layer it is at.
LEMMA LayerAfter ==
  ASSUME TypeOK, CallsRight, OrderRight, ~FailedAfterNext, AtLayer
  PROVE  /\ Layer.id \in Nat /\ Layer.id \in DOMAIN app
         /\ \A c \in DOMAIN calls : calls[c].handler < Layer.id
<1>1. walk.on /\ Stacked(walk.frames) /\ Layer.id \in DOMAIN app
  BY LayerRight DEF CallsRight, Stacked, AtLayer
<1>2. Past(walk.frames, Behind, Layer.id)
  <2>1. {} \in SUBSET Names
    OBVIOUS
  <2>. QED
    BY <1>1, <2>1, BehindPast
<1>3. Layer.id \in Ahead(routers, walk.frames)
  BY <1>2 DEF Past, PastOf, Left
<1>4. Layer.id \in Nat
  BY <1>1, LenProperties DEF TypeOK, World
<1>. QED
  BY <1>1, <1>3, <1>4 DEF OrderRight, Beyond

LEMMA OrderRightKept ==
  ASSUME TypeOK, Quiet, PhasesRight, PromisesRight, CallsRight, LastRight, OrderRight, Next
  PROVE  OrderRight'
<1>. SUFFICES ASSUME ~FailedAfterNext' PROVE OrderRight'
  BY DEF OrderRight
<1>1. TypeOK' /\ Kind
  BY StepKind
<1>2. Settles
  BY <1>1, KindSettles
<1>3. ~FailedAfterNext
  BY <1>2, FailureStays
<1>4. World(app, routers) /\ \A k \in DOMAIN app : k \in Nat /\ app[k].at < k
  BY Placed DEF TypeOK, World
<1>5. CASE PassLayer
  <2>1. /\ AtLayer /\ Stays /\ calls' = calls
        /\ walk' = Walk(Behind, walk.error, walk.by, walk.how)
    BY <1>5, PassLayerDoes DEF PassLayer, Stays
  <2>2. Stacked(walk.frames) /\ walk.on
    BY <2>1 DEF CallsRight, Stacked, AtLayer
  <2>3. Past(walk.frames, Behind, Layer.id)
    <3>1. {} \in SUBSET Names
      OBVIOUS
    <3>. QED
      BY <2>1, <2>2, <3>1, BehindPast
  <2>4. Ahead(routers, Behind) \subseteq Ahead(routers, walk.frames)
    BY <2>3 DEF Past, PastOf
  <2>5. walk'.frames = Behind
    BY <2>1, WalkFields
  <2>6. \A c \in DOMAIN calls : Beyond(routers, Behind, calls[c].handler)
    BY <1>3, <2>2, <2>4 DEF OrderRight, Beyond
  <2>. QED
    BY <1>2, <1>3, <2>1, <2>5, <2>6, OrderWalk DEF Stays
<1>6. CASE LeaveRouter
  <2>1. /\ Stays /\ calls' = calls /\ walk.on
        /\ walk' = Walk(Others, walk.error, walk.by, walk.how)
    BY <1>6, LeaveRouterDoes DEF LeaveRouter, Stays
  <2>2. Stacked(walk.frames)
    BY <2>1 DEF CallsRight, Stacked
  <2>3. Ahead(routers, Others) = Ahead(routers, walk.frames)
    BY <1>6, <2>2, LeaveStack DEF Left
  <2>4. walk'.frames = Others
    BY <2>1, WalkFields
  <2>5. \A c \in DOMAIN calls : Beyond(routers, Others, calls[c].handler)
    BY <1>3, <2>1, <2>3 DEF OrderRight, Beyond
  <2>. QED
    BY <1>2, <1>3, <2>1, <2>4, <2>5, OrderWalk DEF Stays
<1>7. CASE EnterRouter
  <2>1. AtLayer /\ Enters /\ Stays
    BY <1>7 DEF EnterRouter, Stays
  <2>2. Stacked(walk.frames)
    BY <2>1 DEF CallsRight, Stacked, AtLayer
  <2>3. Opened(app, routers, request, Entered, Behind, Layer.id)
    BY <2>1, <2>2, EnterStack
  <2>4. /\ Layer.id \in Nat /\ Layer.id \in DOMAIN app
        /\ \A c \in DOMAIN calls : calls[c].handler < Layer.id
        /\ \A c \in DOMAIN calls : calls[c].handler \in Nat
    BY <1>3, <2>1, LayerAfter, HandlersAre
  <2>5. CASE /\ walk' = Walk(<<Entered>> \o Behind, IF walk.error = "undefined" THEN None ELSE walk.error, walk.by, walk.how)
             /\ calls' = calls
    <3>. DEFINE F == <<Entered>> \o Behind
                q == request
    <3>1. walk'.frames = F
      BY <2>5, WalkFields
    <3>2. StackRight(app, routers, q, F) /\ \A j \in Ahead(routers, F) : Layer.id < j
      BY <2>3 DEF Opened
    <3>. HIDE DEF F, q
    <3>3. \A j \in Ahead(routers, F) : j \in Nat
      BY <1>4, <3>2, AheadRight
    <3>4. \A c \in DOMAIN calls : Beyond(routers, F, calls[c].handler)
      BY <2>4, <3>2, <3>3 DEF Beyond
    <3>. QED
      BY <1>2, <1>3, <2>1, <2>5, <3>1, <3>4, OrderWalk DEF Stays
  <2>6. ASSUME NEW h, Begins(h), FoundBy(h, Entered, request.method)
        PROVE  OrderRight'
    <3>. DEFINE q == request
                f == Entered
                method == request.method
                n == Len(calls) + 1
    <3>1. FrameRight(app, routers, q, f)
      BY <2>1, <2>2, EnteredFrame
    <3>2. method = q.method /\ FoundBy(h, f, method) /\ n = Len(calls) + 1
      BY <2>6
    <3>3. DOMAIN calls' = 1..n /\ calls'[n] = h /\ ~walk'.on
      BY <2>6, IdleFields DEF Begins, Grows
    <3>4. f.place = Layer.id
      BY <2>1, EnteredRight
    <3>. HIDE DEF q, f, method, n
    <3>5. Founds(app, routers, q, f, h)
      BY <3>1, <3>2, FoundIs
    <3>6. app[h.handler].at = Layer.id /\ h.handler \in DOMAIN app
      BY <3>4, <3>5 DEF Founds, Line, Chosen
    <3>7. Layer.id < h.handler /\ h.handler \in Nat
      BY <1>4, <3>6
    <3>8. \A c \in DOMAIN calls : calls[c].handler < calls'[n].handler
      BY <2>4, <3>3, <3>7
    <3>. QED
      BY <1>2, <1>3, <3>2, <3>3, <3>8, OrderGrow
  <2>. QED
    BY <1>7, <2>5, <2>6, EnterRouterDoes
<1>8. CASE CallHandler
  <2>1. AtLayer
    BY <1>8 DEF CallHandler
  <2>2. PICK h : Begins(h) /\ Handles(h)
    BY <1>8, CallHandlerDoes
  <2>. DEFINE n == Len(calls) + 1
  <2>3. n = Len(calls) + 1 /\ DOMAIN calls' = 1..n /\ calls'[n] = h /\ ~walk'.on /\ h.handler = Layer.id
    BY <2>2, IdleFields DEF Begins, Grows, Handles
  <2>. HIDE DEF n
  <2>4. \A c \in DOMAIN calls : calls[c].handler < calls'[n].handler
    BY <1>3, <2>1, <2>3, LayerAfter
  <2>. QED
    BY <1>2, <1>3, <2>3, <2>4, OrderGrow
<1>9. ASSUME NEW req, Arrives(req) PROVE OrderRight'
  <2>1. calls = <<>>
    BY <1>9 DEF Arrives, Quiet
  <2>2. DOMAIN calls = {} /\ Len(calls) = 0
    BY <2>1, EmptySeq
  <2>3. calls' = calls \/ \E h : Begins(h)
    BY <1>9, ArrivesDoes
  <2>4. CASE calls' = calls
    BY <1>2, <1>3, <2>2, <2>4, OrderWalk
  <2>5. ASSUME NEW h, Begins(h) PROVE OrderRight'
    <3>. DEFINE n == Len(calls) + 1
    <3>1. n = Len(calls) + 1 /\ DOMAIN calls' = 1..n /\ ~walk'.on
      BY <2>5, IdleFields DEF Begins, Grows
    <3>. HIDE DEF n
    <3>. QED
      BY <1>2, <1>3, <2>2, <3>1, OrderGrow
  <2>. QED
    BY <2>3, <2>4, <2>5
<1>10. CASE Plain
  BY <1>10, OrderPlain
<1>. QED
  BY <1>5, <1>6, <1>7, <1>8, <1>9, <1>10, StepPlain

(***************************************************************************)
(* FirstRight                                                              *)
(***************************************************************************)
\* What the request comes to behind a layer that is not for it.
LEMMA BehindCovers ==
  ASSUME TypeOK, AtLayer, ~Enters, Stacked(walk.frames),
         NEW id \in DOMAIN app, Layer.id < id, Inside(app, request)[app[id].at].reached
  PROVE  \E j \in Left(Behind) : j <= id
<1>. DEFINE a == app
            R == routers
            q == request
            G == Behind
            x == Layer.id
            t == Top.place
            I == Inside(app, request)
<1>1. Past(walk.frames, Behind, Layer.id)
  <2>1. {} \in SUBSET Names
    OBVIOUS
  <2>. QED
    BY <2>1, BehindPast
<1>2. /\ StackRight(a, R, q, G) /\ G # <<>> /\ a[x].at = G[1].place /\ G[1].place = t
      /\ \A k \in 1..(G[1].index - 1) : R[G[1].place].layers[k].id <= x
  BY <1>1 DEF Past, PastOf, Top
<1>3. World(a, R) /\ x \in DOMAIN a /\ a[x].at = t /\ Layer.kind = a[x].kind /\ Layer.pattern = a[x].pattern
  BY LayerRight DEF TypeOK
<1>4. /\ InPlace(a)
      /\ \A k \in DOMAIN a : k \in Nat /\ a[k].at \in Nat /\ a[k].at < k /\ (a[k].at > 0 => a[k].at \in DOMAIN a)
  BY <1>3, Placed DEF World
<1>5. \A k \in DOMAIN a : (a[k].at = G[1].place /\ x < k) => k \in Ahead(R, G)
  <2>1. ASSUME NEW k \in DOMAIN a, a[k].at = G[1].place, x < k PROVE k \in Ahead(R, G)
    <3>. DEFINE g == G[1]
    <3>1. 1 \in DOMAIN G /\ g.place \in 0..Len(a) /\ g.index \in Nat \ {0} /\ a[k].at = g.place /\ g = G[1]
      BY <1>2, <1>3, <2>1, Places
    <3>2. \A n \in 1..(g.index - 1) : R[g.place].layers[n].id <= x
      BY <1>2
    <3>. HIDE DEF g, G, R, a, x
    <3>3. \/ k \in Pending(R, g)
          \/ \E n \in 1..(g.index - 1) : n \in DOMAIN R[g.place].layers /\ R[g.place].layers[n].id = k
      BY <1>3, <2>1, <3>1, PendingRight
    <3>4. x \in Nat /\ k \in Nat
      BY <1>3, <1>4, <2>1
    <3>5. k \in Pending(R, g)
      BY <2>1, <3>2, <3>3, <3>4
    <3>. QED
      BY <3>1, <3>5 DEF Ahead
  <2>. QED
    BY <2>1
<1>6. \A k \in DOMAIN a : (x < k /\ I[a[k].at].reached /\ G[1].place < a[k].at) => x < a[k].at
  <2>1. ASSUME NEW k \in DOMAIN a, x < k, I[a[k].at].reached, G[1].place < a[k].at, ~(x < a[k].at) PROVE FALSE
    <3>. DEFINE p == a[k].at
    <3>1. p \in Nat /\ x \in Nat /\ t \in Nat /\ p > 0 /\ p \in DOMAIN a /\ k \in Nat
      BY <1>2, <1>3, <1>4, <2>1
    <3>2. CASE p = x
      <4>1. a[x].kind \in Mounts
        BY <1>4, <2>1, <3>1, <3>2 DEF InPlace
      <4>2. FrameRight(app, routers, request, Top)
        BY StackPopped DEF Stacked, AtLayer, Top
      <4>3. I[a[x].at].path = Top.path
        BY <1>3, <4>2 DEF FrameRight
      <4>. DEFINE outer == I[a[x].at]
      <4>4. outer.path = Top.path /\ I = Inside(a, q) /\ outer = I[a[x].at] /\ I[x].reached
        BY <2>1, <3>2, <4>3
      <4>. HIDE DEF outer, I, a, q, x, R
      <4>5. /\ a[x].kind = "router" => (I[x].reached <=> outer.reached /\ MatchesPrefix(a[x].pattern, outer.path))
            /\ a[x].kind = "scope" => (I[x].reached <=> outer.reached /\ q.host)
        BY <1>3, <4>4, InsideMount
      <4>6. \/ Layer.kind = "router" /\ MatchesPrefix(Layer.pattern, Top.path)
            \/ Layer.kind = "scope" /\ q.host
        BY <1>3, <4>1, <4>4, <4>5 DEF Mounts
      <4>. QED
        BY <4>6 DEF Enters, q
    <3>3. CASE p # x
      <4>1. p < x
        BY <2>1, <3>1, <3>3
      <4>2. x \in (p + 1)..(k - 1)
        BY <2>1, <3>1, <4>1
      <4>3. a[x].at >= p
        BY <1>4, <4>2 DEF InPlace
      <4>. QED
        BY <1>2, <1>3, <2>1, <3>1, <4>3
    <3>. QED
      BY <3>2, <3>3
  <2>. QED
    BY <2>1
<1>7. x \in Nat /\ G[1].place <= x
  BY <1>2, <1>3, <1>4
<1>8. id \in DOMAIN a /\ x < id /\ Inside(a, q)[a[id].at].reached
      /\ \A k \in DOMAIN a : (x < k /\ Inside(a, q)[a[k].at].reached /\ G[1].place < a[k].at) => x < a[k].at
  BY <1>6
<1>. HIDE DEF a, R, q, G, x, t, I
<1>9. \E j \in Ahead(R, G) : j <= id
  BY <1>2, <1>3, <1>5, <1>7, <1>8, Covered
<1>. QED
  BY <1>9 DEF Left, R, G

\* What the request comes to from the beginning of a router that it comes into.
LEMMA BeginningCovers ==
  ASSUME NEW a, NEW R, World(a, R), NEW q, NEW f \in Frame, f.index = 1, NEW G \in Seq(Frame),
         NEW F, F = <<f>> \o G, StackRight(a, R, q, F),
         NEW m, m = f.place, m \in Nat, NEW id \in DOMAIN a, m < id, Inside(a, q)[a[id].at].reached
  PROVE  \E j \in Ahead(R, F) : j <= id
<1>1. F # <<>> /\ F[1] = f
  <2>1. F[1] = f /\ Len(F) = Len(G) + 1 /\ Len(G) \in Nat
    BY Pushed
  <2>. QED
    BY <2>1, EmptySeq
<1>2. m \in 0..Len(a)
  <2>1. 1 \in DOMAIN F
    BY <1>1, Places
  <2>. QED
    BY <1>1, <2>1 DEF StackRight, FrameRight
<1>3. Pending(R, f) \subseteq Ahead(R, F)
  BY AheadOf
<1>4. ASSUME NEW k \in DOMAIN a, a[k].at = m PROVE k \in Ahead(R, F)
  <2>1. f.place \in 0..Len(a) /\ f.index \in Nat \ {0} /\ a[k].at = f.place
    BY <1>2, <1>4
  <2>2. 1..(f.index - 1) = {}
    OBVIOUS
  <2>3. k \in Pending(R, f)
    BY <2>1, <2>2, PendingRight
  <2>. QED
    BY <1>3, <2>3
<1>5. F[1].place = m
  BY <1>1
<1>6. /\ F[1].place <= m
      /\ \A k \in DOMAIN a : (a[k].at = F[1].place /\ m < k) => k \in Ahead(R, F)
      /\ \A k \in DOMAIN a : (m < k /\ Inside(a, q)[a[k].at].reached /\ F[1].place < a[k].at) => m < a[k].at
  BY <1>4, <1>5
<1>. QED
  BY <1>1, <1>6, Covered

\* What a router of routes holds follows its mount at once.
LEMMA RoutesFollow ==
  ASSUME NEW a, NEW R, World(a, R), NEW m \in 0..Len(a), R[m].enabled,
         NEW x \in DOMAIN a, a[x].at = m, NEW id \in DOMAIN a, m < id, id < x
  PROVE  a[id].at = m
<1>. DEFINE Bad == {k \in DOMAIN a : m < k /\ k < x /\ a[k].at # m}
<1>. SUFFICES ASSUME Bad # {} PROVE FALSE
  OBVIOUS
<1>1. /\ InPlace(a)
      /\ \A k \in DOMAIN a : k \in Nat /\ a[k].at \in Nat /\ a[k].at < k /\ (a[k].at > 0 => a[k].at \in DOMAIN a)
  BY Placed DEF World
<1>2. \A k \in DOMAIN a : a[k].at = m => a[k].kind = "route"
  BY DEF World, RouterRight
<1>3. Bad \in SUBSET Nat
  BY <1>1
<1>4. PICK k \in Bad : \A l \in Bad : k <= l
  BY <1>3, LeastNumber
<1>. DEFINE p == a[k].at
<1>5. k \in DOMAIN a /\ m < k /\ k < x /\ p # m /\ k \in Nat /\ p \in Nat /\ p < k /\ x \in Nat /\ m \in Nat
  BY <1>1, <1>4
<1>6. p >= m
  <2>1. k \in (m + 1)..(x - 1)
    BY <1>5
  <2>. QED
    BY <1>1, <2>1 DEF InPlace
<1>7. m < p /\ p \in DOMAIN a /\ p < x /\ p > 0
  BY <1>1, <1>5, <1>6
<1>8. a[p].at = m
  BY <1>4, <1>5, <1>7
<1>9. a[p].kind = "route"
  BY <1>2, <1>7, <1>8
<1>10. a[p].kind \in Mounts
  BY <1>1, <1>5, <1>7 DEF InPlace
<1>. QED
  BY <1>9, <1>10 DEF Mounts

\* Nothing that the request must be given is left out by the walk.
Covers(F) == \A id \in DOMAIN app : Wanted(app, request, id) => \E j \in Left(F) : j <= id

Firsts ==
  \A id \in DOMAIN app :
    (Wanted(app, request, id) /\ id < calls[1].handler) =>
        calls[1].direct /\ app[id].at = app[calls[1].handler].at

\* What the request must be given does not come before the layer the walk is at.
LEMMA NotBefore ==
  ASSUME TypeOK, AtLayer, Stacked(walk.frames), Covers(walk.frames)
  PROVE  /\ Past(walk.frames, Behind, Layer.id)
         /\ Layer.id \in Nat /\ Layer.id \in DOMAIN app
         /\ \A id \in DOMAIN app : Wanted(app, request, id) => id \in Nat /\ (id = Layer.id \/ Layer.id < id)
<1>1. Past(walk.frames, Behind, Layer.id)
  <2>1. {} \in SUBSET Names
    OBVIOUS
  <2>. QED
    BY <2>1, BehindPast
<1>2. Layer.id \in DOMAIN app /\ World(app, routers)
  BY LayerRight DEF TypeOK
<1>3. \A k \in DOMAIN app : k \in Nat
  BY <1>2, Placed DEF World
<1>. DEFINE G == Behind
            F == walk.frames
            x == Layer.id
            q == request
<1>4. StackRight(app, routers, q, G) /\ Ahead(routers, F) = {x} \cup Ahead(routers, G) /\ \A j \in Ahead(routers, G) : x < j
  BY <1>1 DEF Past, PastOf
<1>. HIDE DEF G, q, x, F
<1>5. \A j \in Ahead(routers, G) : j \in Nat
  BY <1>2, <1>4, AheadRight
<1>6. x \in Nat
  BY <1>2, <1>3 DEF x
<1>7. \A id \in DOMAIN app : Wanted(app, request, id) => id = x \/ x < id
  BY <1>3, <1>4, <1>5, <1>6 DEF Covers, Left, F
<1>. QED
  BY <1>1, <1>2, <1>3, <1>6, <1>7 DEF x

\* A layer that does not take a request without an error is not for it.
LEMMA NotWanted ==
  ASSUME TypeOK, AtLayer, Stacked(walk.frames), walk.error = None, ~Takes
  PROVE  ~Wanted(app, request, Layer.id)
<1>. DEFINE r == app[Layer.id]
<1>1. /\ r.at = Top.place /\ Layer.kind = r.kind /\ Layer.method = r.method
      /\ Layer.pattern = r.pattern /\ Layer.errors = r.errors /\ Layer.errors \in BOOLEAN
  BY LayerRight DEF LayerRecord
<1>2. FrameRight(app, routers, request, Top)
  BY StackPopped DEF Stacked, AtLayer, Top
<1>3. Inside(app, request)[r.at].path = Top.path
  BY <1>1, <1>2 DEF FrameRight
<1>. SUFFICES ASSUME Admits(r, request.method, Top.path), ~r.errors PROVE FALSE
  BY <1>3 DEF Wanted
<1>4. CASE request.method = "UPGRADE"
  BY <1>1, <1>4 DEF Admits, Takes
<1>5. CASE request.method # "UPGRADE"
  <2>1. Layer.errors = (walk.error # None)
    BY <1>1
  <2>. QED
    BY <1>1, <1>5, <2>1 DEF Admits, Takes
<1>. QED
  BY <1>4, <1>5

\* The first call does not change.
LEMMA FirstStays ==
  ASSUME TypeOK, Settles, Stays, FirstRight, calls # <<>>
  PROVE  FirstRight'
<1>1. 1 \in DOMAIN calls
  BY EmptySeq, LenProperties DEF TypeOK, CallsTyped
<1>2. 1 \in DOMAIN calls' /\ calls'[1].handler = calls[1].handler /\ calls'[1].direct = calls[1].direct
  BY <1>1 DEF Settles, Same
<1>3. calls' # <<>>
  BY <1>2, EmptySeq
<1>. QED
  BY <1>2, <1>3 DEF FirstRight, Stays

LEMMA FirstWalk ==
  ASSUME calls' = <<>>, walk'.error = None,
         \A id \in DOMAIN app' : Wanted(app', request', id) => \E j \in Ahead(routers', walk'.frames) : j <= id
  PROVE  FirstRight'
BY DEF FirstRight

LEMMA FirstCall ==
  ASSUME calls = <<>>, NEW h, Begins(h),
         \A id \in DOMAIN app' : (Wanted(app', request', id) /\ id < h.handler) =>
            h.direct /\ app'[id].at = app'[h.handler].at
  PROVE  FirstRight'
<1>1. calls'[1] = h /\ DOMAIN calls' = 1..1
  <2>1. Len(calls) = 0
    BY EmptySeq
  <2>. QED
    BY <2>1 DEF Begins, Grows
<1>2. calls' # <<>>
  BY <1>1, EmptySeq
<1>. QED
  BY <1>1, <1>2 DEF FirstRight

LEMMA FirstPlain ==
  ASSUME TypeOK, Quiet, PhasesRight, FirstRight, Plain
  PROVE  FirstRight'
<1>1. Settles
  BY KindSettles DEF Kind
<1>2. CASE calls # <<>>
  <2>1. Stays
    BY <1>2 DEF Plain, Rests, Ends, Drops, Returns, Done, Sends, Wakes, Passes, Breaks, Asks, Nexts
  <2>. QED
    BY <1>1, <1>2, <2>1, FirstStays
<1>3. CASE calls = <<>>
  <2>1. DOMAIN calls = {}
    BY <1>3, EmptySeq
  <2>2. Rests \/ Ends \/ Drops
    BY <2>1 DEF Plain
  <2>3. CASE request = NoRequest
    <3>1. request' = NoRequest /\ calls' = <<>>
      <4>1. walk = Idle /\ settled = {}
        BY <2>3 DEF Quiet
      <4>. QED
        BY <1>3, <2>2, <2>3, <4>1, IdleFields DEF Rests, Ends, Drops
    <3>. QED
      BY <3>1 DEF FirstRight
  <2>4. CASE request # NoRequest
    <3>1. Stays /\ calls' = calls /\ (walk' = walk \/ (walk.frames = <<>> /\ walk' = Idle))
      BY <2>2, <2>4 DEF Rests, Ends, Drops
    <3>2. walk'.frames = walk.frames /\ walk'.error = None
      BY <1>3, <2>4, <3>1, IdleFields DEF FirstRight
    <3>. QED
      BY <1>3, <2>4, <3>1, <3>2, FirstWalk DEF FirstRight, Stays
  <2>. QED
    BY <2>3, <2>4
<1>. QED
  BY <1>2, <1>3

LEMMA FirstRightKept ==
  ASSUME TypeOK, Quiet, PhasesRight, PromisesRight, CallsRight, FirstRight, Next
  PROVE  FirstRight'
<1>1. TypeOK' /\ Kind
  BY StepKind
<1>2. Settles
  BY <1>1, KindSettles
<1>3. World(app, routers) /\ \A k \in DOMAIN app : k \in Nat /\ app[k].at < k
  BY Placed DEF TypeOK, World
<1>4. CASE Plain
  BY <1>4, FirstPlain
<1>5. CASE calls # <<>> /\ Stays
  BY <1>2, <1>5, FirstStays
<1>6. ASSUME calls = <<>>, walk.on
      PROVE  request # NoRequest /\ walk.error = None /\ Covers(walk.frames) /\ Stacked(walk.frames)
  <2>1. request # NoRequest
    BY <1>6, IdleFields DEF Quiet
  <2>2. Stacked(walk.frames)
    BY <1>6 DEF CallsRight, Stacked
  <2>. QED
    BY <1>6, <2>1, <2>2 DEF FirstRight, Covers, Left
<1>7. CASE PassLayer /\ calls = <<>>
  <2>1. /\ AtLayer /\ ~Enters /\ ~Takes /\ Stays /\ calls' = calls /\ walk.on
        /\ walk' = Walk(Behind, walk.error, walk.by, walk.how)
    BY <1>7, PassLayerDoes DEF PassLayer, Stays, AtLayer
  <2>2. walk.error = None /\ Covers(walk.frames) /\ Stacked(walk.frames)
    BY <1>6, <1>7, <2>1
  <2>3. walk'.frames = Behind /\ walk'.error = None
    BY <2>1, <2>2, WalkFields
  <2>4. \A id \in DOMAIN app : Wanted(app, request, id) => Layer.id < id
    BY <2>1, <2>2, NotBefore, NotWanted
  <2>5. \A id \in DOMAIN app : Wanted(app, request, id) => \E j \in Left(Behind) : j <= id
    BY <2>1, <2>2, <2>4, BehindCovers DEF Wanted
  <2>. QED
    BY <1>7, <2>1, <2>3, <2>5, FirstWalk DEF Left, Stays
<1>8. CASE LeaveRouter /\ calls = <<>>
  <2>1. /\ Stays /\ calls' = calls /\ walk.on
        /\ walk' = Walk(Others, walk.error, walk.by, walk.how)
    BY <1>8, LeaveRouterDoes DEF LeaveRouter, Stays
  <2>2. walk.error = None /\ Covers(walk.frames) /\ Stacked(walk.frames)
    BY <1>6, <1>8, <2>1
  <2>3. walk'.frames = Others /\ walk'.error = None
    BY <2>1, <2>2, WalkFields
  <2>4. Left(Others) = Left(walk.frames)
    BY <1>8, <2>2, LeaveStack
  <2>. QED
    BY <1>8, <2>1, <2>2, <2>3, <2>4, FirstWalk DEF Covers, Left, Stays
<1>9. CASE EnterRouter /\ calls = <<>>
  <2>1. AtLayer /\ Enters /\ Stays /\ walk.on
    BY <1>9 DEF EnterRouter, Stays, AtLayer
  <2>2. walk.error = None /\ Covers(walk.frames) /\ Stacked(walk.frames)
    BY <1>6, <1>9, <2>1
  <2>3. Opened(app, routers, request, Entered, Behind, Layer.id)
    BY <2>1, <2>2, EnterStack
  <2>4. app[Layer.id].kind \in Mounts /\ Entered.index = 1 /\ FrameRight(app, routers, request, Entered)
    BY <2>1, <2>2, EnteredFrame
  <2>5. Entered \in Frame /\ Entered.place = Layer.id /\ Layer.id \in Nat /\ Layer.id \in DOMAIN app
    BY <2>1, <2>2, EnteredRight, NotBefore
  <2>6. \A id \in DOMAIN app : Wanted(app, request, id) => Layer.id < id
    <3>1. ~Wanted(app, request, Layer.id)
      BY <2>4 DEF Wanted
    <3>. QED
      BY <2>1, <2>2, <3>1, NotBefore
  <2>7. CASE /\ walk' = Walk(<<Entered>> \o Behind, IF walk.error = "undefined" THEN None ELSE walk.error, walk.by, walk.how)
             /\ calls' = calls
    <3>. DEFINE f == Entered
                G == Behind
                F == <<f>> \o G
                m == Layer.id
                q == request
    <3>1. walk'.frames = F /\ walk'.error = None
      BY <2>2, <2>7, WalkFields
    <3>2. StackRight(app, routers, q, F)
      BY <2>3 DEF Opened
    <3>3. f \in Frame /\ f.index = 1 /\ m = f.place /\ m \in Nat
      BY <2>4, <2>5
    <3>4. G \in Seq(Frame) /\ F = <<f>> \o G
      <4>1. {} \in SUBSET Names
        OBVIOUS
      <4>. QED
        BY <2>1, <4>1, BehindRight
    <3>5. \A id \in DOMAIN app : Wanted(app, q, id) => m < id /\ Inside(app, q)[app[id].at].reached
      BY <2>6 DEF Wanted
    <3>. HIDE DEF f, G, F, m, q
    <3>6. \A id \in DOMAIN app : Wanted(app, q, id) => \E j \in Ahead(routers, F) : j <= id
      BY <1>3, <3>2, <3>3, <3>4, <3>5, BeginningCovers
    <3>. QED
      BY <1>9, <2>1, <2>7, <3>1, <3>6, FirstWalk DEF Stays, q
  <2>8. ASSUME NEW h, Begins(h), FoundBy(h, Entered, request.method) PROVE FirstRight'
    <3>. DEFINE q == request
                f == Entered
                method == request.method
                m == Layer.id
                x == h.handler
    <3>1. FrameRight(app, routers, q, f) /\ method = q.method /\ FoundBy(h, f, method) /\ f.place = m /\ h.direct
      BY <2>4, <2>5, <2>8 DEF FoundBy
    <3>2. routers[m].enabled /\ m \in 0..Len(app) /\ x = h.handler
      BY <2>5, <2>4, <2>8 DEF FoundBy, FrameRight
    <3>3. \A id \in DOMAIN app : Wanted(app, q, id) => m < id
      BY <2>6
    <3>. HIDE DEF q, f, method, m, x
    <3>4. Founds(app, routers, q, f, h)
      BY <3>1, FoundIs
    <3>5. x \in DOMAIN app /\ app[x].at = m
      BY <3>1, <3>2, <3>4 DEF Founds, Line, Chosen
    <3>6. \A id \in DOMAIN app : Wanted(app, q, id) /\ id < x => app[id].at = m
      BY <1>3, <3>2, <3>3, <3>5, RoutesFollow
    <3>. QED
      BY <1>9, <2>1, <2>8, <3>1, <3>2, <3>5, <3>6, FirstCall DEF Stays, q
  <2>. QED
    BY <1>9, <2>7, <2>8, EnterRouterDoes
<1>10. CASE CallHandler /\ calls = <<>>
  <2>1. AtLayer /\ Stays /\ walk.on
    BY <1>10 DEF CallHandler, Stays, AtLayer
  <2>2. Covers(walk.frames) /\ Stacked(walk.frames)
    BY <1>6, <1>10, <2>1
  <2>3. PICK h : Begins(h) /\ Handles(h)
    BY <1>10, CallHandlerDoes
  <2>4. h.handler = Layer.id
    BY <2>3 DEF Handles
  <2>5. \A id \in DOMAIN app : Wanted(app, request, id) => ~(id < Layer.id)
    BY <2>1, <2>2, NotBefore
  <2>. QED
    BY <1>10, <2>1, <2>3, <2>4, <2>5, FirstCall DEF Stays
<1>11. ASSUME NEW req, Arrives(req) PROVE FirstRight'
  <2>. DEFINE f == TopFrame(req.path)
              method == req.method
  <2>1. /\ app' = app /\ routers' = routers /\ request' = req /\ calls = <<>> /\ f \in Frame
        /\ req.path \in Seq(Names) /\ req.path # <<>>
    BY <1>11, ArrivesDoes DEF Arrives, Quiet, Request
  <2>2. f = TopFrame(req.path) /\ f.index = 1 /\ f.place = 0
    BY DEF TopFrame
  <2>3. \/ walk' = Walk(<<f>> \o <<>>, None, 0, "root") /\ calls' = calls
        \/ \E h : Begins(h) /\ FoundBy(h, f, method)
    BY <1>11, ArrivesDoes
  <2>. HIDE DEF f, method
  <2>4. Arrived(app, routers, req, f)
    BY <1>3, <2>1, <2>2, ArriveStack
  <2>5. \A id \in DOMAIN app : id \in Nat /\ 0 < id
    BY <1>3, Placed DEF World
  <2>6. CASE walk' = Walk(<<f>> \o <<>>, None, 0, "root") /\ calls' = calls
    <3>. DEFINE G == <<>>
                F == <<f>> \o <<>>
                m == f.place
    <3>1. walk'.frames = F /\ walk'.error = None
      BY <2>6, WalkFields
    <3>2. StackRight(app, routers, req, F)
      BY <2>4 DEF Arrived
    <3>3. G \in Seq(Frame) /\ F = <<f>> \o G /\ m = f.place /\ m \in Nat
      BY <2>2, EmptySeq
    <3>4. \A id \in DOMAIN app : Wanted(app, req, id) => m < id /\ Inside(app, req)[app[id].at].reached
      BY <2>2, <2>5 DEF Wanted
    <3>. HIDE DEF G, F, m
    <3>5. \A id \in DOMAIN app : Wanted(app, req, id) => \E j \in Ahead(routers, F) : j <= id
      BY <1>3, <2>1, <2>2, <3>2, <3>3, <3>4, BeginningCovers
    <3>. QED
      BY <2>1, <2>6, <3>1, <3>5, FirstWalk
  <2>7. ASSUME NEW h, Begins(h), FoundBy(h, f, method) PROVE FirstRight'
    <3>. DEFINE m == f.place
                x == h.handler
    <3>1. FrameRight(app, routers, req, f) /\ method = req.method /\ h.direct /\ m = f.place /\ x = h.handler
      BY <2>4, <2>7 DEF Arrived, method, FoundBy
    <3>2. routers[m].enabled /\ m \in 0..Len(app) /\ m = 0
      BY <2>2, <2>7, <3>1 DEF FoundBy, FrameRight
    <3>. HIDE DEF m, x
    <3>3. Founds(app, routers, req, f, h)
      BY <2>7, <3>1, FoundIs
    <3>4. x \in DOMAIN app /\ app[x].at = m
      BY <3>1, <3>3 DEF Founds, Line, Chosen
    <3>5. \A id \in DOMAIN app : m < id
      BY <2>5, <3>2
    <3>6. \A id \in DOMAIN app : id < x => app[id].at = m
      BY <1>3, <3>2, <3>4, <3>5, RoutesFollow
    <3>. QED
      BY <2>1, <2>7, <3>1, <3>4, <3>6, FirstCall
  <2>. QED
    BY <2>3, <2>6, <2>7
<1>12. (PassLayer \/ LeaveRouter \/ EnterRouter \/ CallHandler) => Stays
  BY DEF PassLayer, LeaveRouter, EnterRouter, CallHandler, Stays
<1>. QED
  BY <1>4, <1>5, <1>7, <1>8, <1>9, <1>10, <1>11, <1>12, StepPlain

(***************************************************************************)
(* The theorems                                                            *)
(***************************************************************************)
LEMMA FieldStays ==
  ASSUME NEW r \in Answer, NEW ended \in BOOLEAN, NEW head \in {"file", "sent"}
  PROVE  /\ [r EXCEPT !.head = head].status = r.status
         /\ [r EXCEPT !.gone = TRUE].status = r.status
         /\ [r EXCEPT !.ended = TRUE, !.status = 200].status = 200
         /\ [r EXCEPT !.ended = TRUE, !.status = 101].status = 101
         /\ [r EXCEPT !.ended = TRUE, !.status = IF r.ended THEN @ ELSE 200].status = IF r.ended THEN r.status ELSE 200
BY DEF Answer

LEMMA StatusFrom ==
  ASSUME TypeOK, Next
  PROVE  response'.status = 404 => response.status = 404 \/ (EndChain /\ walk.on)
<1>. DEFINE Same404 == response'.status \in {response.status, 101, 200}
<1>. USE FieldStays
<1>1. response \in Answer
  BY DEF TypeOK
<1>2. CASE EndChain
  BY <1>2 DEF EndChain
<1>3. CASE PassLayer \/ EnterRouter \/ LeaveRouter
  BY <1>3 DEF PassLayer, EnterRouter, LeaveRouter
<1>4. CASE CallHandler
  <2>1. response' = IF Layer.kind = "ws" THEN [response EXCEPT !.ended = TRUE, !.status = 101] ELSE response
    BY <1>4 DEF CallHandler
  <2>. QED
    BY <1>1, <2>1
<1>5. ASSUME NEW registration, Register(registration) PROVE response' = response
  BY <1>5 DEF Register
<1>6. ASSUME NEW req, Receive(req) \/ Upgrade(req) PROVE response' = response
  BY <1>6 DEF Receive, Upgrade
<1>7. ASSUME NEW c \in DOMAIN calls, HandlerEnds(c) PROVE response' = response
  BY <1>7 DEF HandlerEnds, ChainReturn, DirectReturn, Throw, Fails
<1>8. ASSUME NEW c \in DOMAIN calls, HandlerActs(c) PROVE Same404
  <2>1. CASE \E error \in {None, "error"}, how \in {"awaited", "dropped"} : ChainNext(c, error, how)
    BY <2>1 DEF ChainNext
  <2>2. CASE \E error \in {None, "error"} : DirectNext(c, error)
    BY <2>2 DEF DirectNext
  <2>3. CASE Respond(c)
    BY <1>1, <2>3 DEF Respond
  <2>4. CASE Stream(c)
    BY <1>1, <2>4 DEF Stream
  <2>5. CASE FileBegins(c)
    BY <1>1, <2>5 DEF FileBegins
  <2>6. CASE FileEnds(c)
    BY <1>1, <2>6 DEF FileEnds
  <2>7. CASE FileFails(c)
    BY <2>7 DEF FileFails, Fails
  <2>. QED
    BY <1>8, <2>1, <2>2, <2>3, <2>4, <2>5, <2>6, <2>7 DEF HandlerActs
<1>9. ASSUME NEW d \in settled, Deliver(d) PROVE response' = response
  BY <1>9 DEF Deliver, Fails
<1>10. CASE ClientGone
  BY <1>1, <1>10 DEF ClientGone
<1>11. \/ WalkOn
       \/ \E registration \in UNION {Range(sequence) : sequence \in Apps} : Register(registration)
       \/ \E req \in Requests : Receive(req) \/ Upgrade(req)
       \/ \E c \in DOMAIN calls : HandlerEnds(c) \/ HandlerActs(c)
       \/ \E d \in settled : Deliver(d)
       \/ ClientGone
  BY DEF Next
<1>. HIDE FieldStays
<1>. QED
  BY <1>2, <1>3, <1>4, <1>5, <1>6, <1>7, <1>8, <1>9, <1>10, <1>11 DEF WalkOn, EndChain

LEMMA StatusKept ==
  ASSUME TypeOK, Quiet, PhasesRight, PromisesRight, StatusRight, Next
  PROVE  StatusRight'
<1>. SUFFICES ASSUME response'.status = 404
              PROVE  request' # NoRequest /\ (calls' = <<>> => ~walk'.on)
  BY DEF StatusRight
<1>1. TypeOK' /\ Kind
  BY StepKind
<1>2. CASE EndChain /\ walk.on
  <2>1. request' = request /\ walk' = Idle
    BY <1>2 DEF EndChain
  <2>2. request # NoRequest
    BY <1>2, IdleFields DEF Quiet
  <2>. QED
    BY <2>1, <2>2, IdleFields
<1>3. CASE response.status = 404
  <2>1. request # NoRequest /\ (calls = <<>> => ~walk.on)
    BY <1>3 DEF StatusRight
  <2>2. Stays
    BY <1>1, <2>1 DEF Kind, Plain, Rests, Moves, Calls, Ends, Starts, Drops, Returns, Done, Sends, Wakes,
                      Passes, Breaks, Asks, Nexts
  <2>3. Settles
    BY <1>1, KindSettles
  <2>4. ASSUME calls' = <<>> PROVE ~walk'.on
    <3>1. DOMAIN calls = {} /\ calls = <<>>
      <4>1. DOMAIN calls' = {}
        BY <2>4, EmptySeq
      <4>2. DOMAIN calls = {}
        BY <2>3, <4>1 DEF Settles
      <4>3. calls \in Seq(CallRecord)
        BY DEF TypeOK, CallsTyped
      <4>. QED
        BY <4>2, <4>3, EmptySeq, LenProperties
    <3>2. ~walk.on
      BY <2>1, <3>1
    <3>3. Rests \/ Drops
      BY <1>1, <2>1, <3>1, <3>2 DEF Kind, Plain, Moves, Starts, Calls, Ends
    <3>. QED
      BY <3>2, <3>3 DEF Rests, Drops
  <2>. QED
    BY <2>1, <2>2, <2>4 DEF Stays
<1>. QED
  BY <1>2, <1>3, StatusFrom

LEMMA InvariantBegins == Init => Invariant
<1>. SUFFICES ASSUME Init PROVE Invariant
  OBVIOUS
<1>. USE DEF Init
<1>. DEFINE E == <<>>
<1>1. /\ E \in Seq(Frame) /\ E \in Seq(CallRecord) /\ E \in Seq(Seq(Segment))
      /\ DOMAIN E = {} /\ E = <<>>
  BY EmptySeq
<1>2. TypeOK
  <2>1. World(app, routers)
    BY WorldBegins
  <2>2. request \in Request /\ request.path # <<>>
    BY RootRight DEF NoRequest, Request
  <2>3. scope \in Scope
    <3>1. {} \in SUBSET Names
      OBVIOUS
    <3>. QED
      BY <1>1, <3>1 DEF NoScope, Scope
  <2>4. WalkTyped
    BY <1>1 DEF WalkTyped, Idle, WalkRecord, Errors, Sited
  <2>5. CallsTyped
    BY <1>1 DEF CallsTyped
  <2>6. response \in Answer
    BY DEF NotBegun, Answer, None
  <2>. QED
    BY <2>1, <2>2, <2>3, <2>4, <2>5, <2>6 DEF TypeOK
<1>3. calls = <<>> /\ DOMAIN calls = {} /\ ~walk.on /\ walk.error = None /\ response.status = 0 /\ settled = {}
  BY <1>1, IdleFields DEF NotBegun
<1>4. Quiet /\ PhasesRight /\ LastRight /\ ScopeRight /\ FirstRight /\ StatusRight /\ OrderRight /\ CallsRight
  BY <1>3 DEF Quiet, PhasesRight, LastRight, ScopeRight, FirstRight, StatusRight, OrderRight, CallsRight, None
<1>5. PromisesRight
  BY <1>3 DEF PromisesRight, WalkHolds
<1>. QED
  BY <1>2, <1>4, <1>5 DEF Invariant

LEMMA InvariantKept == Invariant /\ [Next]_vars => Invariant'
<1>. SUFFICES ASSUME Invariant, [Next]_vars PROVE Invariant'
  OBVIOUS
<1>1. TypeOK /\ Quiet /\ PhasesRight /\ PromisesRight /\ LastRight /\ ScopeRight /\ CallsRight /\ OrderRight
      /\ FirstRight /\ StatusRight
  BY DEF Invariant
<1>2. CASE Next
  <2>1. TypeOK' /\ Kind
    BY <1>1, <1>2, StepKind
  <2>2. Quiet' /\ PhasesRight' /\ PromisesRight' /\ LastRight' /\ ScopeRight'
    BY <1>1, <2>1, QuietKept, PhasesKept, PromisesKept, LastKept, ScopeKept
  <2>3. CallsRight' /\ OrderRight' /\ FirstRight' /\ StatusRight'
    BY <1>1, <1>2, CallsRightKept, OrderRightKept, FirstRightKept, StatusKept
  <2>. QED
    BY <2>1, <2>2, <2>3 DEF Invariant
<1>3. CASE UNCHANGED vars
  <2>. USE <1>1, <1>3 DEF vars
  <2>1. TypeOK'
    BY DEF TypeOK, WalkTyped, CallsTyped
  <2>2. Quiet' /\ PhasesRight'
    BY DEF Quiet, PhasesRight
  <2>3. PromisesRight'
    BY DEF PromisesRight, Holds, Waits, WalkHolds
  <2>4. (FailedAfterNext <=> FailedAfterNext') /\ (FailedWithUndefined <=> FailedWithUndefined')
    BY DEF FailedAfterNext, FailedWithUndefined
  <2>5. LastRight' /\ ScopeRight' /\ OrderRight'
    BY <2>4 DEF LastRight, ScopeRight, OrderRight
  <2>6. CallsRight'
    BY <2>4 DEF CallsRight, CallRight
  <2>7. FirstRight' /\ StatusRight'
    BY DEF FirstRight, StatusRight
  <2>. QED
    BY <2>1, <2>2, <2>3, <2>5, <2>6, <2>7 DEF Invariant
<1>. QED
  BY <1>2, <1>3

\* The registrations of a router come in its layers and its tree as they were made, and the
\* frames, calls and promises are what dispatch and invokeHandler make of them.
THEOREM DispatchTyped == Spec => []Invariant
<1>. QED
  BY InvariantBegins, InvariantKept, PTL DEF Spec

\* Every handler that is called was registered for the request, the first one first.
THEOREM RightHandlerHolds == Spec => []RightHandler
<1>1. Invariant => RightHandler
  <2>. SUFFICES ASSUME Invariant PROVE RightHandler
    OBVIOUS
  <2>. USE DEF Invariant
  <2>1. ASSUME NEW c \in DOMAIN calls
        PROVE  LET h == calls[c]
                   r == app[h.handler] IN
               /\ IsFor(h.handler) \/ (h.direct /\ EmptySegment(request.path))
               /\ h.errors = r.errors \/ FailedWithUndefined
               /\ \/ NamedKeys(r.pattern) \subseteq h.scope.keys
                  \/ Everything(r.pattern)
                  \/ h.direct /\ SharesNode(h.handler)
    <3>. DEFINE h == calls[c]
                id == h.handler
                r == app[id]
    <3>1. Suits(app, request, id, h.direct, h.scope.keys) /\ (h.errors = r.errors \/ FailedWithUndefined)
      BY DEF CallsRight, CallRight
    <3>. HIDE DEF h
    <3>2. IsFor(id) \/ (h.direct /\ EmptySegment(request.path))
      BY <3>1 DEF Suits, IsFor
    <3>3. \/ NamedKeys(r.pattern) \subseteq h.scope.keys
          \/ Everything(r.pattern)
          \/ h.direct /\ SharesNode(id)
      BY <3>1 DEF Suits, SharesNode, Ids
    <3>. QED
      BY <3>1, <3>2, <3>3 DEF h
  <2>2. ASSUME NEW id \in {i \in Ids : IsFor(i) /\ ~app[i].errors}
        PROVE  /\ response.status = 404 => calls # <<>>
               /\ (calls # <<>> /\ id < calls[1].handler) =>
                    calls[1].direct /\ app[id].at = app[calls[1].handler].at
    <3>1. id \in DOMAIN app /\ Wanted(app, request, id)
      BY <2>2 DEF Ids, IsFor, Wanted
    <3>2. ASSUME response.status = 404, calls = <<>> PROVE FALSE
      <4>1. request # NoRequest /\ walk = Idle
        BY <3>2 DEF StatusRight, Quiet
      <4>2. \E j \in Ahead(routers, walk.frames) : j <= id
        BY <3>1, <3>2, <4>1 DEF FirstRight
      <4>3. walk.frames = <<>> /\ DOMAIN walk.frames = {}
        <5>1. walk.frames = <<>>
          BY <4>1, IdleFields
        <5>. QED
          BY <5>1, EmptySeq
      <4>. QED
        BY <4>2, <4>3 DEF Ahead
    <3>. QED
      BY <3>1, <3>2 DEF FirstRight
  <2>. QED
    BY <2>1, <2>2 DEF RightHandler
<1>. QED
  BY <1>1, DispatchTyped, PTL

\* No handler runs twice for a request, unless one before it failed after its next().
THEOREM RunsOnceHolds == Spec => []RunsOnce
<1>1. Invariant => RunsOnce
  <2>. SUFFICES ASSUME Invariant, ~FailedAfterNext, NEW c \in DOMAIN calls, NEW d \in DOMAIN calls, c # d
                PROVE  calls[c].handler # calls[d].handler
    BY DEF RunsOnce
  <2>1. TypeOK /\ OrderRight
    BY DEF Invariant
  <2>2. c \in Nat /\ d \in Nat /\ calls[c].handler \in Nat /\ calls[d].handler \in Nat
    BY <2>1, CallTyped, HandlersAre
  <2>3. c < d \/ d < c
    BY <2>2
  <2>. QED
    BY <2>1, <2>2, <2>3 DEF OrderRight
<1>. QED
  BY <1>1, DispatchTyped, PTL

\* What a handler that runs reads of the request is its own until it calls next().
THEOREM ScopeIsOwnHolds == Spec => []ScopeIsOwn
<1>1. Invariant => ScopeIsOwn
  BY DEF Invariant, ScopeRight, ScopeIsOwn
<1>. QED
  BY <1>1, DispatchTyped, PTL

=============================================================================
