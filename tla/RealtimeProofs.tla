--------------------------- MODULE RealtimeProofs ---------------------------
(***************************************************************************)
(* What the server, its rooms and its heartbeat keep of a socket, for      *)
(* every number of sockets, rooms and registries.                          *)
(***************************************************************************)
EXTENDS Realtime, TLAPS

\* A map of sets without an empty one, and one that differs from another at x only.
Filled(f) == \A x \in DOMAIN f : f[x] # {}

SetAt(g, f, x, set) == Holds(g, x) = set /\ \A y : y # x => Holds(g, y) = Holds(f, y)

\* One registry: its two maps are inverse, and its close bindings are its members.
Agree(members, homes, bound) ==
  /\ members \in PartialSets(RoomNames, Sockets) /\ Filled(members)
  /\ homes \in PartialSets(Sockets, RoomNames) /\ Filled(homes)
  /\ \A s \in Sockets, room \in RoomNames : s \in Holds(members, room) <=> room \in Holds(homes, s)
  /\ bound = DOMAIN homes

RegistriesAgree == \A g \in Registries : Agree(rooms[g], socketRooms[g], bindings[g])

\* A socket that may still close is heard by exactly the registries it is a member of.
MembersHear ==
  \A g \in Registries :
    /\ bindings[g] \subseteq {s \in Sockets : Exists(s)}
    /\ \A s \in Sockets \ reported : s \in bindings[g] <=> s \in listening[g]

TwoHomesExcused ==
  \A g, h \in Registries : g # h => bindings[g] \cap bindings[h] \subseteq excused

NothingKept ==
  \A s \in reported :
    /\ stage[s] = "closed"
    /\ s \notin late => s \notin clients \cup Tracked /\ \A g \in Registries : s \notin bindings[g]

OpenMembersWatched ==
  \A g \in Registries : \A s \in bindings[g] \ excused : ticking /\ stage[s] = "open" => s \in Tracked

\* A socket that awaits a pong owes one, and is past its deadline only for a reason.
PongsOwed ==
  \A s \in Tracked :
    /\ beat[s] \in {"awaiting", "due"} => s \in unanswered
    /\ beat[s] = "due" => s \in silent \cup unborn

RInv ==
  TypeOK /\ RegistriesAgree /\ MembersHear /\ TwoHomesExcused /\ NothingKept
  /\ OpenMembersWatched /\ PongsOwed

-----------------------------------------------------------------------------
(* The maps of a registry.                                                 *)

LEMMA PartialSetsChar ==
  ASSUME NEW A, NEW B, NEW f
  PROVE  f \in PartialSets(A, B) <=>
           /\ f = [x \in DOMAIN f |-> f[x]] /\ DOMAIN f \subseteq A
           /\ \A x \in DOMAIN f : f[x] \subseteq B
<1>1. f \in PartialSets(A, B) <=> \E D \in SUBSET A : f \in [D -> SUBSET B]
  BY DEF PartialSets
<1>2. ASSUME NEW D \in SUBSET A, f \in [D -> SUBSET B]
      PROVE  /\ f = [x \in DOMAIN f |-> f[x]] /\ DOMAIN f \subseteq A
             /\ \A x \in DOMAIN f : f[x] \subseteq B
  BY <1>2
<1>3. ASSUME f = [x \in DOMAIN f |-> f[x]], DOMAIN f \subseteq A, \A x \in DOMAIN f : f[x] \subseteq B
      PROVE  DOMAIN f \in SUBSET A /\ f \in [DOMAIN f -> SUBSET B]
  BY <1>3
<1>. QED
  BY <1>1, <1>2, <1>3

LEMMA HoldsTyped ==
  ASSUME NEW A, NEW B, NEW f \in PartialSets(A, B), NEW x
  PROVE  Holds(f, x) \subseteq B
BY PartialSetsChar DEF Holds

LEMMA WithoutSets ==
  ASSUME NEW A, NEW B, NEW f \in PartialSets(A, B), Filled(f), NEW x
  PROVE  /\ Without(f, x) \in PartialSets(A, B) /\ Filled(Without(f, x))
         /\ DOMAIN Without(f, x) = DOMAIN f \ {x}
         /\ SetAt(Without(f, x), f, x, {})
<1>. DEFINE w == Without(f, x)
<1>1. w = [z \in DOMAIN f \ {x} |-> f[z]]
  BY DEF Without, Restrict
<1>2. DOMAIN w = DOMAIN f \ {x} /\ w = [z \in DOMAIN w |-> w[z]] /\ \A z \in DOMAIN w : w[z] = f[z]
  BY <1>1
<1>. HIDE DEF w
<1>3. w \in PartialSets(A, B)
  <2>1. DOMAIN w \subseteq A /\ \A z \in DOMAIN w : w[z] \subseteq B
    BY <1>2, PartialSetsChar
  <2>. QED
    BY <2>1, <1>2, PartialSetsChar
<1>4. Filled(w)
  BY <1>2 DEF Filled
<1>5. SetAt(w, f, x, {})
  BY <1>2 DEF SetAt, Holds
<1>6. DOMAIN w = DOMAIN f \ {x}
  BY <1>2
<1>. QED
  BY <1>3, <1>4, <1>5, <1>6 DEF w

LEMMA WithSets ==
  ASSUME NEW A, NEW B, NEW f \in PartialSets(A, B), Filled(f), NEW x \in A, NEW y \in B
  PROVE  /\ With(f, x, y) \in PartialSets(A, B) /\ Filled(With(f, x, y))
         /\ DOMAIN With(f, x, y) = DOMAIN f \cup {x}
         /\ SetAt(With(f, x, y), f, x, Holds(f, x) \cup {y})
<1>. DEFINE w == With(f, x, y)
<1>1. w = [z \in DOMAIN f \cup {x} |-> IF z = x THEN Holds(f, x) \cup {y} ELSE f[z]]
  BY DEF With
<1>2. /\ DOMAIN w = DOMAIN f \cup {x} /\ w[x] = Holds(f, x) \cup {y}
      /\ w = [z \in DOMAIN w |-> w[z]]
      /\ \A z \in DOMAIN w : z # x => z \in DOMAIN f /\ w[z] = f[z]
  BY <1>1
<1>. HIDE DEF w
<1>3. w \in PartialSets(A, B)
  <2>1. Holds(f, x) \subseteq B
    BY HoldsTyped
  <2>2. DOMAIN w \subseteq A /\ \A z \in DOMAIN w : w[z] \subseteq B
    BY <1>2, <2>1, PartialSetsChar
  <2>. QED
    BY <2>2, <1>2, PartialSetsChar
<1>4. Filled(w)
  BY <1>2 DEF Filled
<1>5. SetAt(w, f, x, Holds(f, x) \cup {y})
  BY <1>2 DEF SetAt, Holds
<1>6. DOMAIN w = DOMAIN f \cup {x}
  BY <1>2
<1>. QED
  BY <1>3, <1>4, <1>5, <1>6 DEF w

LEMMA LessSets ==
  ASSUME NEW A, NEW B, NEW f \in PartialSets(A, B), Filled(f), NEW x, NEW y
  PROVE  /\ Less(f, x, y) \in PartialSets(A, B) /\ Filled(Less(f, x, y))
         /\ DOMAIN Less(f, x, y) = IF Holds(f, x) \subseteq {y} THEN DOMAIN f \ {x} ELSE DOMAIN f
         /\ SetAt(Less(f, x, y), f, x, Holds(f, x) \ {y})
<1>1. CASE Holds(f, x) \subseteq {y}
  <2>1. Less(f, x, y) = Without(f, x) /\ Holds(f, x) \ {y} = {}
    BY <1>1 DEF Less
  <2>. QED
    BY <1>1, <2>1, WithoutSets
<1>2. CASE ~(Holds(f, x) \subseteq {y})
  <2>. DEFINE w == Less(f, x, y)
  <2>1. w = [f EXCEPT ![x] = f[x] \ {y}] /\ x \in DOMAIN f /\ Holds(f, x) = f[x]
    BY <1>2 DEF Less, Holds
  <2>2. f = [z \in DOMAIN f |-> f[z]] /\ DOMAIN f \subseteq A /\ \A z \in DOMAIN f : f[z] \subseteq B
    BY PartialSetsChar
  <2>3. /\ DOMAIN w = DOMAIN f /\ w[x] = f[x] \ {y} /\ w = [z \in DOMAIN w |-> w[z]]
        /\ \A z \in DOMAIN w : z # x => w[z] = f[z]
    BY <2>1, <2>2
  <2>. HIDE DEF w
  <2>4. w \in PartialSets(A, B)
    <3>1. DOMAIN w \subseteq A /\ \A z \in DOMAIN w : w[z] \subseteq B
      BY <2>2, <2>3
    <3>. QED
      BY <3>1, <2>3, PartialSetsChar
  <2>5. Filled(w)
    BY <1>2, <2>1, <2>3 DEF Filled
  <2>6. SetAt(w, f, x, Holds(f, x) \ {y})
    BY <2>1, <2>3 DEF SetAt, Holds
  <2>7. DOMAIN w = DOMAIN f
    BY <2>3
  <2>. QED
    BY <1>2, <2>4, <2>5, <2>6, <2>7 DEF w
<1>. QED
  BY <1>1, <1>2

LEMMA EmptiedSets ==
  ASSUME NEW A, NEW B, NEW f \in PartialSets(A, B), Filled(f), NEW s
  PROVE  /\ Emptied(f, s) \in PartialSets(A, B) /\ Filled(Emptied(f, s))
         /\ \A z : Holds(Emptied(f, s), z) = Holds(f, z) \ {s}
<1>. DEFINE w == Emptied(f, s)
<1>1. w = [z \in {r \in DOMAIN f : f[r] # {s}} |-> f[z] \ {s}]
  BY DEF Emptied
<1>2. /\ DOMAIN w = {r \in DOMAIN f : f[r] # {s}} /\ w = [z \in DOMAIN w |-> w[z]]
      /\ \A z \in DOMAIN w : w[z] = f[z] \ {s}
  BY <1>1
<1>. HIDE DEF w
<1>3. w \in PartialSets(A, B)
  <2>1. DOMAIN w \subseteq A /\ \A z \in DOMAIN w : w[z] \subseteq B
    BY <1>2, PartialSetsChar
  <2>. QED
    BY <2>1, <1>2, PartialSetsChar
<1>4. Filled(w)
  BY <1>2 DEF Filled
<1>5. \A z : Holds(w, z) = Holds(f, z) \ {s}
  BY <1>2 DEF Holds
<1>. QED
  BY <1>3, <1>4, <1>5 DEF w

LEMMA AgreeJoin ==
  ASSUME NEW m, NEW h, NEW b, Agree(m, h, b), NEW s \in Sockets, NEW room \in RoomNames
  PROVE  Agree(With(m, room, s), With(h, s, room), b \cup {s})
<1>. DEFINE n == With(m, room, s)
            k == With(h, s, room)
<1>1. /\ m \in PartialSets(RoomNames, Sockets) /\ Filled(m)
      /\ h \in PartialSets(Sockets, RoomNames) /\ Filled(h)
  BY DEF Agree
<1>2. /\ n \in PartialSets(RoomNames, Sockets) /\ Filled(n)
      /\ SetAt(n, m, room, Holds(m, room) \cup {s})
  BY <1>1, WithSets
<1>3. /\ k \in PartialSets(Sockets, RoomNames) /\ Filled(k) /\ DOMAIN k = DOMAIN h \cup {s}
      /\ SetAt(k, h, s, Holds(h, s) \cup {room})
  BY <1>1, WithSets
<1>. HIDE DEF n, k
<1>4. \A t \in Sockets, r \in RoomNames : t \in Holds(n, r) <=> r \in Holds(k, t)
  BY <1>2, <1>3 DEF Agree, SetAt
<1>5. Agree(n, k, b \cup {s})
  BY <1>2, <1>3, <1>4 DEF Agree
<1>. QED
  BY <1>5 DEF n, k

LEMMA AgreeLeave ==
  ASSUME NEW m, NEW h, NEW b, Agree(m, h, b), NEW s \in Sockets, NEW room \in RoomNames,
         s \in DOMAIN h, room \in h[s]
  PROVE  Agree(Less(m, room, s), Less(h, s, room), IF h[s] = {room} THEN b \ {s} ELSE b)
<1>. DEFINE n == Less(m, room, s)
            k == Less(h, s, room)
            c == IF h[s] = {room} THEN b \ {s} ELSE b
<1>1. /\ m \in PartialSets(RoomNames, Sockets) /\ Filled(m)
      /\ h \in PartialSets(Sockets, RoomNames) /\ Filled(h)
  BY DEF Agree
<1>2. /\ n \in PartialSets(RoomNames, Sockets) /\ Filled(n)
      /\ SetAt(n, m, room, Holds(m, room) \ {s})
  BY <1>1, LessSets
<1>3. /\ k \in PartialSets(Sockets, RoomNames) /\ Filled(k)
      /\ DOMAIN k = IF Holds(h, s) \subseteq {room} THEN DOMAIN h \ {s} ELSE DOMAIN h
      /\ SetAt(k, h, s, Holds(h, s) \ {room})
  BY <1>1, LessSets
<1>. HIDE DEF n, k
<1>4. \A t \in Sockets, r \in RoomNames : t \in Holds(n, r) <=> r \in Holds(k, t)
  BY <1>2, <1>3 DEF Agree, SetAt
<1>5. c = DOMAIN k
  <2>1. Holds(h, s) \subseteq {room} <=> h[s] = {room}
    BY DEF Holds
  <2>. QED
    BY <1>3, <2>1 DEF Agree
<1>. HIDE DEF c
<1>6. Agree(n, k, c)
  BY <1>2, <1>3, <1>4, <1>5 DEF Agree
<1>. QED
  BY <1>6 DEF n, k, c

LEMMA AgreeLeaveAll ==
  ASSUME NEW m, NEW h, NEW b, Agree(m, h, b), NEW s \in Sockets
  PROVE  Agree(Emptied(m, s), Without(h, s), b \ {s})
<1>. DEFINE n == Emptied(m, s)
            k == Without(h, s)
<1>1. /\ m \in PartialSets(RoomNames, Sockets) /\ Filled(m)
      /\ h \in PartialSets(Sockets, RoomNames) /\ Filled(h)
  BY DEF Agree
<1>2. n \in PartialSets(RoomNames, Sockets) /\ Filled(n) /\ \A z : Holds(n, z) = Holds(m, z) \ {s}
  BY <1>1, EmptiedSets
<1>3. /\ k \in PartialSets(Sockets, RoomNames) /\ Filled(k) /\ DOMAIN k = DOMAIN h \ {s}
      /\ SetAt(k, h, s, {})
  BY <1>1, WithoutSets
<1>. HIDE DEF n, k
<1>4. \A t \in Sockets, r \in RoomNames : t \in Holds(n, r) <=> r \in Holds(k, t)
  BY <1>2, <1>3 DEF Agree, SetAt
<1>5. Agree(n, k, b \ {s})
  BY <1>2, <1>3, <1>4 DEF Agree
<1>. QED
  BY <1>5 DEF n, k

LEMMA AgreeEmpty == Agree(Empty, Empty, {})
<1>. DEFINE e == Empty
<1>1. DOMAIN e = {} /\ e = [x \in DOMAIN e |-> e[x]]
  BY DEF Empty
<1>. HIDE DEF e
<1>2. e \in PartialSets(RoomNames, Sockets) /\ e \in PartialSets(Sockets, RoomNames)
  BY <1>1, PartialSetsChar
<1>3. Agree(e, e, {})
  BY <1>1, <1>2 DEF Agree, Holds, Filled
<1>. QED
  BY <1>3 DEF e

-----------------------------------------------------------------------------
(* What the variables are.                                                 *)

SocketSets == UNION {[D -> Beats] : D \in SUBSET Sockets}

LEMMA BeatChar ==
  ASSUME NEW f
  PROVE  f \in SocketSets <=>
           /\ f = [s \in DOMAIN f |-> f[s]] /\ DOMAIN f \subseteq Sockets
           /\ \A s \in DOMAIN f : f[s] \in Beats
<1>1. f \in SocketSets <=> \E D \in SUBSET Sockets : f \in [D -> Beats]
  BY DEF SocketSets
<1>2. ASSUME NEW D \in SUBSET Sockets, f \in [D -> Beats]
      PROVE  /\ f = [s \in DOMAIN f |-> f[s]] /\ DOMAIN f \subseteq Sockets
             /\ \A s \in DOMAIN f : f[s] \in Beats
  BY <1>2
<1>3. ASSUME f = [s \in DOMAIN f |-> f[s]], DOMAIN f \subseteq Sockets, \A s \in DOMAIN f : f[s] \in Beats
      PROVE  DOMAIN f \in SUBSET Sockets /\ f \in [DOMAIN f -> Beats]
  BY <1>3
<1>. QED
  BY <1>1, <1>2, <1>3

\* The part of TypeOK that is not about rooms, which RegistriesAgree types.
LifeTyped ==
  /\ stage \in [Sockets -> Stages]
  /\ unborn \subseteq Sockets /\ reported \subseteq Sockets /\ clients \subseteq Sockets
  /\ unanswered \subseteq Sockets /\ silent \subseteq Sockets
  /\ late \subseteq Sockets /\ excused \subseteq Sockets
  /\ beat \in SocketSets /\ ticking \in BOOLEAN
  /\ \A s \in clients \cup reported \cup Tracked : Exists(s)

RoomsTyped ==
  /\ rooms \in [Registries -> PartialSets(RoomNames, Sockets)]
  /\ socketRooms \in [Registries -> PartialSets(Sockets, RoomNames)]
  /\ bindings \in [Registries -> SUBSET Sockets]
  /\ listening \in [Registries -> SUBSET Sockets]

LEMMA TypeParts == TypeOK <=> LifeTyped /\ RoomsTyped
<1>1. beat \in SocketSets => Tracked \subseteq Sockets
  BY BeatChar DEF Tracked
<1>2. {unborn, reported, clients, unanswered, silent, late, excused} \subseteq SUBSET Sockets <=>
        /\ unborn \subseteq Sockets /\ reported \subseteq Sockets /\ clients \subseteq Sockets
        /\ unanswered \subseteq Sockets /\ silent \subseteq Sockets
        /\ late \subseteq Sockets /\ excused \subseteq Sockets
  OBVIOUS
<1>3. ASSUME clients \subseteq Sockets, reported \subseteq Sockets, Tracked \subseteq Sockets
      PROVE  clients \cup reported \cup Tracked \subseteq {s \in Sockets : Exists(s)} <=>
               \A s \in clients \cup reported \cup Tracked : Exists(s)
  BY <1>3
<1>. QED
  BY <1>1, <1>2, <1>3 DEF TypeOK, LifeTyped, RoomsTyped, SocketSets

LEMMA InitRInv == Init => RInv
<1>. SUFFICES ASSUME Init PROVE RInv
  OBVIOUS
<1>1. /\ \A g \in Registries : rooms[g] = Empty /\ socketRooms[g] = Empty /\ bindings[g] = {}
                                /\ listening[g] = {}
      /\ reported = {} /\ clients = {} /\ beat = Empty
  BY DEF Init
<1>2. beat \in SocketSets /\ Tracked = {}
  <2>. DEFINE e == Empty
  <2>1. DOMAIN e = {} /\ e = [x \in DOMAIN e |-> e[x]]
    BY DEF Empty
  <2>. HIDE DEF e
  <2>2. e \in SocketSets
    BY <2>1, BeatChar
  <2>. QED
    BY <1>1, <2>1, <2>2 DEF Tracked, e
<1>3. LifeTyped
  BY <1>2 DEF Init, LifeTyped, Stages
<1>4. RegistriesAgree
  BY <1>1, AgreeEmpty DEF RegistriesAgree
<1>5. RoomsTyped
  <2>1. Empty \in PartialSets(RoomNames, Sockets) /\ Empty \in PartialSets(Sockets, RoomNames)
    BY AgreeEmpty DEF Agree
  <2>. QED
    BY <2>1 DEF Init, RoomsTyped
<1>6. MembersHear /\ TwoHomesExcused /\ NothingKept /\ OpenMembersWatched
  BY <1>1 DEF MembersHear, TwoHomesExcused, NothingKept, OpenMembersWatched
<1>7. PongsOwed
  BY <1>2 DEF PongsOwed
<1>. QED
  BY <1>3, <1>4, <1>5, <1>6, <1>7, TypeParts DEF RInv

-----------------------------------------------------------------------------
(* Steps outside the rooms.                                                *)

\* A step that moves no member.  Sockets are born, close, and do not open again; who comes to
\* the clients or the heartbeat is there, and late if it comes after its close event; and
\* the heartbeat lets go of nobody that is open but on the application's behalf.
LEMMA OutsideRooms ==
  ASSUME RInv, UNCHANGED <<reported, rooms, socketRooms, bindings, listening>>,
         stage' \in [Sockets -> Stages],
         unborn' \subseteq Sockets, clients' \subseteq Sockets, unanswered' \subseteq Sockets,
         silent' \subseteq Sockets, late' \subseteq Sockets, excused' \subseteq Sockets,
         late \subseteq late', excused \subseteq excused',
         beat' \in SocketSets, ticking' \in BOOLEAN, ticking' => ticking,
         \A s \in Sockets : Exists(s) => Exists(s)' /\ (stage'[s] = "open" => stage[s] = "open"),
         \A s \in Sockets : stage[s] = "closed" => stage'[s] = "closed",
         \A s \in clients' : s \in clients \/ (Exists(s)' /\ s \notin reported),
         \A s \in Tracked' : s \in Tracked \/ (Exists(s)' /\ (s \in reported => s \in late')),
         ticking' => \A s \in Tracked : s \in Tracked' \/ s \in excused' \/ stage'[s] # "open",
         PongsOwed'
  PROVE  RInv'
<1>1. LifeTyped /\ RoomsTyped
  BY TypeParts DEF RInv
<1>2. Tracked \subseteq Sockets
  BY <1>1, BeatChar DEF LifeTyped, Tracked
<1>3. LifeTyped'
  BY <1>1, <1>2 DEF LifeTyped
<1>4. RoomsTyped' /\ RegistriesAgree'
  BY <1>1 DEF RInv, RoomsTyped, RegistriesAgree
<1>5. MembersHear'
  BY DEF RInv, MembersHear
<1>6. TwoHomesExcused'
  BY DEF RInv, TwoHomesExcused
<1>7. NothingKept'
  BY <1>1 DEF RInv, NothingKept, LifeTyped
<1>8. OpenMembersWatched'
  <2>. SUFFICES ASSUME NEW g \in Registries, NEW s \in bindings[g] \ excused', ticking', stage'[s] = "open"
                PROVE  s \in Tracked'
    BY DEF OpenMembersWatched
  <2>1. s \in Sockets /\ Exists(s)
    BY DEF RInv, MembersHear
  <2>2. s \in Tracked
    BY <2>1 DEF RInv, OpenMembersWatched
  <2>. QED
    BY <2>2
<1>9. TypeOK'
  BY <1>3, <1>4, TypeParts, PTL
<1>. QED
  BY <1>4, <1>5, <1>6, <1>7, <1>8, <1>9 DEF RInv

\* A step of the sockets and their peers, which the heartbeat does not see.
LEMMA LifeMoves ==
  ASSUME RInv, UNCHANGED <<reported, roomVars, beatVars, unanswered>>,
         stage' \in [Sockets -> Stages],
         unborn' \subseteq Sockets, clients' \subseteq Sockets,
         silent' \subseteq Sockets, late' \subseteq Sockets,
         late \subseteq late', unborn \subseteq unborn', silent \subseteq silent',
         \A s \in Sockets : Exists(s) => Exists(s)' /\ (stage'[s] = "open" => stage[s] = "open"),
         \A s \in Sockets : stage[s] = "closed" => stage'[s] = "closed",
         \A s \in clients' : s \in clients \/ (Exists(s)' /\ s \notin reported)
  PROVE  RInv'
<1>1. LifeTyped
  BY TypeParts DEF RInv
<1>2. /\ beat' = beat /\ ticking' = ticking /\ Tracked' = Tracked /\ excused' = excused
      /\ UNCHANGED <<rooms, socketRooms, bindings, listening>>
  BY DEF roomVars, beatVars, Tracked
<1>3. PongsOwed'
  BY <1>2 DEF RInv, PongsOwed
<1>. QED
  BY <1>1, <1>2, <1>3, OutsideRooms DEF LifeTyped

LEMMA UpgradeStep ==
  ASSUME RInv, NEW s \in Sockets, Upgrade(s) \/ UpgradeRejected(s) \/ RawDiesEarly(s)
  PROVE  RInv'
<1>1. LifeTyped
  BY TypeParts DEF RInv
<1>2. CASE Upgrade(s)
  BY <1>1, <1>2, LifeMoves DEF Upgrade, LifeTyped, Stages, Exists, peerVars
<1>3. CASE UpgradeRejected(s)
  BY <1>1, <1>3, LifeMoves DEF UpgradeRejected, LifeTyped, Stages, Exists, peerVars
<1>4. CASE RawDiesEarly(s)
  BY <1>1, <1>4, LifeMoves DEF RawDiesEarly, LifeTyped, peerVars, Exists
<1>. QED
  BY <1>2, <1>3, <1>4

LEMMA UpgradeEndsStep ==
  ASSUME RInv, NEW s \in Sockets, UpgradeEnds(s)
  PROVE  RInv'
<1>1. LifeTyped
  BY TypeParts DEF RInv
<1>2. stage[s] = "verifying" /\ ~Exists(s) /\ s \notin reported
  BY DEF UpgradeEnds, Exists, RInv, NothingKept
<1>3. stage' = [stage EXCEPT ![s] = "open"] /\ clients' = clients \cup {s}
      /\ late' = (IF s \in unborn THEN late \cup {s} ELSE late)
      /\ UNCHANGED <<unborn, reported, roomVars, beatVars, unanswered, silent>>
  BY DEF UpgradeEnds, peerVars
<1>. QED
  BY <1>1, <1>2, <1>3, LifeMoves DEF LifeTyped, Stages, Exists

LEMMA ClosingStep ==
  ASSUME RInv, NEW s \in Sockets, BeginsToClose(s) \/ Terminates(s) \/ FallsSilent(s)
  PROVE  RInv'
<1>1. LifeTyped
  BY TypeParts DEF RInv
<1>2. CASE BeginsToClose(s)
  BY <1>1, <1>2, LifeMoves DEF BeginsToClose, LifeTyped, Stages, Exists, peerVars
<1>3. CASE Terminates(s)
  BY <1>1, <1>3, LifeMoves DEF Terminates, LifeTyped, Stages, Exists, peerVars
<1>4. CASE FallsSilent(s)
  BY <1>1, <1>4, LifeMoves DEF FallsSilent, LifeTyped, lifeVars, Exists
<1>. QED
  BY <1>2, <1>3, <1>4

LEMMA ServerClosesStep == ASSUME RInv, ServerCloses PROVE RInv'
<1>1. LifeTyped
  BY TypeParts DEF RInv
<1>. QED
  BY <1>1, LifeMoves DEF ServerCloses, LifeTyped, Stages, Exists, peerVars

-----------------------------------------------------------------------------
(* The heartbeat.                                                          *)

LEMMA BeatWithout ==
  ASSUME beat \in SocketSets, NEW s
  PROVE  /\ Without(beat, s) \in SocketSets
         /\ DOMAIN Without(beat, s) = Tracked \ {s}
         /\ \A t \in Tracked \ {s} : Without(beat, s)[t] = beat[t]
<1>. DEFINE w == Without(beat, s)
<1>1. w = [t \in DOMAIN beat \ {s} |-> beat[t]]
  BY DEF Without, Restrict
<1>2. DOMAIN w = Tracked \ {s} /\ w = [t \in DOMAIN w |-> w[t]] /\ \A t \in DOMAIN w : w[t] = beat[t]
  BY <1>1 DEF Tracked
<1>. HIDE DEF w
<1>3. DOMAIN w \subseteq Sockets /\ \A t \in DOMAIN w : w[t] \in Beats
  BY <1>2, BeatChar DEF Tracked
<1>4. w \in SocketSets
  BY <1>2, <1>3, BeatChar
<1>. QED
  BY <1>2, <1>4 DEF w

LEMMA BeatWith ==
  ASSUME beat \in SocketSets, NEW s \in Sockets
  PROVE  /\ TrackedToo(s) \in SocketSets
         /\ DOMAIN TrackedToo(s) = Tracked \cup {s}
         /\ \A t \in Tracked : TrackedToo(s)[t] = beat[t]
         /\ s \notin Tracked => TrackedToo(s)[s] = "quiet"
<1>1. CASE s \in Tracked
  BY <1>1 DEF TrackedToo, Tracked
<1>2. CASE s \notin Tracked
  <2>. DEFINE w == TrackedToo(s)
  <2>1. w = [t \in Tracked \cup {s} |-> IF t = s THEN "quiet" ELSE beat[t]]
    BY <1>2 DEF TrackedToo
  <2>2. /\ DOMAIN w = Tracked \cup {s} /\ w = [t \in DOMAIN w |-> w[t]]
        /\ w[s] = "quiet" /\ \A t \in Tracked : w[t] = beat[t]
    BY <1>2, <2>1
  <2>. HIDE DEF w
  <2>3. DOMAIN w \subseteq Sockets /\ \A t \in DOMAIN w : w[t] \in Beats
    BY <2>2, BeatChar DEF Tracked, Beats
  <2>4. w \in SocketSets
    BY <2>2, <2>3, BeatChar
  <2>. QED
    BY <2>2, <2>4 DEF w
<1>. QED
  BY <1>1, <1>2

LEMMA TrackStep ==
  ASSUME RInv, NEW s \in Sockets, Track(s)
  PROVE  RInv'
<1>1. LifeTyped
  BY TypeParts DEF RInv
<1>2. /\ Exists(s) /\ beat' = TrackedToo(s)
      /\ late' = (IF s \in reported THEN late \cup {s} ELSE late)
      /\ UNCHANGED <<stage, unborn, reported, clients, rooms, socketRooms, bindings, listening, excused,
                     ticking, unanswered, silent>>
  BY DEF Track, lifeVars, roomVars, peerVars
<1>3. /\ beat' \in SocketSets /\ Tracked' = Tracked \cup {s}
      /\ \A t \in Tracked : beat'[t] = beat[t]
      /\ s \notin Tracked => beat'[s] = "quiet"
  BY <1>1, <1>2, BeatWith DEF LifeTyped, Tracked
<1>4. PongsOwed'
  BY <1>2, <1>3 DEF RInv, PongsOwed
<1>. QED
  BY <1>1, <1>2, <1>3, <1>4, OutsideRooms DEF LifeTyped, Exists

LEMMA UntrackStep ==
  ASSUME RInv, NEW s \in Sockets, Untrack(s)
  PROVE  RInv'
<1>1. LifeTyped
  BY TypeParts DEF RInv
<1>2. /\ beat' = Without(beat, s) /\ excused' = excused \cup {s}
      /\ UNCHANGED <<stage, unborn, reported, clients, rooms, socketRooms, bindings, listening, late,
                     ticking, unanswered, silent>>
  BY DEF Untrack, lifeVars, peerVars
<1>3. /\ beat' \in SocketSets /\ Tracked' = Tracked \ {s}
      /\ \A t \in Tracked \ {s} : beat'[t] = beat[t]
  BY <1>1, <1>2, BeatWithout DEF LifeTyped, Tracked
<1>4. PongsOwed'
  BY <1>2, <1>3 DEF RInv, PongsOwed
<1>. QED
  BY <1>1, <1>2, <1>3, <1>4, OutsideRooms DEF LifeTyped, Exists

LEMMA DeadlinePassesStep ==
  ASSUME RInv, NEW s \in Sockets, DeadlinePasses(s)
  PROVE  RInv'
<1>1. LifeTyped
  BY TypeParts DEF RInv
<1>2. /\ s \in Tracked /\ beat[s] = "awaiting" /\ (s \in unanswered => s \in silent \cup unborn)
      /\ beat' = [beat EXCEPT ![s] = "due"]
      /\ UNCHANGED <<stage, unborn, reported, clients, rooms, socketRooms, bindings, listening, excused,
                     late, ticking, unanswered, silent>>
  BY DEF DeadlinePasses, lifeVars, roomVars, peerVars
<1>3. beat' = [t \in DOMAIN beat' |-> beat'[t]] /\ DOMAIN beat' = Tracked
      /\ \A t \in Tracked : beat'[t] = IF t = s THEN "due" ELSE beat[t]
  BY <1>1, <1>2, BeatChar DEF LifeTyped, Tracked
<1>4. beat' \in SocketSets
  BY <1>1, <1>3, BeatChar DEF LifeTyped, Tracked, Beats
<1>5. PongsOwed'
  BY <1>2, <1>3 DEF RInv, PongsOwed, Tracked
<1>. QED
  BY <1>1, <1>2, <1>3, <1>4, <1>5, OutsideRooms DEF LifeTyped, Exists, Tracked

LEMMA PongStep ==
  ASSUME RInv, NEW s \in Sockets, Pong(s)
  PROVE  RInv'
<1>1. LifeTyped
  BY TypeParts DEF RInv
<1>2. /\ unanswered' = unanswered \ {s}
      /\ beat' = [t \in Tracked |-> IF t = s THEN "quiet" ELSE beat[t]]
      /\ UNCHANGED <<stage, unborn, reported, clients, rooms, socketRooms, bindings, listening, excused,
                     late, ticking, silent>>
  BY DEF Pong, lifeVars, roomVars
<1>3. beat' = [t \in DOMAIN beat' |-> beat'[t]] /\ DOMAIN beat' = Tracked
      /\ \A t \in Tracked : beat'[t] = IF t = s THEN "quiet" ELSE beat[t]
  BY <1>2
<1>4. beat' \in SocketSets
  BY <1>1, <1>3, BeatChar DEF LifeTyped, Tracked, Beats
<1>5. PongsOwed'
  BY <1>2, <1>3 DEF RInv, PongsOwed, Tracked
<1>. QED
  BY <1>1, <1>2, <1>3, <1>4, <1>5, OutsideRooms DEF LifeTyped, Exists, Tracked

LEMMA HeartbeatClosesStep == ASSUME RInv, HeartbeatCloses PROVE RInv'
<1>1. LifeTyped
  BY TypeParts DEF RInv
<1>2. /\ ticking' = FALSE /\ beat' = Empty
      /\ UNCHANGED <<stage, unborn, reported, clients, rooms, socketRooms, bindings, listening, excused,
                     late, unanswered, silent>>
  BY DEF HeartbeatCloses, lifeVars, roomVars, peerVars
<1>3. DOMAIN beat' = {} /\ beat' = [x \in DOMAIN beat' |-> beat'[x]]
  BY <1>2 DEF Empty
<1>4. beat' \in SocketSets /\ Tracked' = {}
  BY <1>3, BeatChar DEF Tracked
<1>5. PongsOwed'
  BY <1>4 DEF PongsOwed
<1>. QED
  BY <1>1, <1>2, <1>4, <1>5, OutsideRooms DEF LifeTyped, Exists

LEMMA TickStep == ASSUME RInv, Tick PROVE RInv'
<1>1. LifeTyped
  BY TypeParts DEF RInv
<1>2. PICK left \in {"closing", "closed"} : stage' = [s \in Sockets |-> IF s \in Cut THEN left ELSE stage[s]]
  BY DEF Tick
<1>3. /\ beat' = [s \in Tracked \ Untracked |-> IF s \in Pinged THEN "awaiting" ELSE beat[s]]
      /\ unanswered' = unanswered \cup Pinged
      /\ UNCHANGED <<unborn, reported, clients, rooms, socketRooms, bindings, listening, excused,
                     late, ticking, silent>>
  BY DEF Tick, roomVars
<1>4. Tracked \subseteq Sockets /\ Pinged \subseteq Tracked /\ Expired \subseteq Untracked
  BY <1>1, BeatChar DEF LifeTyped, Tracked, Pinged, Untracked
<1>5. beat' = [t \in DOMAIN beat' |-> beat'[t]] /\ DOMAIN beat' = Tracked \ Untracked
      /\ \A t \in Tracked \ Untracked : beat'[t] = IF t \in Pinged THEN "awaiting" ELSE beat[t]
  BY <1>3
<1>6. beat' \in SocketSets
  BY <1>1, <1>4, <1>5, BeatChar DEF LifeTyped, Tracked, Beats
<1>7. PongsOwed'
  <2>1. \A t \in Tracked \ Untracked : beat[t] # "due"
    BY DEF Untracked, Expired
  <2>. QED
    BY <2>1, <1>3, <1>5 DEF RInv, PongsOwed, Tracked
<1>8. /\ \A s \in Cut : stage[s] = "open" /\ s \in Tracked
      /\ \A s \in Untracked \ Cut : stage[s] # "open"
  BY DEF Cut, Untracked, Expired
<1>9. stage' \in [Sockets -> Stages]
  BY <1>1, <1>2 DEF LifeTyped, Stages
<1>10. \A s \in Sockets : Exists(s) => Exists(s)' /\ (stage'[s] = "open" => stage[s] = "open")
  BY <1>2, <1>8 DEF Exists
<1>11. \A s \in Sockets : stage[s] = "closed" => stage'[s] = "closed"
  BY <1>2, <1>8
<1>12. \A s \in Tracked : s \in Tracked' \/ stage'[s] # "open"
  BY <1>2, <1>4, <1>5, <1>8 DEF Tracked
<1>13. Tracked' \subseteq Tracked
  BY <1>5 DEF Tracked
<1>. QED
  BY <1>1, <1>3, <1>4, <1>6, <1>7, <1>9, <1>10, <1>11, <1>12, <1>13, OutsideRooms DEF LifeTyped

-----------------------------------------------------------------------------
(* The rooms.                                                              *)

\* A step of one socket in one registry, by the application.
LEMMA InsideRooms ==
  ASSUME RInv, NEW g \in Registries, NEW s \in Sockets, Exists(s),
         UNCHANGED <<lifeVars, ticking, peerVars>>,
         RoomsTyped', RegistriesAgree',
         \A h \in Registries \ {g} : bindings'[h] = bindings[h] /\ listening'[h] = listening[h],
         \A t \in Sockets \ {s} : /\ t \in bindings'[g] <=> t \in bindings[g]
                                  /\ t \in listening'[g] <=> t \in listening[g],
         s \notin reported => (s \in bindings'[g] <=> s \in listening'[g]),
         late' \subseteq Sockets, late \subseteq late',
         excused' \subseteq Sockets, excused \subseteq excused',
         \A h \in Registries \ {g} : s \in bindings'[g] \cap bindings[h] => s \in excused',
         s \in reported \ late' => s \notin Tracked' /\ s \notin bindings'[g],
         beat' \in SocketSets, \A t \in Tracked' \ {s} : t \in Tracked /\ beat'[t] = beat[t],
         Tracked \ {s} \subseteq Tracked',
         s \in Tracked' => beat'[s] = "quiet" \/ (s \in Tracked /\ beat'[s] = beat[s]),
         \A h \in Registries : s \in bindings'[h] \ excused' => 
           s \in Tracked' \/ ~(ticking /\ stage[s] = "open")
  PROVE  RInv'
<1>1. LifeTyped
  BY TypeParts DEF RInv
<1>2. /\ UNCHANGED <<stage, unborn, reported, clients, ticking, unanswered, silent>>
      /\ \A t : Exists(t)' = Exists(t)
  BY DEF lifeVars, peerVars, Exists
<1>3. LifeTyped'
  BY <1>1, <1>2 DEF LifeTyped
<1>4. TypeOK'
  BY <1>3, TypeParts, PTL
<1>5. \A h \in Registries : bindings'[h] \subseteq Sockets
  BY DEF RoomsTyped
<1>6. MembersHear'
  BY <1>2, <1>5 DEF RInv, MembersHear
<1>7. TwoHomesExcused'
  BY <1>2, <1>5 DEF RInv, TwoHomesExcused
<1>8. NothingKept'
  BY <1>1, <1>2 DEF RInv, NothingKept, LifeTyped
<1>9. OpenMembersWatched'
  BY <1>2, <1>5 DEF RInv, OpenMembersWatched
<1>10. PongsOwed'
  BY <1>2 DEF RInv, PongsOwed
<1>. QED
  BY <1>4, <1>6, <1>7, <1>8, <1>9, <1>10 DEF RInv

LEMMA JoinStep ==
  ASSUME RInv, NEW g \in Registries, NEW room \in RoomNames, NEW s \in Sockets, Join(g, room, s)
  PROVE  RInv'
<1>1. LifeTyped /\ RoomsTyped
  BY TypeParts DEF RInv
<1>2. /\ Exists(s) /\ UNCHANGED <<lifeVars, ticking, peerVars>> /\ beat' = TrackedToo(s)
      /\ rooms' = [rooms EXCEPT ![g] = With(rooms[g], room, s)]
      /\ socketRooms' = [socketRooms EXCEPT ![g] = With(socketRooms[g], s, room)]
      /\ bindings' = [bindings EXCEPT ![g] = bindings[g] \cup {s}]
      /\ listening' = IF s \in bindings[g] THEN listening
                      ELSE [listening EXCEPT ![g] = listening[g] \cup {s}]
      /\ late' = IF s \in reported THEN late \cup {s} ELSE late
      /\ excused' = IF \E h \in Registries \ {g} : s \in DOMAIN socketRooms[h]
                    THEN excused \cup {s} ELSE excused
  BY DEF Join
<1>3. /\ \A h \in Registries \ {g} : /\ rooms'[h] = rooms[h] /\ socketRooms'[h] = socketRooms[h]
                                     /\ bindings'[h] = bindings[h] /\ listening'[h] = listening[h]
      /\ rooms'[g] = With(rooms[g], room, s) /\ socketRooms'[g] = With(socketRooms[g], s, room)
      /\ bindings'[g] = bindings[g] \cup {s}
      /\ listening'[g] = IF s \in bindings[g] THEN listening[g] ELSE listening[g] \cup {s}
  BY <1>1, <1>2 DEF RoomsTyped
<1>4. Agree(rooms'[g], socketRooms'[g], bindings'[g])
  BY <1>3, AgreeJoin DEF RInv, RegistriesAgree
<1>5. RegistriesAgree'
  BY <1>3, <1>4 DEF RInv, RegistriesAgree
<1>6. RoomsTyped'
  <2>1. /\ With(rooms[g], room, s) \in PartialSets(RoomNames, Sockets)
        /\ With(socketRooms[g], s, room) \in PartialSets(Sockets, RoomNames)
    BY <1>3, <1>4 DEF Agree
  <2>. QED
    BY <1>1, <1>2, <2>1 DEF RoomsTyped
<1>7. \A h \in Registries : bindings[h] = DOMAIN socketRooms[h]
  BY DEF RInv, RegistriesAgree, Agree
<1>8. /\ beat' \in SocketSets /\ Tracked' = Tracked \cup {s}
      /\ \A t \in Tracked : beat'[t] = beat[t]
      /\ s \notin Tracked => beat'[s] = "quiet"
  BY <1>1, <1>2, BeatWith DEF LifeTyped, Tracked
<1>9. \A h \in Registries \ {g} : s \in bindings'[g] \cap bindings[h] => s \in excused'
  BY <1>2, <1>7
<1>10. s \notin reported => (s \in bindings'[g] <=> s \in listening'[g])
  BY <1>3 DEF RInv, MembersHear
<1>11. /\ late' \subseteq Sockets /\ late \subseteq late' /\ excused' \subseteq Sockets /\ excused \subseteq excused'
       /\ s \in reported => s \in late'
  BY <1>1, <1>2 DEF LifeTyped
<1>. QED
  BY <1>2, <1>3, <1>5, <1>6, <1>8, <1>9, <1>10, <1>11, InsideRooms

\* The end of removeSocketFromRoom for the last room of a socket.
LEMMA LastRoom ==
  ASSUME RInv, NEW g \in Registries, NEW s \in Sockets, LastRoomLeft(g, s)
  PROVE  /\ bindings' \in [Registries -> SUBSET Sockets] /\ listening' \in [Registries -> SUBSET Sockets]
         /\ \A h \in Registries \ {g} : bindings'[h] = bindings[h] /\ listening'[h] = listening[h]
         /\ bindings'[g] = bindings[g] \ {s} /\ listening'[g] = listening[g] \ {s}
         /\ beat' \in SocketSets /\ Tracked' = Tracked \ {s}
         /\ \A t \in Tracked \ {s} : beat'[t] = beat[t]
<1>1. LifeTyped /\ RoomsTyped
  BY TypeParts DEF RInv
<1>2. /\ bindings' = [bindings EXCEPT ![g] = bindings[g] \ {s}]
      /\ listening' = [listening EXCEPT ![g] = listening[g] \ {s}]
      /\ beat' = Without(beat, s)
  BY DEF LastRoomLeft, Unbound
<1>3. /\ beat' \in SocketSets /\ Tracked' = Tracked \ {s}
      /\ \A t \in Tracked \ {s} : beat'[t] = beat[t]
  BY <1>1, <1>2, BeatWithout DEF LifeTyped, Tracked
<1>. QED
  BY <1>1, <1>2, <1>3 DEF RoomsTyped

\* A socket that leaves the last of its rooms in a registry may still be in another.
LEMMA LastRoomMoves ==
  ASSUME RInv, NEW g \in Registries, NEW s \in Sockets, LastRoomLeft(g, s),
         s \in bindings[g], UNCHANGED <<lifeVars, ticking, peerVars, late, excused>>,
         RoomsTyped', RegistriesAgree'
  PROVE  RInv'
<1>1. LifeTyped
  BY TypeParts DEF RInv
<1>2. Exists(s)
  BY DEF RInv, MembersHear
<1>3. \A h \in Registries : s \in bindings'[h] => s \in excused
  BY LastRoom DEF RInv, TwoHomesExcused
<1>4. s \notin Tracked' /\ s \notin bindings'[g] /\ s \notin listening'[g]
  BY LastRoom
<1>. QED
  BY <1>1, <1>2, <1>3, <1>4, LastRoom, InsideRooms DEF LifeTyped

LEMMA LeaveStep ==
  ASSUME RInv, NEW g \in Registries, NEW room \in RoomNames, NEW s \in Sockets, Leave(g, room, s)
  PROVE  RInv'
<1>1. LifeTyped /\ RoomsTyped
  BY TypeParts DEF RInv
<1>2. /\ s \in DOMAIN socketRooms[g] /\ room \in socketRooms[g][s]
      /\ rooms' = [rooms EXCEPT ![g] = Less(rooms[g], room, s)]
      /\ socketRooms' = [socketRooms EXCEPT ![g] = Less(socketRooms[g], s, room)]
      /\ UNCHANGED <<lifeVars, ticking, peerVars, late, excused>>
  BY DEF Leave
<1>3. /\ \A h \in Registries \ {g} : rooms'[h] = rooms[h] /\ socketRooms'[h] = socketRooms[h]
      /\ rooms'[g] = Less(rooms[g], room, s) /\ socketRooms'[g] = Less(socketRooms[g], s, room)
  BY <1>1, <1>2 DEF RoomsTyped
<1>4. /\ s \in bindings[g]
      /\ Agree(rooms'[g], socketRooms'[g], IF socketRooms[g][s] = {room} THEN bindings[g] \ {s} ELSE bindings[g])
  <2>1. Agree(rooms[g], socketRooms[g], bindings[g])
    BY DEF RInv, RegistriesAgree
  <2>2. s \in bindings[g]
    BY <1>2, <2>1 DEF Agree
  <2>. DEFINE m == rooms[g]
              h == socketRooms[g]
  <2>3. Agree(Less(m, room, s), Less(h, s, room), IF h[s] = {room} THEN bindings[g] \ {s} ELSE bindings[g])
    BY <1>2, <2>1, AgreeLeave
  <2>. QED
    BY <1>3, <2>2, <2>3
<1>5. /\ rooms' \in [Registries -> PartialSets(RoomNames, Sockets)]
      /\ socketRooms' \in [Registries -> PartialSets(Sockets, RoomNames)]
  <2>1. /\ Less(rooms[g], room, s) \in PartialSets(RoomNames, Sockets)
        /\ Less(socketRooms[g], s, room) \in PartialSets(Sockets, RoomNames)
    BY <1>3, <1>4 DEF Agree
  <2>. QED
    BY <1>1, <1>2, <2>1 DEF RoomsTyped
<1>6. CASE socketRooms[g][s] = {room}
  <2>1. LastRoomLeft(g, s)
    BY <1>6 DEF Leave
  <2>2. RoomsTyped'
    BY <1>5, <2>1, LastRoom DEF RoomsTyped
  <2>3. RegistriesAgree'
    <3>1. /\ bindings'[g] = bindings[g] \ {s}
          /\ \A h \in Registries \ {g} : bindings'[h] = bindings[h]
      BY <2>1, LastRoom
    <3>2. Agree(rooms'[g], socketRooms'[g], bindings'[g])
      BY <1>4, <1>6, <3>1
    <3>. QED
      BY <1>3, <3>1, <3>2 DEF RInv, RegistriesAgree
  <2>. QED
    BY <1>2, <1>4, <2>1, <2>2, <2>3, LastRoomMoves
<1>7. CASE socketRooms[g][s] # {room}
  <2>1. beat' = beat /\ bindings' = bindings /\ listening' = listening /\ Tracked' = Tracked
    BY <1>7 DEF Leave, Tracked
  <2>2. RoomsTyped'
    BY <1>1, <1>5, <2>1 DEF RoomsTyped
  <2>3. RegistriesAgree'
    BY <1>3, <1>4, <1>7, <2>1 DEF RInv, RegistriesAgree
  <2>4. Exists(s)
    BY <1>4 DEF RInv, MembersHear
  <2>5. s \notin reported => (s \in bindings'[g] <=> s \in listening'[g])
    BY <2>1 DEF RInv, MembersHear
  <2>6. s \in reported \ late' => s \notin Tracked' /\ s \notin bindings'[g]
    BY <1>2, <2>1 DEF RInv, NothingKept
  <2>7. \A h \in Registries \ {g} : s \in bindings'[g] \cap bindings[h] => s \in excused'
    BY <1>2, <2>1 DEF RInv, TwoHomesExcused
  <2>8. \A h \in Registries : s \in bindings'[h] \ excused' =>
          s \in Tracked' \/ ~(ticking /\ stage[s] = "open")
    BY <1>2, <2>1 DEF RInv, OpenMembersWatched
  <2>. QED
    BY <1>1, <1>2, <2>1, <2>2, <2>3, <2>4, <2>5, <2>6, <2>7, <2>8, InsideRooms DEF LifeTyped
<1>. QED
  BY <1>6, <1>7

LEMMA LeaveAllStep ==
  ASSUME RInv, NEW g \in Registries, NEW s \in Sockets, LeaveAll(g, s)
  PROVE  RInv'
<1>1. RoomsTyped
  BY TypeParts DEF RInv
<1>2. /\ s \in DOMAIN socketRooms[g] /\ LastRoomLeft(g, s)
      /\ rooms' = [rooms EXCEPT ![g] = Emptied(rooms[g], s)]
      /\ socketRooms' = [socketRooms EXCEPT ![g] = Without(socketRooms[g], s)]
      /\ UNCHANGED <<lifeVars, ticking, peerVars, late, excused>>
  BY DEF LeaveAll
<1>3. /\ \A h \in Registries \ {g} : rooms'[h] = rooms[h] /\ socketRooms'[h] = socketRooms[h]
      /\ rooms'[g] = Emptied(rooms[g], s) /\ socketRooms'[g] = Without(socketRooms[g], s)
  BY <1>1, <1>2 DEF RoomsTyped
<1>4. s \in bindings[g] /\ Agree(rooms'[g], socketRooms'[g], bindings'[g])
  <2>1. Agree(rooms[g], socketRooms[g], bindings[g])
    BY DEF RInv, RegistriesAgree
  <2>2. s \in bindings[g]
    BY <1>2, <2>1 DEF Agree
  <2>3. Agree(Emptied(rooms[g], s), Without(socketRooms[g], s), bindings[g] \ {s})
    BY <2>1, AgreeLeaveAll
  <2>4. bindings'[g] = bindings[g] \ {s}
    BY <1>2, LastRoom
  <2>. QED
    BY <1>3, <2>2, <2>3, <2>4
<1>5. RegistriesAgree'
  BY <1>2, <1>3, <1>4, LastRoom DEF RInv, RegistriesAgree
<1>6. RoomsTyped'
  <2>1. /\ Emptied(rooms[g], s) \in PartialSets(RoomNames, Sockets)
        /\ Without(socketRooms[g], s) \in PartialSets(Sockets, RoomNames)
    BY <1>3, <1>4 DEF Agree
  <2>. QED
    BY <1>1, <1>2, <2>1, LastRoom DEF RoomsTyped
<1>. QED
  BY <1>2, <1>4, <1>5, <1>6, LastRoomMoves

LEMMA ReportCloseStep ==
  ASSUME RInv, NEW s \in Sockets, ReportClose(s)
  PROVE  RInv'
<1>1. LifeTyped /\ RoomsTyped
  BY TypeParts DEF RInv
<1>2. /\ Exists(s) /\ s \notin reported
      /\ stage' = [stage EXCEPT ![s] = "closed"] /\ reported' = reported \cup {s}
      /\ clients' = clients \ {s} /\ beat' = Without(beat, s)
      /\ silent' = silent \ {s} /\ unanswered' = unanswered \ {s}
      /\ UNCHANGED <<unborn, ticking, late, excused>>
  BY DEF ReportClose
<1>3. \A g \in Registries : s \in bindings[g] <=> s \in listening[g]
  BY <1>2 DEF RInv, MembersHear
<1>4. \A g \in Registries :
        /\ rooms'[g] = IF s \in listening[g] THEN Emptied(rooms[g], s) ELSE rooms[g]
        /\ socketRooms'[g] = IF s \in listening[g] THEN Without(socketRooms[g], s) ELSE socketRooms[g]
        /\ bindings'[g] = IF s \in listening[g] THEN bindings[g] \ {s} ELSE bindings[g]
        /\ listening'[g] = listening[g] \ {s}
  BY DEF ReportClose, Hearing, Unbound
<1>5. \A g \in Registries : bindings'[g] = bindings[g] \ {s} /\ listening'[g] = listening[g] \ {s}
  BY <1>3, <1>4
<1>6. RegistriesAgree'
  <2>. SUFFICES ASSUME NEW g \in Registries PROVE Agree(rooms'[g], socketRooms'[g], bindings'[g])
    BY DEF RegistriesAgree
  <2>1. Agree(rooms[g], socketRooms[g], bindings[g])
    BY DEF RInv, RegistriesAgree
  <2>2. Agree(Emptied(rooms[g], s), Without(socketRooms[g], s), bindings[g] \ {s})
    BY <2>1, AgreeLeaveAll
  <2>. QED
    BY <2>1, <2>2, <1>4
<1>7. RoomsTyped'
  <2>1. \A g \in Registries : /\ rooms'[g] \in PartialSets(RoomNames, Sockets)
                              /\ socketRooms'[g] \in PartialSets(Sockets, RoomNames)
    BY <1>6 DEF RegistriesAgree, Agree
  <2>2. \A g \in Registries : bindings'[g] \in SUBSET Sockets /\ listening'[g] \in SUBSET Sockets
    BY <1>1, <1>5 DEF RoomsTyped
  <2>3. /\ rooms' = [g \in Registries |-> rooms'[g]] /\ socketRooms' = [g \in Registries |-> socketRooms'[g]]
        /\ bindings' = [g \in Registries |-> bindings'[g]] /\ listening' = [g \in Registries |-> listening'[g]]
    BY DEF ReportClose
  <2>. QED
    BY <2>1, <2>2, <2>3 DEF RoomsTyped
<1>8. /\ beat' \in SocketSets /\ Tracked' = Tracked \ {s}
      /\ \A t \in Tracked \ {s} : beat'[t] = beat[t]
  BY <1>1, <1>2, BeatWithout DEF LifeTyped, Tracked
<1>9. stage' \in [Sockets -> Stages] /\ \A t \in Sockets : stage'[t] = IF t = s THEN "closed" ELSE stage[t]
  BY <1>1, <1>2 DEF LifeTyped, Stages
<1>10. Tracked \subseteq Sockets /\ \A t \in Sockets : Exists(t) => Exists(t)'
  BY <1>1, <1>9, BeatChar DEF LifeTyped, Tracked, Exists
<1>11. LifeTyped'
  BY <1>1, <1>2, <1>8, <1>9, <1>10 DEF LifeTyped
<1>12. TypeOK'
  BY <1>7, <1>11, TypeParts, PTL
<1>13. \A g \in Registries : bindings[g] \subseteq Sockets
  BY <1>1 DEF RoomsTyped
<1>14. MembersHear'
  BY <1>2, <1>5, <1>10 DEF RInv, MembersHear
<1>15. TwoHomesExcused'
  BY <1>2, <1>5 DEF RInv, TwoHomesExcused
<1>16. NothingKept'
  BY <1>1, <1>2, <1>5, <1>8, <1>9 DEF RInv, NothingKept, LifeTyped
<1>17. OpenMembersWatched'
  BY <1>2, <1>5, <1>8, <1>9, <1>13 DEF RInv, OpenMembersWatched
<1>18. PongsOwed'
  BY <1>2, <1>8 DEF RInv, PongsOwed
<1>. QED
  BY <1>6, <1>12, <1>14, <1>15, <1>16, <1>17, <1>18 DEF RInv

-----------------------------------------------------------------------------
(* The invariant, and what it gives.                                       *)

LEMMA RInvStep == RInv /\ [Next]_vars => RInv'
<1>. SUFFICES ASSUME RInv, [Next]_vars PROVE RInv'
  OBVIOUS
<1>1. CASE ServerCloses \/ Tick \/ HeartbeatCloses
  BY <1>1, ServerClosesStep, TickStep, HeartbeatClosesStep
<1>2. ASSUME NEW s \in Sockets, Life(s) PROVE RInv'
  BY <1>2, UpgradeStep, UpgradeEndsStep, ClosingStep, ReportCloseStep DEF Life
<1>3. ASSUME NEW s \in Sockets, Application(s) PROVE RInv'
  BY <1>3, TrackStep, UntrackStep, LeaveAllStep, JoinStep, LeaveStep DEF Application
<1>4. ASSUME NEW s \in Sockets, Heartbeat(s) \/ FallsSilent(s) PROVE RInv'
  BY <1>4, DeadlinePassesStep, PongStep, ClosingStep DEF Heartbeat
<1>5. CASE UNCHANGED vars
  <2>1. UNCHANGED <<reported, roomVars, beatVars, unanswered, stage, unborn, clients, silent, late>>
    BY <1>5 DEF vars, lifeVars, peerVars
  <2>2. LifeTyped
    BY TypeParts DEF RInv
  <2>. QED
    BY <2>1, <2>2, LifeMoves DEF LifeTyped, Exists
<1>. QED
  BY <1>1, <1>2, <1>3, <1>4, <1>5 DEF Next

LEMMA RInvAlways == Spec => []RInv
BY InitRInv, RInvStep, PTL DEF Spec

\* Every variable keeps its type, and only sockets that exist are kept anywhere.
THEOREM RealtimeTyped == Spec => []TypeOK
<1>1. RInv => TypeOK
  BY DEF RInv
<1>. QED
  BY <1>1, RInvAlways, PTL

\* The two maps of each registry stay inverse, without an empty set, and exactly their
\* members have a close binding, through any joins, leaves and closes.
THEOREM RegistriesConsistent == Spec => []MapsAgree
<1>1. RInv => MapsAgree
  BY DEF RInv, RegistriesAgree, Agree, Filled, MapsAgree, Range
<1>. QED
  BY <1>1, RInvAlways, PTL

\* A socket that reported its close is nowhere kept, unless it came after that event.
THEOREM ClosedForgotten == Spec => []ForgottenAfterClose
<1>1. RInv => ForgottenAfterClose
  <2>. SUFFICES ASSUME RInv, NEW s \in reported \ late
                PROVE  /\ s \notin clients \cup Tracked
                       /\ \A g \in Registries : s \notin DOMAIN socketRooms[g]
    BY DEF ForgottenAfterClose
  <2>. QED
    BY DEF RInv, NothingKept, RegistriesAgree, Agree
<1>. QED
  BY <1>1, RInvAlways, PTL

\* An open member of a room is watched while the heartbeat runs, unless it is excused.
THEOREM MembersAreWatched == Spec => []MembersWatched
<1>1. RInv => MembersWatched
  BY DEF RInv, OpenMembersWatched, RegistriesAgree, Agree, MembersWatched
<1>. QED
  BY <1>1, RInvAlways, PTL

\* No tick closes a socket whose peer answers and is read.
THEOREM HealthySocketsKept == Spec => HealthyKept
<1>1. RInv /\ [Next]_vars =>
        [Tick => \A s \in Sockets : stage'[s] # stage[s] => s \in silent \cup unborn]_vars
  <2>. SUFFICES ASSUME RInv, Tick, NEW s \in Sockets, stage'[s] # stage[s]
                PROVE  s \in silent \cup unborn
    OBVIOUS
  <2>1. s \in Cut
    BY DEF Tick
  <2>2. s \in Tracked /\ beat[s] = "due"
    BY <2>1 DEF Cut, Untracked, Expired
  <2>. QED
    BY <2>2 DEF RInv, PongsOwed
<1>. QED
  BY <1>1, RInvAlways, PTL DEF Spec, HealthyKept
=============================================================================
