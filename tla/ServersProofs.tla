--------------------------- MODULE ServersProofs ---------------------------
(***************************************************************************)
(* What listening and closing promise of the threads of a cluster and of   *)
(* the servers of a launch, for any number of threads, members, sockets,   *)
(* launches and calls.                                                     *)
(***************************************************************************)
EXTENDS Servers, SequenceTheorems, TLAPS

OwnedServers == Of({"owned"})

-----------------------------------------------------------------------------
(* The cluster.                                                            *)

\* Before listen() there is nothing; and a call of close() is remembered.
NotListening ==
  /\ ~cluster.listening =>
       /\ cluster.ready = "none" /\ ~cluster.late
       /\ events.listening = 0
       /\ \A w \in Workers : stage[w] = "none"
  /\ DOMAIN closes # {} => cluster.closing

\* A thread posts one message at most, and its address is handled once at most.
PostedOnce ==
  \A w \in Workers :
    /\ outbox[w] \in {<<>>, <<"listening">>, <<"error">>}
    /\ stage[w] \in {"none", "booting", "binding"} => outbox[w] = <<>> /\ w \notin served
    /\ outbox[w] = <<"listening">> => w \notin served
    /\ snapshots[w] = "ready" => w \in served

\* "listening" is emitted when no thread is awaited any more; until then none has left the
\* map, unless that was reported or the cluster closes.
ReadyRight ==
  /\ events.listening \in {0, 1}
  /\ events.listening = 1 => Complete(snapshots)
  /\ cluster.ready = "resolved" /\ ~cluster.closing => served = Workers /\ events.listening = 1
  /\ cluster.ready = "pending" /\ ~cluster.closing /\ ~crashed =>
       \A w \in Workers : snapshots[w] # "absent"

\* Unless the cluster listened after a close(), a thread that has not ended is in the map,
\* and every call of close() waits for it.
ThreadsAwaited ==
  /\ \A k \in DOMAIN closes : closes[k].done => closes[k].waits = {}
  /\ ~cluster.late =>
       \A w \in Workers : stage[w] \in Alive \cup EndedBy =>
         /\ snapshots[w] # "absent"
         /\ \A k \in DOMAIN closes : w \in closes[k].waits

ClusterInv == ClusterTypeOK /\ NotListening /\ PostedOnce /\ ReadyRight /\ ThreadsAwaited

-----------------------------------------------------------------------------
(* The servers of the launch's own.                                        *)

\* Who is ready had a handle once.
Opens(m) == raw[m].handle \/ ready[m] = "resolved" => m \in opened

\* The handle is lost, and the listeners are detached, by close() only.
LostByClose(m) ==
  /\ m \notin attached => calls[m] # <<>>
  /\ raw[m].closeDue => calls[m] # <<>>
  /\ Live(m, sockets[m]) /\ ~raw[m].handle => calls[m] # <<>>

\* A server binds once for each listen(), the first of which is that of the list.
BindsOnce(m) ==
  /\ ~multi.listening => ~raw[m].handle /\ raw[m].bind = "none"
  /\ raw[m].bind = "lookup" => ~raw[m].handle

\* "close" comes when the handle and the last connection are gone, and a call that found
\* the handle took it away for good, unless the server listened again.
CloseRight(m) ==
  /\ raw[m].closeDue => ~Live(m, sockets[m])
  /\ \A k \in DOMAIN calls[m] :
       /\ calls[m][k].state = "resolved" => ~calls[m][k].errs /\ m \notin attached
       /\ m \notin reopened =>
            /\ ~calls[m][k].errs => ~raw[m].handle /\ raw[m].bind # "lookup"
            /\ calls[m][k].state = "resolved" => ~Live(m, sockets[m])

ServerRight(m) == Opens(m) /\ LostByClose(m) /\ BindsOnce(m) /\ CloseRight(m)

Announced ==
  multi.announced => OwnedServers \subseteq opened /\ (HasCluster => cluster.ready = "resolved")

NotListenedYet == ~multi.listening => \A m \in Members : listens[m] = 0

ServersInv ==
  /\ ServersTypeOK
  /\ NotListenedYet
  /\ ClusterInv
  /\ \A m \in OwnedServers : ServerRight(m)
  /\ Announced

-----------------------------------------------------------------------------
(* The steps of the cluster.                                               *)

ClusterRecord == [listening : BOOLEAN, closing : BOOLEAN, late : BOOLEAN,
                  ready : {"none", "pending", "resolved", "rejected"}]
CloseRecord == [waits : SUBSET Workers, done : BOOLEAN]

LEMMA FunctionIsSeq ==
  ASSUME NEW S, NEW n \in Nat, NEW f \in [1 .. n -> S]
  PROVE  f \in Seq(S)
OBVIOUS

LEMMA ClusterInit1 == ClusterInit => ClusterInv
<1>. SUFFICES ASSUME ClusterInit PROVE ClusterInv
  OBVIOUS
<1>1. ClusterTypeOK
  <2>1. closes = <<>> /\ closes \in Seq([waits : SUBSET Workers, done : BOOLEAN])
    BY EmptySeq DEF ClusterInit
  <2>2. outbox \in [Workers -> Seq({"error", "listening"})]
    BY EmptySeq DEF ClusterInit
  <2>. QED
    BY <2>1, <2>2 DEF ClusterInit, ClusterTypeOK
<1>2. NotListening /\ PostedOnce /\ ReadyRight /\ ThreadsAwaited
  BY DEF ClusterInit, NotListening, PostedOnce, ReadyRight, ThreadsAwaited, Alive, EndedBy
<1>. QED
  BY <1>1, <1>2 DEF ClusterInv

\* An exception of another part ends the process and changes nothing here.
LEMMA CrashKeeps ==
  ASSUME ClusterInv, crashed' \in BOOLEAN, ~crashed,
         UNCHANGED <<launchVars, stage, outbox, snapshots, cluster, closes, events, served>>
  PROVE  ClusterInv'
<1>1. ClusterTypeOK'
  BY DEF ClusterInv, ClusterTypeOK, launchVars
<1>2. NotListening' /\ PostedOnce' /\ ReadyRight' /\ ThreadsAwaited'
  BY DEF ClusterInv, NotListening, PostedOnce, ReadyRight, ThreadsAwaited, Complete
<1>. QED
  BY <1>1, <1>2 DEF ClusterInv

LEMMA ClusterStutters == ClusterInv /\ UNCHANGED clusterVars => ClusterInv'
<1>. SUFFICES ASSUME ClusterInv, UNCHANGED clusterVars PROVE ClusterInv'
  OBVIOUS
<1>1. ClusterTypeOK'
  BY DEF ClusterInv, ClusterTypeOK, clusterVars, launchVars
<1>2. NotListening' /\ PostedOnce' /\ ReadyRight' /\ ThreadsAwaited'
  BY DEF ClusterInv, NotListening, PostedOnce, ReadyRight, ThreadsAwaited, Complete, clusterVars
<1>. QED
  BY <1>1, <1>2 DEF ClusterInv

LEMMA ClusterListenKeeps ==
  ASSUME ClusterInv, ClusterListen
  PROVE  ClusterInv'
<1>1. /\ cluster \in ClusterRecord /\ ~cluster.listening
      /\ stage' = [w \in Workers |-> "booting"] /\ snapshots' = [w \in Workers |-> "starting"]
      /\ outbox' = outbox /\ closes' = closes /\ events' = events /\ served' = served
      /\ cluster' = [cluster EXCEPT !.listening = TRUE, !.ready = "pending", !.late = cluster.closing]
  BY DEF ClusterInv, ClusterTypeOK, ClusterRecord, ClusterListen
<1>2. /\ cluster' \in ClusterRecord /\ cluster'.listening /\ cluster'.ready = "pending"
      /\ cluster'.late = cluster.closing /\ cluster'.closing = cluster.closing
  BY <1>1 DEF ClusterRecord
<1>3. ClusterTypeOK'
  BY <1>1, <1>2 DEF ClusterInv, ClusterTypeOK, ClusterListen, launchVars, Alive, ClusterRecord
<1>4. NotListening'
  BY <1>1, <1>2 DEF ClusterInv, NotListening
<1>5. PostedOnce'
  BY <1>1 DEF ClusterInv, PostedOnce, NotListening
<1>6. ReadyRight'
  BY <1>1, <1>2 DEF ClusterInv, ReadyRight, NotListening, Complete
<1>7. ThreadsAwaited'
  BY <1>1, <1>2 DEF ClusterInv, ThreadsAwaited, NotListening
<1>. QED
  BY <1>3, <1>4, <1>5, <1>6, <1>7 DEF ClusterInv

LEMMA OneMessage ==
  ASSUME ClusterInv, NEW w \in Workers, outbox[w] # <<>>
  PROVE  Tail(outbox[w]) = <<>> /\ (Head(outbox[w]) = "listening" => outbox[w] = <<"listening">>)
<1>1. outbox[w] = <<"listening">> \/ outbox[w] = <<"error">>
  BY DEF ClusterInv, PostedOnce
<1>2. ASSUME NEW x \in {"error", "listening"}
      PROVE  Tail(<<x>>) = <<>> /\ Head(<<x>>) = x
  <2>1. <<x>> \in Seq({"error", "listening"}) /\ <<x>> # <<>> /\ Len(<<x>>) = 1 /\ <<x>>[1] = x
    OBVIOUS
  <2>2. Tail(<<x>>) \in Seq({"error", "listening"}) /\ Len(Tail(<<x>>)) = 0
    BY <2>1, HeadTailProperties
  <2>. QED
    BY <2>1, <2>2, EmptySeq
<1>. QED
  BY <1>1, <1>2

LEMMA ListeningMessageKeeps ==
  ASSUME ClusterInv, ~crashed, NEW w \in Workers, ListeningMessage(w)
  PROVE  ClusterInv'
<1>1. /\ outbox[w] = <<"listening">> /\ w \notin served
      /\ outbox' = [outbox EXCEPT ![w] = <<>>]
      /\ stage' = stage /\ closes' = closes /\ UNCHANGED launchVars /\ crashed' = crashed
      /\ stage[w] \notin {"none", "booting", "binding"}
      /\ cluster.listening
      /\ cluster \in ClusterRecord /\ outbox \in [Workers -> Seq({"error", "listening"})]
      /\ snapshots \in [Workers -> {"absent", "starting", "ready"}]
      /\ events \in [listening : Nat, close : Nat] /\ served \subseteq Workers
  BY OneMessage DEF ListeningMessage, ClusterInv, PostedOnce, NotListening, ClusterTypeOK,
                    ClusterRecord
<1>2. \A v \in Workers : outbox'[v] = IF v = w THEN <<>> ELSE outbox[v]
  BY <1>1
<1>3. CASE snapshots[w] = "absent"
  <2>1. UNCHANGED <<snapshots, cluster, events, served>>
    BY <1>3 DEF ListeningMessage
  <2>2. ClusterTypeOK'
    BY <1>1, <2>1 DEF ClusterInv, ClusterTypeOK, launchVars
  <2>3. NotListening' /\ ReadyRight' /\ ThreadsAwaited'
    BY <1>1, <2>1 DEF ClusterInv, NotListening, ReadyRight, ThreadsAwaited, Complete
  <2>4. PostedOnce'
    BY <1>1, <1>2, <2>1 DEF ClusterInv, PostedOnce
  <2>. QED
    BY <2>2, <2>3, <2>4 DEF ClusterInv
<1>4. CASE snapshots[w] # "absent"
  <2>1. /\ snapshots' = [snapshots EXCEPT ![w] = "ready"] /\ served' = served \cup {w}
        /\ IF Complete(snapshots')
           THEN /\ events' = [events EXCEPT !.listening = @ + 1]
                /\ cluster' = IF cluster.ready = "pending"
                              THEN [cluster EXCEPT !.ready = "resolved"] ELSE cluster
           ELSE UNCHANGED <<events, cluster>>
    BY <1>4 DEF ListeningMessage
  <2>2. snapshots[w] = "starting" /\ ~Complete(snapshots) /\ events.listening = 0
        /\ ~(cluster.ready = "resolved" /\ ~cluster.closing)
    BY <1>1, <1>4 DEF ClusterInv, PostedOnce, ReadyRight, Complete
  <2>3. /\ cluster' \in ClusterRecord
        /\ cluster'.listening = cluster.listening /\ cluster'.closing = cluster.closing
        /\ cluster'.late = cluster.late
        /\ cluster'.ready = cluster.ready \/ cluster'.ready = "resolved"
        /\ cluster'.ready # cluster.ready =>
             cluster.ready = "pending" /\ Complete(snapshots')
        /\ cluster'.ready = "pending" => ~Complete(snapshots') /\ cluster.ready = "pending"
    <3>1. CASE Complete(snapshots') /\ cluster.ready = "pending"
      BY <1>1, <2>1, <3>1 DEF ClusterRecord
    <3>2. CASE ~(Complete(snapshots') /\ cluster.ready = "pending")
      <4>1. cluster' = cluster
        BY <2>1, <3>2
      <4>. QED
        BY <1>1, <3>2, <4>1
    <3>. QED
      BY <3>1, <3>2
  <2>4. /\ events' \in [listening : Nat, close : Nat]
        /\ events'.listening = IF Complete(snapshots') THEN 1 ELSE 0
    <3>1. CASE Complete(snapshots')
      <4>1. events' = [events EXCEPT !.listening = 1]
        BY <2>1, <2>2, <3>1
      <4>. QED
        BY <1>1, <3>1, <4>1
    <3>2. CASE ~Complete(snapshots')
      <4>1. events' = events
        BY <2>1, <3>2
      <4>. QED
        BY <1>1, <2>2, <3>2, <4>1
    <3>. QED
      BY <3>1, <3>2
  <2>5. \A v \in Workers : snapshots'[v] = IF v = w THEN "ready" ELSE snapshots[v]
    BY <1>1, <2>1
  <2>6. ClusterTypeOK'
    <3>1. snapshots' \in [Workers -> {"absent", "starting", "ready"}] /\ served' \subseteq Workers
          /\ outbox' \in [Workers -> Seq({"error", "listening"})]
      BY <1>1, <2>1
    <3>. QED
      BY <1>1, <2>3, <2>4, <3>1 DEF ClusterInv, ClusterTypeOK, launchVars, ClusterRecord
  <2>7. NotListening'
    BY <1>1, <2>3 DEF ClusterInv, NotListening
  <2>8. PostedOnce'
    BY <1>1, <1>2, <2>1, <2>5 DEF ClusterInv, PostedOnce
  <2>9. ReadyRight'
    <3>1. cluster'.ready = "resolved" /\ ~cluster'.closing => served' = Workers /\ Complete(snapshots')
      <4>. SUFFICES ASSUME cluster'.ready = "resolved", ~cluster'.closing
                    PROVE  served' = Workers /\ Complete(snapshots')
        OBVIOUS
      <4>1. cluster.ready = "pending" /\ Complete(snapshots') /\ ~cluster.closing
        BY <2>2, <2>3
      <4>2. \A v \in Workers : v # w => snapshots[v] = "ready"
        BY <1>1, <2>5, <4>1 DEF ClusterInv, ReadyRight, Complete
      <4>3. \A v \in Workers : v # w => v \in served
        BY <4>2 DEF ClusterInv, PostedOnce
      <4>. QED
        BY <1>1, <2>1, <4>1, <4>3
    <3>2. cluster'.ready = "pending" /\ ~cluster'.closing /\ ~crashed' =>
             \A v \in Workers : snapshots'[v] # "absent"
      BY <1>1, <2>3, <2>5 DEF ClusterInv, ReadyRight
    <3>. QED
      BY <2>4, <3>1, <3>2 DEF ReadyRight
  <2>10. ThreadsAwaited'
    BY <1>1, <2>3, <2>5 DEF ClusterInv, ThreadsAwaited
  <2>. QED
    BY <2>6, <2>7, <2>8, <2>9, <2>10 DEF ClusterInv
<1>. QED
  BY <1>3, <1>4

\* What an error does: it rejects the promise that waits, or ends the process.
LEMMA ErrorRejects ==
  ASSUME ClusterInv, ErrorEmitted
  PROVE  /\ cluster' \in ClusterRecord /\ crashed' \in BOOLEAN
         /\ cluster'.listening = cluster.listening /\ cluster'.closing = cluster.closing
         /\ cluster'.late = cluster.late
         /\ cluster'.ready = cluster.ready \/ cluster'.ready = "rejected"
         /\ cluster'.ready = "pending" => crashed'
         /\ cluster.ready # "pending" => cluster'.ready = cluster.ready
<1>1. cluster \in ClusterRecord
  BY DEF ClusterInv, ClusterTypeOK, ClusterRecord
<1>2. crashed' = (~errorHeard \/ (errorHeard /\ cluster.ready = "pending" /\ ~readyHeard))
  BY DEF ErrorEmitted
<1>3. CASE errorHeard /\ cluster.ready = "pending"
  <2>1. cluster' = [cluster EXCEPT !.ready = "rejected"]
    BY <1>3 DEF ErrorEmitted
  <2>. QED
    BY <1>1, <1>2, <1>3, <2>1 DEF ClusterRecord
<1>4. CASE ~(errorHeard /\ cluster.ready = "pending")
  <2>1. cluster' = cluster
    BY <1>4 DEF ErrorEmitted
  <2>. QED
    BY <1>1, <1>2, <1>4, <2>1
<1>. QED
  BY <1>3, <1>4

LEMMA ErrorMessageKeeps ==
  ASSUME ClusterInv, ~crashed, NEW w \in Workers, ErrorMessage(w)
  PROVE  ClusterInv'
<1>1. /\ outbox' = [outbox EXCEPT ![w] = <<>>]
      /\ stage' = stage /\ closes' = closes /\ UNCHANGED launchVars /\ snapshots' = snapshots
      /\ events' = events /\ served' = served
      /\ outbox \in [Workers -> Seq({"error", "listening"})]
      /\ ErrorEmitted
  BY OneMessage DEF ErrorMessage, ClusterInv, ClusterTypeOK
<1>2. \A v \in Workers : outbox'[v] = IF v = w THEN <<>> ELSE outbox[v]
  BY <1>1
<1>3. ClusterTypeOK'
  <2>1. outbox' \in [Workers -> Seq({"error", "listening"})]
    BY <1>1
  <2>. QED
    BY <1>1, <2>1, ErrorRejects DEF ClusterInv, ClusterTypeOK, launchVars, ClusterRecord
<1>4. NotListening' /\ ThreadsAwaited'
  BY <1>1, ErrorRejects DEF ClusterInv, NotListening, ThreadsAwaited
<1>5. ReadyRight'
  BY <1>1, ErrorRejects DEF ClusterInv, ReadyRight, Complete
<1>6. PostedOnce'
  BY <1>1, <1>2 DEF ClusterInv, PostedOnce
<1>. QED
  BY <1>3, <1>4, <1>5, <1>6 DEF ClusterInv

LEMMA WorkerExitsKeeps ==
  ASSUME ClusterInv, ~crashed, NEW w \in Workers, WorkerExits(w)
  PROVE  ClusterInv'
<1>1. /\ stage[w] \in EndedBy /\ stage' = [stage EXCEPT ![w] = "gone"]
      /\ snapshots' = [snapshots EXCEPT ![w] = "absent"]
      /\ closes' = [k \in DOMAIN closes |-> [closes[k] EXCEPT !.waits = @ \ {w}]]
      /\ UNCHANGED <<launchVars, outbox, events, served>>
      /\ snapshots \in [Workers -> {"absent", "starting", "ready"}]
      /\ stage \in [Workers -> {"none", "gone"} \cup Alive \cup EndedBy]
      /\ closes \in Seq(CloseRecord) /\ cluster \in ClusterRecord
      /\ cluster.listening
  BY DEF WorkerExits, ClusterInv, ClusterTypeOK, ClusterRecord, CloseRecord, NotListening, EndedBy
<1>2. \/ ErrorEmitted
      \/ cluster.closing /\ UNCHANGED <<cluster, crashed>>
  BY DEF WorkerExits, ExitRejects
<1>3. /\ cluster' \in ClusterRecord /\ crashed' \in BOOLEAN
      /\ cluster'.listening = cluster.listening /\ cluster'.closing = cluster.closing
      /\ cluster'.late = cluster.late
      /\ cluster'.ready = cluster.ready \/ cluster'.ready = "rejected"
      /\ cluster'.ready = "pending" => crashed' \/ cluster.closing
  <2>1. CASE ErrorEmitted
    BY <2>1, ErrorRejects
  <2>2. CASE cluster.closing /\ UNCHANGED <<cluster, crashed>>
    BY <1>1, <2>2 DEF ClusterInv, ClusterTypeOK
  <2>. QED
    BY <1>2, <2>1, <2>2
<1>4. /\ \A v \in Workers : snapshots'[v] = IF v = w THEN "absent" ELSE snapshots[v]
      /\ \A v \in Workers : stage'[v] = IF v = w THEN "gone" ELSE stage[v]
  BY <1>1
<1>5. /\ DOMAIN closes' = DOMAIN closes /\ closes' \in Seq(CloseRecord)
      /\ \A k \in DOMAIN closes : /\ closes[k] \in CloseRecord
                                  /\ closes'[k].waits = closes[k].waits \ {w}
                                  /\ closes'[k].done = closes[k].done
  <2>1. \A k \in DOMAIN closes : closes[k] \in CloseRecord
    BY <1>1, ElementOfSeq
  <2>2. \A k \in DOMAIN closes :
          LET e == [closes[k] EXCEPT !.waits = @ \ {w}] IN
          e \in CloseRecord /\ e.waits = closes[k].waits \ {w} /\ e.done = closes[k].done
    BY <2>1 DEF CloseRecord
  <2>3. \A k \in DOMAIN closes : closes'[k] = [closes[k] EXCEPT !.waits = @ \ {w}]
    BY <1>1
  <2>4. DOMAIN closes = 1 .. Len(closes) /\ Len(closes) \in Nat
    BY <1>1
  <2>5. closes' \in [1 .. Len(closes) -> CloseRecord]
    BY <1>1, <2>2, <2>4
  <2>6. DOMAIN closes' = DOMAIN closes
    BY <1>1
  <2>7. closes' \in Seq(CloseRecord)
    BY <2>4, <2>5, FunctionIsSeq
  <2>. QED
    BY <2>1, <2>2, <2>3, <2>6, <2>7
<1>6. ClusterTypeOK'
  <2>1. snapshots' \in [Workers -> {"absent", "starting", "ready"}]
        /\ stage' \in [Workers -> {"none", "gone"} \cup Alive \cup EndedBy]
    BY <1>1
  <2>. QED
    BY <1>1, <1>3, <1>5, <2>1 DEF ClusterInv, ClusterTypeOK, launchVars, ClusterRecord, CloseRecord
<1>7. NotListening'
  BY <1>1, <1>3, <1>5 DEF ClusterInv, NotListening
<1>8. PostedOnce'
  BY <1>1, <1>4 DEF ClusterInv, PostedOnce
<1>9. ReadyRight'
  BY <1>1, <1>3, <1>4 DEF ClusterInv, ReadyRight, Complete
<1>10. ThreadsAwaited'
  <2>1. \A k \in DOMAIN closes' : closes'[k].done => closes'[k].waits = {}
    BY <1>5 DEF ClusterInv, ThreadsAwaited
  <2>2. ASSUME ~cluster'.late, NEW v \in Workers, stage'[v] \in Alive \cup EndedBy
        PROVE  snapshots'[v] # "absent" /\ \A k \in DOMAIN closes' : v \in closes'[k].waits
    <3>1. v # w /\ stage[v] \in Alive \cup EndedBy /\ ~cluster.late
      BY <1>3, <1>4, <2>2 DEF Alive, EndedBy
    <3>. QED
      BY <1>4, <1>5, <3>1 DEF ClusterInv, ThreadsAwaited
  <2>. QED
    BY <2>1, <2>2 DEF ThreadsAwaited
<1>. QED
  BY <1>6, <1>7, <1>8, <1>9, <1>10 DEF ClusterInv

LEMMA ClusterCloseKeeps ==
  ASSUME ClusterInv, NEW aborts, ClusterClose(aborts)
  PROVE  ClusterInv'
<1>1. /\ cluster' = [cluster EXCEPT !.closing = TRUE] /\ cluster \in ClusterRecord
      /\ closes' = Append(closes, [waits |-> Stopped, done |-> FALSE])
      /\ UNCHANGED <<launchVars, stage, outbox, snapshots, events, served, crashed>>
      /\ closes \in Seq(CloseRecord)
  BY DEF ClusterClose, ClusterInv, ClusterTypeOK, ClusterRecord, CloseRecord
<1>2. /\ cluster' \in ClusterRecord /\ cluster'.closing
      /\ cluster'.listening = cluster.listening /\ cluster'.late = cluster.late
      /\ cluster'.ready = cluster.ready
  BY <1>1 DEF ClusterRecord
<1>3. [waits |-> Stopped, done |-> FALSE] \in CloseRecord
  BY DEF CloseRecord, Stopped
<1>4. /\ closes' \in Seq(CloseRecord)
      /\ DOMAIN closes = 1 .. Len(closes) /\ Len(closes) \in Nat
      /\ DOMAIN closes' = 1 .. Len(closes) + 1
      /\ \A k \in DOMAIN closes : closes'[k] = closes[k]
      /\ closes'[Len(closes) + 1] = [waits |-> Stopped, done |-> FALSE]
  BY <1>1, <1>3, AppendProperties, LenProperties
<1>5. ClusterTypeOK'
  BY <1>1, <1>2, <1>4 DEF ClusterInv, ClusterTypeOK, launchVars, ClusterRecord, CloseRecord
<1>6. NotListening' /\ PostedOnce' /\ ReadyRight'
  BY <1>1, <1>2 DEF ClusterInv, NotListening, PostedOnce, ReadyRight, Complete
<1>7. ThreadsAwaited'
  <2>1. \A k \in DOMAIN closes' : closes'[k].done => closes'[k].waits = {}
    BY <1>4 DEF ClusterInv, ThreadsAwaited
  <2>2. ASSUME ~cluster'.late, NEW v \in Workers, stage'[v] \in Alive \cup EndedBy
        PROVE  snapshots'[v] # "absent" /\ \A k \in DOMAIN closes' : v \in closes'[k].waits
    <3>1. snapshots[v] # "absent" /\ \A k \in DOMAIN closes : v \in closes[k].waits
      BY <1>1, <1>2, <2>2 DEF ClusterInv, ThreadsAwaited
    <3>2. v \in Stopped
      BY <3>1 DEF Stopped
    <3>. QED
      BY <1>1, <1>4, <3>1, <3>2
  <2>. QED
    BY <2>1, <2>2 DEF ThreadsAwaited
<1>. QED
  BY <1>5, <1>6, <1>7 DEF ClusterInv

LEMMA CloseEndsKeeps ==
  ASSUME ClusterInv, NEW k, CloseEnds(k)
  PROVE  ClusterInv'
<1>1. /\ k \in DOMAIN closes /\ closes[k].waits = {}
      /\ closes' = [closes EXCEPT ![k].done = TRUE]
      /\ snapshots' = [w \in Workers |-> "absent"]
      /\ events' = [events EXCEPT !.close = @ + 1]
      /\ UNCHANGED <<launchVars, stage, outbox, cluster, served, crashed>>
      /\ closes \in Seq(CloseRecord)
      /\ events \in [listening : Nat, close : Nat]
  BY DEF CloseEnds, ClusterInv, ClusterTypeOK, CloseRecord
<1>2. events' \in [listening : Nat, close : Nat] /\ events'.listening = events.listening
  BY <1>1
<1>3. DOMAIN closes = 1 .. Len(closes) /\ closes[k] \in CloseRecord
  BY <1>1, LenProperties, ElementOfSeq
<1>4. [closes[k] EXCEPT !.done = TRUE] \in CloseRecord
  BY <1>3 DEF CloseRecord
<1>5. /\ closes' \in Seq(CloseRecord) /\ DOMAIN closes' = DOMAIN closes
      /\ \A j \in DOMAIN closes : closes'[j].waits = closes[j].waits
                                 /\ (closes'[j].done => j = k \/ closes[j].done)
  <2>1. closes' = [closes EXCEPT ![k] = [closes[k] EXCEPT !.done = TRUE]]
    BY <1>1
  <2>2. [closes[k] EXCEPT !.done = TRUE].waits = closes[k].waits
    BY <1>3 DEF CloseRecord
  <2>3. closes' \in Seq(CloseRecord) /\ Len(closes') = Len(closes)
        /\ \A j \in 1 .. Len(closes) :
             closes'[j] = IF j = k THEN [closes[k] EXCEPT !.done = TRUE] ELSE closes[j]
    BY <1>1, <1>3, <1>4, <2>1, ExceptSeq
  <2>. QED
    BY <1>1, <1>3, <2>2, <2>3
<1>6. ClusterTypeOK'
  BY <1>1, <1>2, <1>5 DEF ClusterInv, ClusterTypeOK, launchVars, CloseRecord
<1>7. NotListening' /\ PostedOnce'
  BY <1>1, <1>2, <1>5 DEF ClusterInv, NotListening, PostedOnce
<1>8. ReadyRight'
  BY <1>1, <1>2 DEF ClusterInv, ReadyRight, NotListening, Complete
<1>9. ThreadsAwaited'
  BY <1>1, <1>5 DEF ClusterInv, ThreadsAwaited
<1>. QED
  BY <1>6, <1>7, <1>8, <1>9 DEF ClusterInv

LEMMA ThreadKeeps ==
  ASSUME ClusterInv, NEW w \in Workers, Terminate(w) \/ Boot(w) \/ Bind(w) \/ ThreadEnds(w)
  PROVE  ClusterInv'
<1>1. /\ UNCHANGED <<launchVars, snapshots, cluster, closes, events, served, crashed>>
      /\ stage \in [Workers -> {"none", "gone"} \cup Alive \cup EndedBy]
      /\ outbox \in [Workers -> Seq({"error", "listening"})]
  BY DEF Terminate, Boot, Bind, ThreadEnds, Become, ClusterInv, ClusterTypeOK
<1>2. \E next \in {"binding", "serving", "stuck", "cut", "done", "failed"},
         posts \in {<<>>, <<"listening">>, <<"error">>} :
        /\ stage[w] \in Alive
        /\ stage' = [stage EXCEPT ![w] = next]
        /\ outbox' = [outbox EXCEPT ![w] = posts]
        /\ \/ posts = outbox[w]
           \/ stage[w] = "binding"
        /\ next = "binding" => stage[w] = "booting"
  <2>1. CASE Terminate(w)
    <3>1. outbox' = [outbox EXCEPT ![w] = outbox[w]] /\ outbox[w] \in {<<>>, <<"listening">>, <<"error">>}
      BY <1>1, <2>1 DEF Terminate, ClusterInv, PostedOnce
    <3>. QED
      BY <2>1, <3>1 DEF Terminate
  <2>2. CASE Boot(w) \/ ThreadEnds(w)
    <3>1. outbox[w] \o <<>> = outbox[w] /\ outbox[w] \in {<<>>, <<"listening">>, <<"error">>}
      BY <1>1, ConcatEmptySeq DEF ClusterInv, PostedOnce
    <3>. QED
      BY <2>2, <3>1 DEF Boot, ThreadEnds, Become, Alive
  <2>3. CASE Bind(w)
    <3>1. outbox[w] = <<>>
      BY <2>3 DEF Bind, ClusterInv, PostedOnce
    <3>2. /\ <<"listening">> \in Seq({"error", "listening"})
          /\ <<"error">> \in Seq({"error", "listening"})
      OBVIOUS
    <3>3. <<>> \o <<"listening">> = <<"listening">> /\ <<>> \o <<"error">> = <<"error">>
      BY <3>2, ConcatEmptySeq
    <3>. QED
      BY <2>3, <3>1, <3>3 DEF Bind, Become, Alive
  <2>. QED
    BY <2>1, <2>2, <2>3
<1>3. PICK next \in {"binding", "serving", "stuck", "cut", "done", "failed"},
           posts \in {<<>>, <<"listening">>, <<"error">>} :
        /\ stage[w] \in Alive
        /\ stage' = [stage EXCEPT ![w] = next]
        /\ outbox' = [outbox EXCEPT ![w] = posts]
        /\ \/ posts = outbox[w]
           \/ stage[w] = "binding"
        /\ next = "binding" => stage[w] = "booting"
  BY <1>2
<1>4. /\ \A v \in Workers : stage'[v] = IF v = w THEN next ELSE stage[v]
      /\ \A v \in Workers : outbox'[v] = IF v = w THEN posts ELSE outbox[v]
  BY <1>1, <1>3
<1>5. ClusterTypeOK'
  <2>1. posts \in Seq({"error", "listening"})
    <3>1. <<"listening">> \in Seq({"error", "listening"})
      OBVIOUS
    <3>2. <<"error">> \in Seq({"error", "listening"})
      OBVIOUS
    <3>3. <<>> \in Seq({"error", "listening"})
      BY EmptySeq
    <3>. QED
      BY <3>1, <3>2, <3>3
  <2>2. outbox' \in [Workers -> Seq({"error", "listening"})]
    BY <1>1, <1>3, <2>1
  <2>3. next \in {"none", "gone"} \cup Alive \cup EndedBy
    BY DEF Alive, EndedBy
  <2>4. stage' \in [Workers -> {"none", "gone"} \cup Alive \cup EndedBy]
    BY <1>1, <1>3, <2>3
  <2>. QED
    BY <1>1, <2>2, <2>4 DEF ClusterInv, ClusterTypeOK, launchVars
<1>6. cluster.listening
  BY <1>3 DEF ClusterInv, NotListening, Alive
<1>7. NotListening' /\ ReadyRight'
  BY <1>1, <1>6 DEF ClusterInv, NotListening, ReadyRight, Complete
<1>8. PostedOnce'
  <2>. SUFFICES ASSUME NEW v \in Workers
                PROVE  /\ outbox'[v] \in {<<>>, <<"listening">>, <<"error">>}
                       /\ stage'[v] \in {"none", "booting", "binding"} => outbox'[v] = <<>> /\ v \notin served
                       /\ outbox'[v] = <<"listening">> => v \notin served
                       /\ snapshots[v] = "ready" => v \in served
    BY <1>1 DEF PostedOnce
  <2>1. CASE v # w
    BY <1>4, <2>1 DEF ClusterInv, PostedOnce
  <2>2. CASE v = w /\ next = "binding"
    BY <1>3, <1>4, <2>2 DEF ClusterInv, PostedOnce
  <2>3. CASE v = w /\ next # "binding"
    BY <1>3, <1>4, <2>3 DEF ClusterInv, PostedOnce
  <2>. QED
    BY <2>1, <2>2, <2>3
<1>9. ThreadsAwaited'
  BY <1>1, <1>3, <1>4 DEF ClusterInv, ThreadsAwaited
<1>. QED
  BY <1>5, <1>7, <1>8, <1>9 DEF ClusterInv

LEMMA ClusterNextKeeps ==
  ASSUME ClusterInv, ClusterNext
  PROVE  ClusterInv'
BY ClusterListenKeeps, ClusterCloseKeeps, CloseEndsKeeps, ListeningMessageKeeps, ErrorMessageKeeps,
   WorkerExitsKeeps, ThreadKeeps DEF ClusterNext, ClusterEvent

\* What the servers look at: ready() of the cluster stays as it was resolved.
LEMMA ResolvedStays ==
  ASSUME ClusterInv, ClusterNext \/ UNCHANGED clusterVars, cluster.ready = "resolved"
  PROVE  cluster'.ready = "resolved"
<1>1. cluster \in ClusterRecord /\ cluster.listening
  BY DEF ClusterInv, ClusterTypeOK, ClusterRecord, NotListening
<1>2. CASE UNCHANGED clusterVars
  BY <1>2 DEF clusterVars
<1>3. CASE ClusterListen
  BY <1>1, <1>3 DEF ClusterListen
<1>4. ASSUME NEW aborts, ClusterClose(aborts)
      PROVE  cluster'.ready = "resolved"
  BY <1>1, <1>4 DEF ClusterClose, ClusterRecord
<1>5. ASSUME NEW k, CloseEnds(k)
      PROVE  cluster'.ready = "resolved"
  BY <1>5 DEF CloseEnds
<1>6. CASE ErrorEmitted
  BY <1>6, ErrorRejects
<1>7. ASSUME NEW w \in Workers, ListeningMessage(w)
      PROVE  cluster'.ready = "resolved"
  BY <1>7 DEF ListeningMessage
<1>8. ASSUME NEW w \in Workers, ErrorMessage(w) \/ WorkerExits(w)
      PROVE  cluster'.ready = "resolved"
  BY <1>6, <1>8 DEF ErrorMessage, WorkerExits
<1>9. ASSUME NEW w \in Workers, Terminate(w) \/ Boot(w) \/ Bind(w) \/ ThreadEnds(w)
      PROVE  cluster'.ready = "resolved"
  BY <1>9 DEF Terminate, Boot, Bind, ThreadEnds, Become
<1>. QED
  BY <1>2, <1>3, <1>4, <1>5, <1>7, <1>8, <1>9 DEF ClusterNext, ClusterEvent

-----------------------------------------------------------------------------
(* The members of a launch, and what a step leaves alone.                  *)

SocketStates == {"none", "serving", "upgrading", "open", "told", "gone"}
CallRecord == [errs : BOOLEAN, by : {"app", "abort", "list"}, state : {"pending", "resolved", "rejected"}]
MultiRecord == [listening : BOOLEAN, announced : BOOLEAN,
                close : {"none", "pending", "resolved", "rejected"}, waits : 0 .. MaxCloses]

LEMMA OwnedKinds ==
  /\ OwnedServers \subseteq Members /\ OwnedServers \subseteq Listed
  /\ OwnedServers \subseteq KenoServers
  /\ \A m \in OwnedServers : Kind(m) = "owned" /\ m \notin Of({"cluster"}) /\ m \notin Of({"external"})
BY DEF OwnedServers, Of, KenoServers, Kind

LEMMA SameLaunch ==
  ASSUME launch' = launch
  PROVE  /\ OwnedServers' = OwnedServers /\ HasCluster' = HasCluster
<1>1. \A m : Kind(m)' = Kind(m)
  BY DEF Kind, Listed, ServerKind, Bootstraps, ThreadEntry, ImplicitDisabled
<1>. QED
  BY <1>1 DEF OwnedServers, HasCluster, Of

\* A step that changes nothing of a server keeps what is right of it.
LEMMA ServerKept ==
  ASSUME NEW m, ServerRight(m),
         raw'[m] = raw[m], ready'[m] = ready[m], sockets'[m] = sockets[m], calls'[m] = calls[m],
         opened \subseteq opened', reopened \subseteq reopened',
         m \in attached' <=> m \in attached,
         multi.listening => multi'.listening
  PROVE  ServerRight(m)'
BY DEF ServerRight, Opens, LostByClose, BindsOnce, CloseRight, Live

LEMMA Typed ==
  ASSUME ServersInv
  PROVE  /\ raw \in [Members -> RawType] /\ sockets \in [Members -> [Sockets -> SocketStates]]
         /\ ready \in [Members -> {"none", "pending", "resolved"}]
         /\ listens \in [Members -> 0 .. launch.maxListens] /\ launch.maxListens \in Nat \ {0}
         /\ calls \in [Members -> Seq(CallRecord)] /\ multi \in MultiRecord
BY ServersAssumption DEF ServersInv, ServersTypeOK, SocketStates, CallRecord, MultiRecord

-----------------------------------------------------------------------------
(* Listening.                                                              *)

LEMMA ListenedRight ==
  ASSUME ServersInv, NEW m \in Members, NEW b \in {"none", "lookup", "bound", "failed"}
  PROVE  /\ Listened(m, b) \in RawType
         /\ Listened(m, b).bind = b /\ Listened(m, b).closeDue = raw[m].closeDue
         /\ Listened(m, b).handle <=> raw[m].handle \/ (Kind(m) = "owned" /\ b = "bound")
<1>1. raw[m] \in RawType
  BY Typed
<1>. QED
  BY <1>1 DEF Listened, RawType

LEMMA ListListenKeeps ==
  ASSUME ServersInv, ~crashed, ListListen
  PROVE  ServersInv'
<1>. USE Typed
<1>1. PICK b \in [Members -> {"none", "lookup", "bound", "failed"}] :
        /\ \A m \in Members : b[m] \in BindChoices(m)
        /\ raw' = [m \in Members |-> Listened(m, b[m])]
  BY DEF ListListen
<1>2. /\ ~multi.listening
      /\ multi' = [multi EXCEPT !.listening = TRUE]
      /\ ready' = [m \in Members |-> ReadyOf(m, raw'[m])]
      /\ listens' = [m \in Members |-> listens[m] + 1]
      /\ opened' = Opened
      /\ reopened' = reopened \cup {m \in KenoServers : calls[m] # <<>>}
      /\ UNCHANGED <<launch, attached, sockets, failures, late, calls>>
      /\ (HasCluster /\ ~cluster.listening /\ ClusterListen) \/ UNCHANGED clusterVars
  BY DEF ListListen
<1>3. /\ multi' \in MultiRecord /\ multi'.listening /\ multi'.announced = multi.announced
  BY <1>2 DEF MultiRecord
<1>4. \A m \in Members :
        /\ raw'[m] \in RawType /\ raw'[m].bind = b[m] /\ raw'[m].closeDue = raw[m].closeDue
        /\ raw'[m].handle <=> raw[m].handle \/ (Kind(m) = "owned" /\ b[m] = "bound")
  BY <1>1, ListenedRight
<1>5. ClusterInv'
  BY <1>2, ClusterListenKeeps, ClusterStutters DEF ServersInv
<1>6. ServersTypeOK'
  <2>1. raw' \in [Members -> RawType] /\ ready' \in [Members -> {"none", "pending", "resolved"}]
    BY <1>1, <1>2, <1>4 DEF ReadyOf
  <2>2. listens' \in [Members -> 0 .. launch.maxListens]
    BY <1>2 DEF ServersInv, NotListenedYet
  <2>3. attached' \cup opened' \cup failures' \cup reopened' \cup late' \subseteq Members
    BY <1>2 DEF Opened, KenoServers, Of, ServersInv, ServersTypeOK
  <2>. QED
    BY <1>2, <1>3, <1>5, <2>1, <2>2, <2>3
       DEF ServersInv, ServersTypeOK, ClusterInv, SocketStates, CallRecord, MultiRecord
<1>7. ASSUME NEW m \in OwnedServers
      PROVE  ServerRight(m)'
  <2>1. /\ m \in Members /\ Kind(m) = "owned" /\ m \in KenoServers /\ ServerRight(m)
    BY OwnedKinds, <1>7 DEF ServersInv
  <2>2. Opens(m)'
    BY <1>2, <2>1, <1>7 DEF ServerRight, Opens, ReadyOf, Opened
  <2>3. LostByClose(m)' /\ BindsOnce(m)'
    BY <1>2, <1>3, <1>4, <2>1 DEF ServerRight, LostByClose, BindsOnce, Live
  <2>4. CloseRight(m)'
    <3>1. m \notin reopened' => m \notin reopened /\ calls[m] = <<>>
      BY <1>2, <2>1
    <3>. QED
      BY <1>2, <1>4, <2>1, <3>1 DEF ServerRight, CloseRight, Live
  <2>. QED
    BY <2>2, <2>3, <2>4 DEF ServerRight
<1>8. Announced'
  <2>1. cluster.ready = "resolved" => cluster'.ready = "resolved"
    BY <1>2, ResolvedStays DEF ServersInv, ClusterNext
  <2>. QED
    BY <1>2, <1>3, <2>1, SameLaunch DEF ServersInv, Announced, Opened
<1>9. NotListenedYet'
  BY <1>3 DEF NotListenedYet
<1>. QED
  BY <1>2, <1>5, <1>6, <1>7, <1>8, <1>9, SameLaunch DEF ServersInv

\* Most steps are of one member: what they leave to show.
LEMMA MemberStepKeeps ==
  ASSUME ServersInv, launch' = launch, multi' = multi, opened \subseteq opened',
         UNCHANGED <<launchVars, stage, outbox, snapshots, cluster, closes, events, served>>,
         crashed' = crashed \/ (~crashed /\ crashed' \in BOOLEAN),
         attached' \cup opened' \cup failures' \cup reopened' \cup late' \subseteq Members,
         raw' \in [Members -> RawType], sockets' \in [Members -> [Sockets -> SocketStates]],
         ready' \in [Members -> {"none", "pending", "resolved"}],
         listens' \in [Members -> 0 .. launch.maxListens],
         calls' \in [Members -> Seq(CallRecord)],
         ~multi.listening => listens' = listens,
         NEW m \in Members,
         \A n \in Members : n # m =>
           /\ raw'[n] = raw[n] /\ ready'[n] = ready[n] /\ sockets'[n] = sockets[n]
           /\ calls'[n] = calls[n] /\ (n \in attached' <=> n \in attached),
         reopened \subseteq reopened',
         m \in OwnedServers => ServerRight(m)'
  PROVE  ServersInv'
<1>1. ClusterInv'
  <2>1. CASE crashed' = crashed
    BY <2>1, ClusterStutters DEF ServersInv, clusterVars
  <2>2. CASE ~crashed /\ crashed' \in BOOLEAN
    BY <2>2, CrashKeeps DEF ServersInv
  <2>. QED
    BY <2>1, <2>2
<1>2. ServersTypeOK'
  BY <1>1 DEF ServersInv, ServersTypeOK, ClusterInv, SocketStates, CallRecord
<1>3. \A n \in OwnedServers : ServerRight(n)'
  <2>1. ASSUME NEW n \in OwnedServers, n # m
        PROVE  ServerRight(n)'
    BY <2>1, OwnedKinds, ServerKept DEF ServersInv
  <2>. QED
    BY <2>1
<1>4. Announced' /\ NotListenedYet'
  BY SameLaunch DEF ServersInv, Announced, NotListenedYet
<1>. QED
  BY <1>1, <1>2, <1>3, <1>4, SameLaunch DEF ServersInv

LEMMA Listing == ServersInv =>
  attached \subseteq Members /\ opened \subseteq Members /\ failures \subseteq Members
  /\ reopened \subseteq Members /\ late \subseteq Members
BY DEF ServersInv, ServersTypeOK

LEMMA ListenAgainKeeps ==
  ASSUME ServersInv, NEW m \in Members, ListenAgain(m)
  PROVE  ServersInv'
<1>. USE Typed, Listing
<1>1. PICK b \in {"none", "lookup", "bound", "failed"} :
        b \in BindChoices(m) /\ raw' = [raw EXCEPT ![m] = Listened(m, b)]
  BY DEF ListenAgain, BindChoices
<1>2. /\ Kind(m) = "owned" /\ ~raw[m].handle /\ raw[m].bind = "none"
      /\ listens[m] \in 1 .. launch.maxListens - 1 /\ multi.listening
      /\ listens' = [listens EXCEPT ![m] = @ + 1]
      /\ opened' = Opened
      /\ reopened' = IF calls[m] # <<>> THEN reopened \cup {m} ELSE reopened
      /\ UNCHANGED <<clusterVars, launch, attached, sockets, ready, failures, late, calls, multi>>
  BY DEF ListenAgain, ServersInv, NotListenedYet
<1>3. /\ raw' \in [Members -> RawType] /\ \A n \in Members : n # m => raw'[n] = raw[n]
      /\ raw'[m].bind = b /\ raw'[m].closeDue = raw[m].closeDue
      /\ raw'[m].handle <=> b = "bound"
  BY <1>1, <1>2, ListenedRight
<1>4. /\ listens' \in [Members -> 0 .. launch.maxListens]
      /\ opened \subseteq opened' /\ opened' \subseteq Members /\ reopened' \subseteq Members
  BY <1>2 DEF Opened
<1>5. ASSUME m \in OwnedServers
      PROVE  ServerRight(m)'
  <2>1. ServerRight(m)
    BY <1>5 DEF ServersInv
  <2>2. Opens(m)'
    BY <1>2, <2>1 DEF ServerRight, Opens, Opened
  <2>3. LostByClose(m)' /\ BindsOnce(m)'
    BY <1>2, <1>3, <2>1 DEF ServerRight, LostByClose, BindsOnce, Live
  <2>4. CloseRight(m)'
    <3>1. m \notin reopened' => m \notin reopened /\ calls[m] = <<>>
      BY <1>2
    <3>. QED
      BY <1>2, <1>3, <2>1, <3>1 DEF ServerRight, CloseRight, Live
  <2>. QED
    BY <2>2, <2>3, <2>4 DEF ServerRight
<1>. QED
  BY <1>2, <1>3, <1>4, <1>5, MemberStepKeeps DEF clusterVars

LEMMA LookupEndsKeeps ==
  ASSUME ServersInv, NEW m \in Members, LookupEnds(m)
  PROVE  ServersInv'
<1>. USE Typed, Listing
<1>1. PICK b \in {"bound", "failed"} : raw' = [raw EXCEPT ![m] = Listened(m, b)]
  BY DEF LookupEnds
<1>2. /\ raw[m].bind = "lookup" /\ opened' = Opened
      /\ UNCHANGED <<clusterVars, launch, attached, sockets, ready, failures, listens, reopened,
                     late, calls, multi>>
  BY DEF LookupEnds
<1>3. /\ raw' \in [Members -> RawType] /\ \A n \in Members : n # m => raw'[n] = raw[n]
      /\ raw'[m].bind = b /\ raw'[m].closeDue = raw[m].closeDue
      /\ raw'[m].handle <=> raw[m].handle \/ (Kind(m) = "owned" /\ b = "bound")
  BY <1>1, ListenedRight
<1>4. opened \subseteq opened' /\ opened' \subseteq Members
  BY <1>2 DEF Opened
<1>5. ASSUME m \in OwnedServers
      PROVE  ServerRight(m)'
  <2>1. ServerRight(m)
    BY <1>5 DEF ServersInv
  <2>2. Opens(m)'
    BY <1>2, <2>1 DEF ServerRight, Opens, Opened
  <2>3. LostByClose(m)' /\ BindsOnce(m)'
    BY <1>2, <1>3, <2>1 DEF ServerRight, LostByClose, BindsOnce, Live
  <2>4. CloseRight(m)'
    BY <1>2, <1>3, <2>1 DEF ServerRight, CloseRight, Live
  <2>. QED
    BY <2>2, <2>3, <2>4 DEF ServerRight
<1>. QED
  BY <1>2, <1>3, <1>4, <1>5, MemberStepKeeps DEF clusterVars

\* What the raw server emits ends the bind that was under way.
LEMMA BindEndsKeeps ==
  ASSUME ServersInv, ~crashed, NEW m \in Members, Announce(m) \/ BindFails(m)
  PROVE  ServersInv'
<1>. USE Typed, Listing
<1>1. /\ raw[m].bind \in {"bound", "failed"}
      /\ raw' = [raw EXCEPT ![m].bind = "none"]
      /\ UNCHANGED <<launchVars, stage, outbox, snapshots, cluster, closes, events, served, launch,
                     attached, sockets, opened, listens, reopened, late, calls, multi>>
  BY DEF Announce, BindFails, clusterVars
<1>2. /\ raw' \in [Members -> RawType] /\ \A n \in Members : n # m => raw'[n] = raw[n]
      /\ raw'[m].bind = "none" /\ raw'[m].closeDue = raw[m].closeDue
      /\ raw'[m].handle <=> raw[m].handle
  <2>1. raw[m] \in RawType
    OBVIOUS
  <2>. QED
    BY <1>1, <2>1 DEF RawType
<1>3. /\ ready' \in [Members -> {"none", "pending", "resolved"}]
      /\ \A n \in Members : n # m => ready'[n] = ready[n]
      /\ ready'[m] = ready[m] \/ Kind(m) = "external" \/ raw[m].handle
      /\ failures' \subseteq Members /\ crashed' \in BOOLEAN
  <2>1. CASE Announce(m)
    <3>1. crashed' \in BOOLEAN /\ failures' = failures
      BY <2>1 DEF Announce, clusterVars, ServersInv, ClusterInv, ClusterTypeOK
    <3>2. \/ ready' = ready
          \/ /\ ready' = [ready EXCEPT ![m] = IF @ = "pending" THEN "resolved" ELSE @]
             /\ Kind(m) = "external" \/ raw[m].handle
      BY <2>1 DEF Announce
    <3>. QED
      BY <3>1, <3>2
  <2>2. CASE BindFails(m)
    <3>1. crashed' \in BOOLEAN
      BY <2>2 DEF BindFails
    <3>2. failures' = failures \cup {m} /\ ready' = ready
      BY <2>2 DEF BindFails
    <3>. QED
      BY <3>1, <3>2
  <2>. QED
    BY <2>1, <2>2
<1>4. ASSUME m \in OwnedServers
      PROVE  ServerRight(m)'
  <2>1. ServerRight(m) /\ Kind(m) = "owned"
    BY <1>4, OwnedKinds DEF ServersInv
  <2>2. Opens(m)'
    BY <1>1, <1>2, <1>3, <2>1 DEF ServerRight, Opens
  <2>3. LostByClose(m)' /\ BindsOnce(m)'
    BY <1>1, <1>2, <2>1 DEF ServerRight, LostByClose, BindsOnce, Live
  <2>4. CloseRight(m)'
    BY <1>1, <1>2, <2>1 DEF ServerRight, CloseRight, Live
  <2>. QED
    BY <2>2, <2>3, <2>4 DEF ServerRight
<1>. QED
  BY <1>1, <1>2, <1>3, <1>4, MemberStepKeeps

LEMMA ListAnnouncesKeeps ==
  ASSUME ServersInv, ListAnnounces
  PROVE  ServersInv'
<1>. USE Typed, Listing
<1>1. /\ AllReady /\ multi' = [multi EXCEPT !.announced = TRUE]
      /\ UNCHANGED <<clusterVars, launch, raw, attached, sockets, ready, opened, failures, listens,
                     reopened, late, calls>>
  BY DEF ListAnnounces
<1>2. multi' \in MultiRecord /\ multi'.listening = multi.listening
  BY <1>1 DEF MultiRecord
<1>3. ClusterInv'
  BY <1>1, ClusterStutters DEF ServersInv
<1>4. ServersTypeOK' /\ NotListenedYet'
  BY <1>1, <1>2, <1>3 DEF ServersInv, ServersTypeOK, ClusterInv, NotListenedYet, MultiRecord
<1>5. \A m \in OwnedServers : ServerRight(m)'
  BY <1>1, <1>2, ServerKept DEF ServersInv
<1>6. OwnedServers \subseteq opened /\ (HasCluster => cluster.ready = "resolved")
  BY <1>1, OwnedKinds DEF AllReady, ServersInv, ServerRight, Opens
<1>7. Announced'
  BY <1>1, <1>6, SameLaunch DEF Announced, clusterVars
<1>. QED
  BY <1>1, <1>3, <1>4, <1>5, <1>7, SameLaunch DEF ServersInv

-----------------------------------------------------------------------------
(* Connections.                                                            *)

LEMMA SocketStepKeeps ==
  ASSUME ServersInv, NEW m \in Members, NEW s \in Sockets,
         ServingBegins(m, s) \/ UpgradeBegins(m, s) \/ Registers(m, s) \/ SocketGone(m, s)
  PROVE  ServersInv'
<1>. USE Typed, Listing
<1>1. /\ UNCHANGED <<clusterVars, launch, attached, ready, opened, failures, listens, reopened,
                     calls, multi>>
      /\ late' \subseteq Members
      /\ raw[m] \in RawType
  BY DEF ServingBegins, UpgradeBegins, Registers, SocketGone
<1>2. PICK state \in SocketStates :
        /\ sockets' = [sockets EXCEPT ![m][s] = state]
        /\ \/ ServingBegins(m, s) /\ state = "serving"
           \/ UpgradeBegins(m, s) /\ state = "upgrading"
           \/ Registers(m, s) /\ state = "open"
           \/ SocketGone(m, s) /\ state = "gone"
  BY DEF ServingBegins, UpgradeBegins, Registers, SocketGone, SocketStates
<1>3. /\ sockets' \in [Members -> [Sockets -> SocketStates]]
      /\ \A n \in Members : n # m => sockets'[n] = sockets[n]
      /\ \A t \in Sockets : sockets'[m][t] = IF t = s THEN state ELSE sockets[m][t]
  BY <1>2
<1>4. /\ raw' \in [Members -> RawType]
      /\ \A n \in Members : n # m => raw'[n] = raw[n]
      /\ raw'[m].handle = raw[m].handle /\ raw'[m].bind = raw[m].bind
      /\ raw'[m].closeDue => raw[m].closeDue \/
           (SocketGone(m, s) /\ ~raw[m].handle /\ ~Live(m, sockets'[m]))
  <2>1. CASE SocketGone(m, s)
    <3>1. raw' = [raw EXCEPT ![m].closeDue =
               @ \/ (Kind(m) = "owned" /\ ~raw[m].handle /\ ~Live(m, sockets'[m]))]
      BY <2>1 DEF SocketGone
    <3>. QED
      <4>. DEFINE due == raw[m].closeDue
                         \/ (Kind(m) = "owned" /\ ~raw[m].handle /\ ~Live(m, sockets'[m]))
      <4>1. raw' = [raw EXCEPT ![m] = [raw[m] EXCEPT !.closeDue = due]] /\ due \in BOOLEAN
        BY <3>1
      <4>. HIDE DEF due
      <4>2. [raw[m] EXCEPT !.closeDue = due] \in RawType
        BY <1>1, <4>1 DEF RawType
      <4>3. /\ raw' \in [Members -> RawType] /\ \A n \in Members : n # m => raw'[n] = raw[n]
            /\ raw'[m].handle = raw[m].handle /\ raw'[m].bind = raw[m].bind
            /\ raw'[m].closeDue = due
        BY <1>1, <4>1, <4>2 DEF RawType
      <4>. QED
        BY <2>1, <4>3 DEF due
  <2>2. CASE ServingBegins(m, s) \/ UpgradeBegins(m, s) \/ Registers(m, s)
    <3>1. raw' = raw
      BY <2>2 DEF ServingBegins, UpgradeBegins, Registers
    <3>. QED
      BY <3>1
  <2>. QED
    BY <1>2, <2>1, <2>2
<1>5. ASSUME m \in OwnedServers
      PROVE  ServerRight(m)'
  <2>1. ServerRight(m)
    BY <1>5 DEF ServersInv
  <2>2. Opens(m)' /\ BindsOnce(m)'
    BY <1>1, <1>4, <2>1 DEF ServerRight, Opens, BindsOnce
  <2>3. CASE ~SocketGone(m, s) /\ Accepts(m)
    <3>1. raw' = raw /\ raw[m].handle /\ ~raw[m].closeDue
      BY <1>2, <2>3 DEF ServingBegins, UpgradeBegins, Registers, Accepts
    <3>. QED
      BY <1>1, <2>1, <2>2, <3>1 DEF ServerRight, LostByClose, CloseRight
  <2>4. CASE SocketGone(m, s) \/ ~Accepts(m)
    <3>1. Live(m, sockets[m])
      BY <1>2, <2>4 DEF ServingBegins, UpgradeBegins, Registers, SocketGone, Live, InUse
    <3>2. LostByClose(m)'
      BY <1>1, <1>4, <2>1, <3>1 DEF ServerRight, LostByClose
    <3>3. CloseRight(m)'
      BY <1>1, <1>4, <2>1, <3>1 DEF ServerRight, CloseRight
    <3>. QED
      BY <2>2, <3>2, <3>3 DEF ServerRight
  <2>. QED
    BY <2>3, <2>4
<1>. QED
  BY <1>1, <1>3, <1>4, <1>5, MemberStepKeeps DEF clusterVars

-----------------------------------------------------------------------------
(* Closing.                                                                *)

LEMMA ToldLives ==
  ASSUME ServersInv, NEW m \in Members
  PROVE  Told(m) \in [Sockets -> SocketStates] /\ (Live(m, Told(m)) <=> Live(m, sockets[m]))
BY Typed DEF Told, Live, InUse, SocketStates

\* What close() adds to the calls of a member.
CallMade(m, by) == [errs |-> ~AtOnce(m) /\ ~raw[m].handle, by |-> by,
                    state |-> IF AtOnce(m) THEN "resolved" ELSE "pending"]

LEMMA Appended ==
  ASSUME NEW S, NEW seq \in Seq(S), NEW e \in S
  PROVE  /\ Append(seq, e) \in Seq(S) /\ Append(seq, e) # <<>>
         /\ DOMAIN Append(seq, e) = DOMAIN seq \cup {Len(seq) + 1}
         /\ \A k \in DOMAIN seq : Append(seq, e)[k] = seq[k]
         /\ Append(seq, e)[Len(seq) + 1] = e
<1>1. /\ Append(seq, e) \in Seq(S) /\ Len(Append(seq, e)) = Len(seq) + 1 /\ Len(seq) \in Nat
      /\ \A k \in 1 .. Len(seq) : Append(seq, e)[k] = seq[k]
      /\ Append(seq, e)[Len(seq) + 1] = e
  BY AppendProperties, LenProperties
<1>2. DOMAIN seq = 1 .. Len(seq) /\ DOMAIN Append(seq, e) = 1 .. Len(seq) + 1
  BY <1>1, LenProperties
<1>3. Append(seq, e) # <<>>
  BY <1>1, EmptySeq
<1>. QED
  BY <1>1, <1>2, <1>3

\* close() of some members: what it does to each, whatever the rest of the step does.
LEMMA ServersCloseRight ==
  ASSUME ServersInv, NEW M \in SUBSET KenoServers, NEW by \in {"app", "abort", "list"},
         ServersClose(M, by), multi'.listening = multi.listening
  PROVE  /\ raw' \in [Members -> RawType] /\ sockets' \in [Members -> [Sockets -> SocketStates]]
         /\ calls' \in [Members -> Seq(CallRecord)] /\ attached' \subseteq attached
         /\ UNCHANGED <<launch, ready, opened, failures, listens, reopened, late>>
         /\ \A m \in OwnedServers : ServerRight(m)'
<1>. USE Typed, Listing
<1>1. /\ sockets' = [m \in Members |-> IF m \in M THEN Told(m) ELSE sockets[m]]
      /\ attached' = attached \ {m \in M : AtOnce(m)}
      /\ UNCHANGED <<launch, ready, opened, failures, listens, reopened, late>>
  BY DEF ServersClose
<1>2. /\ sockets' \in [Members -> [Sockets -> SocketStates]]
      /\ \A m \in Members : Live(m, sockets'[m]) <=> Live(m, sockets[m])
  BY <1>1, ToldLives
<1>3. ASSUME NEW m \in Members
      PROVE  /\ calls'[m] = IF m \notin M THEN calls[m] ELSE Append(calls[m], CallMade(m, by))
             /\ calls'[m] \in Seq(CallRecord)
             /\ m \in M => /\ calls'[m] # <<>>
                           /\ DOMAIN calls'[m] = DOMAIN calls[m] \cup {Len(calls[m]) + 1}
                           /\ \A k \in DOMAIN calls[m] : calls'[m][k] = calls[m][k]
                           /\ calls'[m][Len(calls[m]) + 1] = CallMade(m, by)
  <2>1. calls'[m] = IF m \notin M THEN calls[m] ELSE Append(calls[m], CallMade(m, by))
    BY DEF ServersClose, CallMade
  <2>2. CallMade(m, by) \in CallRecord /\ calls[m] \in Seq(CallRecord)
    BY DEF CallRecord, CallMade
  <2>. QED
    BY <2>1, <2>2, Appended
<1>4. calls' \in [Members -> Seq(CallRecord)]
  <2>1. calls' = [m \in Members |-> calls'[m]]
    BY DEF ServersClose
  <2>. QED
    BY <1>3, <2>1
<1>5. ASSUME NEW m \in Members
      PROVE  /\ raw'[m] \in RawType /\ raw'[m].bind = raw[m].bind
             /\ m \in M /\ Kind(m) = "owned" =>
                  /\ ~raw'[m].handle
                  /\ raw'[m].closeDue => raw[m].closeDue \/ ~Live(m, sockets'[m])
             /\ m \notin M => raw'[m] = raw[m]
  <2>. DEFINE due == raw[m].closeDue \/ ~Live(m, sockets'[m])
  <2>1. raw'[m] = IF m \in M /\ Kind(m) = "owned"
                  THEN [raw[m] EXCEPT !.handle = FALSE, !.closeDue = due] ELSE raw[m]
    BY DEF ServersClose
  <2>2. raw[m] \in RawType /\ due \in BOOLEAN
    OBVIOUS
  <2>. HIDE DEF due
  <2>3. /\ [raw[m] EXCEPT !.handle = FALSE, !.closeDue = due] \in RawType
        /\ [raw[m] EXCEPT !.handle = FALSE, !.closeDue = due].bind = raw[m].bind
        /\ ~[raw[m] EXCEPT !.handle = FALSE, !.closeDue = due].handle
        /\ [raw[m] EXCEPT !.handle = FALSE, !.closeDue = due].closeDue = due
    BY <2>2 DEF RawType
  <2>. QED
    BY <2>1, <2>2, <2>3 DEF due
<1>6. raw' \in [Members -> RawType]
  <2>1. raw' = [m \in Members |-> raw'[m]]
    BY DEF ServersClose
  <2>. QED
    BY <1>5, <2>1
<1>7. ASSUME NEW m \in OwnedServers
      PROVE  ServerRight(m)'
  <2>1. ServerRight(m) /\ m \in Members /\ Kind(m) = "owned" /\ ~AtOnce(m)
        /\ (m \in attached' <=> m \in attached)
    BY <1>1, <1>7, OwnedKinds DEF ServersInv, AtOnce
  <2>2. CASE m \notin M
    <3>1. sockets'[m] = sockets[m] /\ raw'[m] = raw[m] /\ calls'[m] = calls[m]
      BY <1>1, <1>3, <1>5, <2>1, <2>2
    <3>. QED
      BY <1>1, <2>1, <3>1, ServerKept
  <2>3. CASE m \in M
    <3>1. /\ ~raw'[m].handle /\ raw'[m].bind = raw[m].bind /\ calls'[m] # <<>>
          /\ raw'[m].closeDue => raw[m].closeDue \/ ~Live(m, sockets'[m])
      BY <1>3, <1>5, <2>1, <2>3
    <3>2. Opens(m)' /\ LostByClose(m)' /\ BindsOnce(m)'
      BY <1>1, <2>1, <3>1 DEF ServerRight, Opens, LostByClose, BindsOnce
    <3>3. raw'[m].closeDue => ~Live(m, sockets'[m])
      BY <1>2, <2>1, <3>1 DEF ServerRight, CloseRight
    <3>4. ASSUME NEW k \in DOMAIN calls'[m]
          PROVE  /\ calls'[m][k].state = "resolved" => ~calls'[m][k].errs /\ m \notin attached'
                 /\ m \notin reopened' =>
                      /\ ~calls'[m][k].errs => ~raw'[m].handle /\ raw'[m].bind # "lookup"
                      /\ calls'[m][k].state = "resolved" => ~Live(m, sockets'[m])
      <4>1. CASE k \in DOMAIN calls[m]
        <5>1. calls'[m][k] = calls[m][k]
          BY <1>3, <2>1, <2>3, <4>1
        <5>. QED
          BY <1>1, <1>2, <2>1, <3>1, <4>1, <5>1 DEF ServerRight, CloseRight
      <4>2. CASE k \notin DOMAIN calls[m]
        <5>1. calls'[m][k].state = "pending" /\ (~calls'[m][k].errs => raw[m].handle)
          <6>1. k = Len(calls[m]) + 1
            <7>1. DOMAIN calls'[m] = DOMAIN calls[m] \cup {Len(calls[m]) + 1}
              BY <1>3, <2>1, <2>3
            <7>. QED
              BY <3>4, <4>2, <7>1
          <6>2. calls'[m][k] = CallMade(m, by)
            BY <1>3, <2>1, <2>3, <6>1
          <6>3. CallMade(m, by).state = "pending" /\ (~CallMade(m, by).errs => raw[m].handle)
            BY <2>1 DEF CallMade
          <6>. QED
            BY <6>2, <6>3
        <5>. QED
          BY <2>1, <3>1, <5>1 DEF ServerRight, BindsOnce
      <4>. QED
        BY <4>1, <4>2
    <3>5. CloseRight(m)'
      BY <3>3, <3>4 DEF CloseRight
    <3>. QED
      BY <3>2, <3>5 DEF ServerRight
  <2>. QED
    BY <2>2, <2>3
<1>. QED
  BY <1>1, <1>2, <1>4, <1>6, <1>7

LEMMA MemberClosesKeeps ==
  ASSUME ServersInv, NEW m \in Members, NEW by \in {"app", "abort"}, MemberCloses(m, by)
  PROVE  ServersInv'
<1>. USE Typed, Listing
<1>1. ServersClose({m}, by) /\ {m} \in SUBSET KenoServers /\ UNCHANGED <<clusterVars, multi>>
  BY DEF MemberCloses
<1>2. /\ raw' \in [Members -> RawType] /\ sockets' \in [Members -> [Sockets -> SocketStates]]
      /\ calls' \in [Members -> Seq(CallRecord)] /\ attached' \subseteq attached
      /\ UNCHANGED <<launch, ready, opened, failures, listens, reopened, late>>
      /\ \A n \in OwnedServers : ServerRight(n)'
  BY <1>1, ServersCloseRight
<1>3. ClusterInv'
  BY <1>1, ClusterStutters DEF ServersInv
<1>4. ServersTypeOK'
  BY <1>1, <1>2, <1>3 DEF ServersInv, ServersTypeOK, ClusterInv, SocketStates, CallRecord
<1>5. Announced' /\ NotListenedYet'
  BY <1>1, <1>2, SameLaunch DEF ServersInv, Announced, NotListenedYet, clusterVars
<1>. QED
  BY <1>2, <1>3, <1>4, <1>5, SameLaunch DEF ServersInv

LEMMA ListClosesKeeps ==
  ASSUME ServersInv, ~crashed, ListCloses
  PROVE  ServersInv'
<1>. USE Typed, Listing
<1>1. /\ ServersClose(KenoServers, "list")
      /\ ClusterClose(FALSE) \/ UNCHANGED clusterVars
      /\ multi' = [multi EXCEPT !.close = "pending",
                                !.waits = IF Len(closes') > Len(closes) THEN Len(closes') ELSE 0]
  BY DEF ListCloses
<1>2. multi' \in MultiRecord /\ multi'.listening = multi.listening /\ multi'.announced = multi.announced
  <2>1. (IF Len(closes') > Len(closes) THEN Len(closes') ELSE 0) \in 0 .. MaxCloses
    <3>1. CASE ClusterClose(FALSE)
      <4>1. closes \in Seq(CloseRecord) /\ [waits |-> Stopped, done |-> FALSE] \in CloseRecord
        BY DEF ServersInv, ClusterInv, ClusterTypeOK, CloseRecord, Stopped
      <4>2. closes' = Append(closes, [waits |-> Stopped, done |-> FALSE]) /\ Len(closes) < MaxCloses
        BY <3>1 DEF ClusterClose
      <4>3. Len(closes') = Len(closes) + 1 /\ Len(closes) \in Nat
        BY <4>1, <4>2, AppendProperties, LenProperties
      <4>. QED
        BY <4>2, <4>3, ClusterAssumption
    <3>2. CASE UNCHANGED clusterVars
      <4>1. closes' = closes /\ Len(closes) \in Nat
        BY <3>2, LenProperties DEF clusterVars, ServersInv, ClusterInv, ClusterTypeOK
      <4>. QED
        BY <4>1, ClusterAssumption
    <3>. QED
      BY <1>1, <3>1, <3>2
  <2>. QED
    BY <1>1, <2>1 DEF MultiRecord
<1>3. /\ raw' \in [Members -> RawType] /\ sockets' \in [Members -> [Sockets -> SocketStates]]
      /\ calls' \in [Members -> Seq(CallRecord)] /\ attached' \subseteq attached
      /\ UNCHANGED <<launch, ready, opened, failures, listens, reopened, late>>
      /\ \A n \in OwnedServers : ServerRight(n)'
  BY <1>1, <1>2, ServersCloseRight
<1>4. ClusterInv'
  BY <1>1, ClusterCloseKeeps, ClusterStutters DEF ServersInv
<1>5. ServersTypeOK'
  BY <1>2, <1>3, <1>4 DEF ServersInv, ServersTypeOK, ClusterInv, SocketStates, CallRecord, MultiRecord
<1>6. Announced' /\ NotListenedYet'
  <2>1. cluster.ready = "resolved" => cluster'.ready = "resolved"
    BY <1>1, ResolvedStays DEF ServersInv, ClusterNext
  <2>. QED
    BY <1>2, <1>3, <2>1, SameLaunch DEF ServersInv, Announced, NotListenedYet
<1>. QED
  BY <1>3, <1>4, <1>5, <1>6, SameLaunch DEF ServersInv

LEMMA RawClosesKeeps ==
  ASSUME ServersInv, ~crashed, NEW m \in Members, RawCloses(m)
  PROVE  ServersInv'
<1>. USE Typed, Listing
<1>1. /\ raw[m].closeDue /\ raw[m] \in RawType
      /\ raw' = [raw EXCEPT ![m].closeDue = FALSE]
      /\ attached' = attached \ {m}
      /\ calls' = [calls EXCEPT ![m] = [k \in DOMAIN @ |-> Called(@[k])]]
      /\ crashed' \in BOOLEAN
      /\ UNCHANGED <<launchVars, stage, outbox, snapshots, cluster, closes, events, served,
                     launch, sockets, ready, opened, failures, listens, reopened, late, multi>>
  BY DEF RawCloses
<1>2. /\ raw' \in [Members -> RawType] /\ \A n \in Members : n # m => raw'[n] = raw[n]
      /\ raw'[m].bind = raw[m].bind /\ ~raw'[m].closeDue
      /\ raw'[m].handle <=> raw[m].handle
  BY <1>1 DEF RawType
<1>3. /\ calls' \in [Members -> Seq(CallRecord)] /\ \A n \in Members : n # m => calls'[n] = calls[n]
      /\ DOMAIN calls'[m] = DOMAIN calls[m]
      /\ \A k \in DOMAIN calls[m] :
           /\ calls'[m][k].errs = calls[m][k].errs
           /\ calls'[m][k].state = "resolved" =>
                calls[m][k].state = "resolved" \/ ~calls[m][k].errs
      /\ calls[m] # <<>> => calls'[m] # <<>>
  <2>1. DOMAIN calls[m] = 1 .. Len(calls[m]) /\ Len(calls[m]) \in Nat
    BY LenProperties
  <2>2. ASSUME NEW k \in DOMAIN calls[m]
        PROVE  /\ Called(calls[m][k]) \in CallRecord
               /\ Called(calls[m][k]).errs = calls[m][k].errs
               /\ Called(calls[m][k]).state = "resolved" =>
                    calls[m][k].state = "resolved" \/ ~calls[m][k].errs
    <3>1. calls[m][k] \in CallRecord
      BY <2>1, <2>2, ElementOfSeq
    <3>. QED
      BY <3>1 DEF Called, CallRecord
  <2>3. calls'[m] = [k \in DOMAIN calls[m] |-> Called(calls[m][k])]
    BY <1>1
  <2>4. calls'[m] \in [1 .. Len(calls[m]) -> CallRecord]
    BY <2>1, <2>2, <2>3
  <2>5. calls'[m] \in Seq(CallRecord)
    BY <2>1, <2>4, FunctionIsSeq
  <2>6. calls' \in [Members -> Seq(CallRecord)]
    BY <1>1, <2>3, <2>5
  <2>7. calls[m] # <<>> => calls'[m] # <<>>
    <3>1. calls[m] # <<>> => 1 \in DOMAIN calls'[m]
      BY <2>1, <2>3, EmptySeq
    <3>2. 1 \notin DOMAIN <<>>
      OBVIOUS
    <3>. QED
      BY <3>1, <3>2
  <2>8. \A n \in Members : n # m => calls'[n] = calls[n]
    BY <1>1
  <2>9. DOMAIN calls'[m] = DOMAIN calls[m] /\ \A k \in DOMAIN calls[m] : calls'[m][k] = Called(calls[m][k])
    BY <2>3
  <2>. QED
    BY <2>2, <2>6, <2>7, <2>8, <2>9
<1>4. ASSUME m \in OwnedServers
      PROVE  ServerRight(m)'
  <2>1. ServerRight(m)
    BY <1>4 DEF ServersInv
  <2>2. Opens(m)' /\ BindsOnce(m)'
    BY <1>1, <1>2, <2>1 DEF ServerRight, Opens, BindsOnce
  <2>3. LostByClose(m)'
    BY <1>1, <1>3, <2>1 DEF ServerRight, LostByClose
  <2>4. CloseRight(m)'
    <3>1. ~Live(m, sockets'[m]) /\ m \notin attached'
      BY <1>1, <2>1 DEF ServerRight, CloseRight
    <3>. QED
      BY <1>1, <1>2, <1>3, <2>1, <3>1 DEF ServerRight, CloseRight
  <2>. QED
    BY <2>2, <2>3, <2>4 DEF ServerRight
<1>. QED
  BY <1>1, <1>2, <1>3, <1>4, MemberStepKeeps

LEMMA QuietStepKeeps ==
  ASSUME ServersInv, ClusterStep \/ ListCloseSettles \/ UNCHANGED vars
  PROVE  ServersInv'
<1>. USE Typed, Listing
<1>1. UNCHANGED <<launch, raw, attached, sockets, ready, opened, failures, listens, reopened, late, calls>>
  BY DEF ClusterStep, ListCloseSettles, vars, serverVars
<1>2. /\ multi' \in MultiRecord /\ multi'.listening = multi.listening
      /\ multi'.announced = multi.announced
  <2>1. CASE ListCloseSettles
    <3>1. PICK state \in {"resolved", "rejected"} : multi' = [multi EXCEPT !.close = state]
      BY <2>1 DEF ListCloseSettles
    <3>. QED
      BY <3>1 DEF MultiRecord
  <2>2. CASE ClusterStep \/ UNCHANGED vars
    BY <2>2 DEF ClusterStep, vars, serverVars
  <2>. QED
    BY <2>1, <2>2
<1>3. ClusterNext \/ UNCHANGED clusterVars
  BY DEF ClusterStep, ListCloseSettles, vars
<1>4. ClusterInv' /\ (cluster.ready = "resolved" => cluster'.ready = "resolved")
  BY <1>3, ClusterNextKeeps, ClusterStutters, ResolvedStays DEF ServersInv
<1>5. ServersTypeOK' /\ NotListenedYet' /\ Announced'
  BY <1>1, <1>2, <1>4, SameLaunch
     DEF ServersInv, ServersTypeOK, ClusterInv, NotListenedYet, Announced, MultiRecord
<1>6. \A m \in OwnedServers : ServerRight(m)'
  BY <1>1, <1>2, ServerKept DEF ServersInv
<1>. QED
  BY <1>1, <1>4, <1>5, <1>6, SameLaunch DEF ServersInv

-----------------------------------------------------------------------------
(* The invariant, and what it gives.                                       *)

LEMMA InitServersInv == Init => ServersInv
<1>. SUFFICES ASSUME Init PROVE ServersInv
  OBVIOUS
<1>1. ClusterInv
  BY ClusterInit1 DEF Init
<1>2. /\ raw \in [Members -> RawType] /\ launch \in Launches
      /\ calls \in [Members -> Seq(CallRecord)] /\ listens \in [Members -> 0 .. launch.maxListens]
  <2>1. launch \in Launches /\ launch.maxListens \in Nat
    BY ServersAssumption DEF Init
  <2>2. raw \in [Members -> RawType]
    BY DEF Init, RawType
  <2>3. calls \in [Members -> Seq(CallRecord)]
    BY EmptySeq DEF Init
  <2>4. listens \in [Members -> 0 .. launch.maxListens]
    BY <2>1 DEF Init
  <2>. QED
    BY <2>1, <2>2, <2>3, <2>4
<1>3. ServersTypeOK
  BY <1>1, <1>2, ClusterAssumption
     DEF Init, ServersTypeOK, ClusterInv, CallRecord, KenoServers, Of, MultiRecord
<1>4. ASSUME NEW m \in OwnedServers
      PROVE  ServerRight(m)
  <2>1. m \in Members /\ m \in attached /\ ~raw[m].handle /\ raw[m].bind = "none" /\ ~raw[m].closeDue
    BY <1>4, OwnedKinds DEF Init
  <2>2. ready[m] = "none" /\ calls[m] = <<>> /\ DOMAIN calls[m] = {} /\ ~Live(m, sockets[m])
    BY <2>1 DEF Init, Live, InUse
  <2>. QED
    BY <2>1, <2>2 DEF ServerRight, Opens, LostByClose, BindsOnce, CloseRight
<1>5. NotListenedYet /\ Announced
  BY DEF Init, NotListenedYet, Announced
<1>. QED
  BY <1>1, <1>3, <1>4, <1>5 DEF ServersInv

LEMMA ServersInvStep == ServersInv /\ [Next]_vars => ServersInv'
<1>. SUFFICES ASSUME ServersInv, [Next]_vars
              PROVE  ServersInv'
  OBVIOUS
<1>1. CASE UNCHANGED vars
  BY <1>1, QuietStepKeeps
<1>2. CASE Next
  <2>1. ~crashed
    BY <1>2 DEF Next
  <2>2. ASSUME NEW m \in Members, ServerStep(m)
        PROVE  ServersInv'
    BY <2>1, <2>2, ListenAgainKeeps, LookupEndsKeeps, BindEndsKeeps, RawClosesKeeps, SocketStepKeeps,
       MemberClosesKeeps DEF ServerStep
  <2>. QED
    BY <1>2, <2>1, <2>2, ListListenKeeps, ListAnnouncesKeeps, ListClosesKeeps, QuietStepKeeps DEF Next
<1>. QED
  BY <1>1, <1>2

LEMMA ServersInvAlways == Spec => []ServersInv
BY InitServersInv, ServersInvStep, PTL DEF Spec

\* The cluster, the servers and their calls keep their types, for any launch.
THEOREM ServersTyped == Spec => []ServersTypeOK
<1>1. ServersInv => ServersTypeOK
  BY DEF ServersInv
<1>. QED
  BY <1>1, ServersInvAlways, PTL

\* A launch reported as listening has bound each of its own servers and has the address of
\* each thread; and a server hears the requests of its connections unless it was closed.
THEOREM AnnouncedListens == Spec => []AnnouncedIsReady
<1>1. ServersInv => AnnouncedIsReady
  <2>. SUFFICES ASSUME ServersInv PROVE AnnouncedIsReady
    OBVIOUS
  <2>1. ReadyIsComplete
    BY DEF ServersInv, ClusterInv, ReadyRight, ReadyIsComplete
  <2>. QED
    BY <2>1 DEF ServersInv, Announced, OwnedServers, ServerRight, LostByClose, AnnouncedIsReady
<1>. QED
  BY <1>1, ServersInvAlways, PTL

\* When close() has resolved, no thread, handle, websocket or listener is left that only
\* listening again explains.
THEOREM ClosedLeavesNothing == Spec => []NothingLeft
<1>1. ServersInv => NothingLeft
  <2>. SUFFICES ASSUME ServersInv PROVE NothingLeft
    OBVIOUS
  <2>1. NoThreadLeft
    BY DEF ServersInv, ClusterInv, ThreadsAwaited, NoThreadLeft
  <2>. QED
    BY <2>1 DEF ServersInv, OwnedServers, ServerRight, CloseRight, NothingLeft
<1>. QED
  BY <1>1, ServersInvAlways, PTL
=============================================================================
