---------------------------- MODULE ThreadCluster ----------------------------
(***************************************************************************)
(* KenoThreadCluster (src/internal/concurrency/thread-cluster.ts), the     *)
(* program each of its threads runs, and the ThreadedServerAdapter in      *)
(* front of it (src/internal/transport/server.ts).                         *)
(*                                                                         *)
(* Threads and the main thread share nothing but messages and exit events; *)
(* the messages of a thread come in order, and before its exit event.      *)
(***************************************************************************)
EXTENDS Integers, Sequences, FiniteSets

CONSTANTS
  Workers,     \* the ids of the threads
  MaxCloses    \* bound: calls of close()

ASSUME ClusterAssumption == IsFiniteSet(Workers) /\ MaxCloses \in Nat

VARIABLES
  errorHeard,   \* does the application listen to "error"?
  readyHeard,   \* does it handle the rejection of the promise of ready()?
  stage,        \* where the program of each thread is
  outbox,       \* messages of each thread to the main thread
  snapshots,    \* workerSnapshots: threads in the map, and those that are ready
  cluster,      \* listening, closing, readyPromise
  closes,       \* the calls of close(): the threads each waits for
  events,       \* history: "listening" and "close" events emitted
  served,       \* history: threads whose "listening" message was handled
  crashed       \* did an exception end the process?

launchVars == <<errorHeard, readyHeard>>
clusterVars == <<launchVars, stage, outbox, snapshots, cluster, closes, events,
                 served, crashed>>

(***************************************************************************)
(* "booting": import and resolveApp; "binding": app.listen() and ready();  *)
(* "stuck": ready() never settles, for the bind failed; "serving": the     *)
(* message was posted; "failed", "done", "cut": the thread has ended by an *)
(* error, on its own or on "shutdown", by terminate().                     *)
(***************************************************************************)
Alive == {"booting", "binding", "stuck", "serving"}
EndedBy == {"failed", "done", "cut"}

ClusterTypeOK ==
  /\ errorHeard \in BOOLEAN
  /\ readyHeard \in BOOLEAN
  /\ stage \in [Workers -> {"none", "gone"} \cup Alive \cup EndedBy]
  /\ outbox \in [Workers -> Seq({"error", "listening"})]
  /\ snapshots \in [Workers -> {"absent", "starting", "ready"}]
  /\ cluster \in [listening : BOOLEAN, closing : BOOLEAN, late : BOOLEAN,
                  ready : {"none", "pending", "resolved", "rejected"}]
  /\ closes \in Seq([waits : SUBSET Workers, done : BOOLEAN])
  /\ events \in [listening : Nat, close : Nat]
  /\ served \subseteq Workers
  /\ crashed \in BOOLEAN

ClusterInit ==
  /\ errorHeard \in BOOLEAN
  /\ readyHeard \in BOOLEAN
  /\ stage = [w \in Workers |-> "none"]
  /\ outbox = [w \in Workers |-> <<>>]
  /\ snapshots = [w \in Workers |-> "absent"]
  /\ cluster = [listening |-> FALSE, closing |-> FALSE, late |-> FALSE, ready |-> "none"]
  /\ closes = <<>>
  /\ events = [listening |-> 0, close |-> 0]
  /\ served = {}
  /\ crashed = FALSE

-----------------------------------------------------------------------------
(* The main thread.                                                        *)

\* emit("error") throws when nobody listens, and the code after it is skipped;
\* the rejection of readyPromise, which exists since listen(), needs a handler.
ErrorEmitted ==
  LET rejects == errorHeard /\ cluster.ready = "pending"
  IN  /\ cluster' = IF rejects THEN [cluster EXCEPT !.ready = "rejected"] ELSE cluster
      /\ crashed' = (~errorHeard \/ (rejects /\ ~readyHeard))

\* listen(), which ready() calls too: every thread is spawned at once.
ClusterListen ==
  /\ ~cluster.listening
  /\ cluster' = [cluster EXCEPT !.listening = TRUE, !.ready = "pending",
                                !.late = cluster.closing]
  /\ stage' = [w \in Workers |-> "booting"]
  /\ snapshots' = [w \in Workers |-> "starting"]
  /\ UNCHANGED <<launchVars, outbox, closes, events, served, crashed>>

\* Every thread that is still in the map is ready.
Complete(s) == \A w \in Workers : s[w] # "starting"

\* handleWorkerMessage.
ListeningMessage(w) ==
  /\ outbox[w] # <<>>
  /\ Head(outbox[w]) = "listening"
  /\ outbox' = [outbox EXCEPT ![w] = Tail(@)]
  /\ IF snapshots[w] = "absent"
     THEN UNCHANGED <<snapshots, cluster, events, served>>
     ELSE /\ snapshots' = [snapshots EXCEPT ![w] = "ready"]
          /\ served' = served \cup {w}
          /\ IF Complete(snapshots')
             THEN /\ events' = [events EXCEPT !.listening = @ + 1]
                  /\ cluster' = IF cluster.ready = "pending"
                                THEN [cluster EXCEPT !.ready = "resolved"] ELSE cluster
             ELSE UNCHANGED <<events, cluster>>
  /\ UNCHANGED <<launchVars, stage, closes, crashed>>

ErrorMessage(w) ==
  /\ outbox[w] # <<>>
  /\ Head(outbox[w]) = "error"
  /\ outbox' = [outbox EXCEPT ![w] = Tail(@)]
  /\ ErrorEmitted
  /\ UNCHANGED <<launchVars, stage, snapshots, closes, events, served>>

\* Mutant: the end of a thread is not an error.
ExitRejects_Never == FALSE

ExitRejects == ~cluster.closing

\* The error event of a thread that failed and its exit event, and the close()
\* calls that wait for it.
WorkerExits(w) ==
  LET failed == stage[w] = "failed"
  IN  /\ stage[w] \in EndedBy
      /\ outbox[w] = <<>>
      /\ stage' = [stage EXCEPT ![w] = "gone"]
      /\ snapshots' = [snapshots EXCEPT ![w] = "absent"]
      /\ closes' = [k \in DOMAIN closes |-> [closes[k] EXCEPT !.waits = @ \ {w}]]
      /\ IF failed \/ ExitRejects THEN ErrorEmitted ELSE UNCHANGED <<cluster, crashed>>
      /\ UNCHANGED <<launchVars, outbox, events, served>>

\* Mutant: only the threads that are ready are told and waited for.
Stopped_Ready == {w \in Workers : snapshots[w] = "ready"}

\* The threads a call of close() stops: those in the map.
Stopped == {w \in Workers : snapshots[w] # "absent"}

\* close() up to its await.  The adapter's close() does nothing once the cluster
\* has emitted "close"; the abort signal calls the cluster's own.
ClusterClose(aborts) ==
  /\ Len(closes) < MaxCloses
  /\ aborts \/ events.close = 0
  /\ cluster' = [cluster EXCEPT !.closing = TRUE]
  /\ closes' = Append(closes, [waits |-> Stopped, done |-> FALSE])
  /\ UNCHANGED <<launchVars, stage, outbox, snapshots, events, served, crashed>>

\* The second that a call of close() gives to a thread is over.
Terminate(w) ==
  /\ stage[w] \in Alive
  /\ \E k \in DOMAIN closes : w \in closes[k].waits
  /\ stage' = [stage EXCEPT ![w] = "cut"]
  /\ UNCHANGED <<launchVars, outbox, snapshots, cluster, closes, events,
                 served, crashed>>

\* Every thread the call waited for is gone: the map is cleared.
CloseEnds(k) ==
  /\ k \in DOMAIN closes
  /\ ~closes[k].done
  /\ closes[k].waits = {}
  /\ closes' = [closes EXCEPT ![k].done = TRUE]
  /\ snapshots' = [w \in Workers |-> "absent"]
  /\ events' = [events EXCEPT !.close = @ + 1]
  /\ UNCHANGED <<launchVars, stage, outbox, cluster, served, crashed>>

-----------------------------------------------------------------------------
(* The program of a thread: WORKER_SOURCE.                                 *)

Become(w, next, posts) ==
  /\ stage' = [stage EXCEPT ![w] = next]
  /\ outbox' = [outbox EXCEPT ![w] = @ \o posts]
  /\ UNCHANGED <<launchVars, snapshots, cluster, closes, events, served, crashed>>

\* import, and resolveApp: the application that the entry registered when it called
\* listen(), or the one it exports.  An entry without one fails: see ThreadEnds.
Boot(w) == stage[w] = "booting" /\ Become(w, "binding", <<>>)

\* listen() and ready() of the server in the thread; a failed bind is posted, and
\* ready() stays pending.
Bind(w) ==
  /\ stage[w] = "binding"
  /\ \/ Become(w, "serving", <<"listening">>)
     \/ Become(w, "stuck", <<"error">>)

\* A thread ends on the shutdown message, which it reads only once it serves, when
\* nothing is left to wait for, or by a process.exit() of the entry; and it may fail,
\* in its import too.
ThreadEnds(w) == stage[w] \in Alive /\ \E by \in {"done", "failed"} : Become(w, by, <<>>)

-----------------------------------------------------------------------------
ClusterEvent(w) == ListeningMessage(w) \/ ErrorMessage(w) \/ WorkerExits(w)

ClusterNext ==
  /\ ~crashed
  /\ \/ ClusterListen
     \/ \E aborts \in BOOLEAN : ClusterClose(aborts)
     \/ \E k \in 1 .. MaxCloses : CloseEnds(k)
     \/ \E w \in Workers :
          \/ ClusterEvent(w) \/ Terminate(w)
          \/ Boot(w) \/ Bind(w) \/ ThreadEnds(w)

-----------------------------------------------------------------------------
\* "listening" is reported once, and ready() resolves only when every thread has
\* reported its address, but for threads that end while the cluster closes.
ReadyIsComplete ==
  /\ events.listening <= 1
  /\ cluster.ready = "resolved" /\ ~cluster.closing =>
       served = Workers /\ events.listening = 1

\* When a call of close() has ended, no thread runs that the cluster does not
\* know of; only a listen() during or after close() leaves one behind.
NoThreadLeft ==
  (\E k \in DOMAIN closes : closes[k].done) /\ ~cluster.late =>
    \A w \in Workers : stage[w] \notin Alive
=============================================================================
