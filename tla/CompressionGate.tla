--------------------------- MODULE CompressionGate ---------------------------
(***************************************************************************)
(* ZlibConcurrencyGate and the compressors that share it                   *)
(* (src/internal/websocket/permessage-deflate.ts).  Every connection that  *)
(* negotiated the same concurrencyLimit shares one gate, and runs one      *)
(* compression at a time through it.                                       *)
(*                                                                         *)
(* A waiter is woken by the resolution of a promise: it goes on in a later *)
(* microtask, and increments the counter only then.  Until the microtasks  *)
(* are drained no zlib callback runs, but other code does.                 *)
(***************************************************************************)
EXTENDS Integers, Sequences, FiniteSets, Functions

CONSTANTS
  Compressors,   \* the PerMessageDeflateCompressor of each connection
  Limit          \* concurrencyLimit, normalised by getConcurrencyGate

ASSUME GateAssumption ==
  /\ IsFiniteSet(Compressors)
  /\ Limit \in Nat \ {0}

VARIABLES
  active,    \* the gate's counter
  pending,   \* compressors whose promise is in the gate's pending array
  pc,        \* where the compress() of each compressor is
  deflate,   \* compressors that hold an open deflate stream
  closed     \* history: "no", or what compress() was at when close() was
             \* last called: "queued" at the gate, or "elsewhere"

gateVars == <<active, pending, pc, deflate, closed>>

(***************************************************************************)
(* "idle": no compress() in progress; "waiting": in the pending array;     *)
(* "woken": its promise is resolved, its microtask still to run;           *)
(* "working": between the two counter updates, zlib at work; "settled":    *)
(* the task's promise is settled and the finally block still to run;       *)
(* "returning": the finally block has run, compress() has not returned.    *)
(***************************************************************************)
States == {"idle", "waiting", "woken", "working", "settled", "returning"}

GateTypeOK ==
  /\ active \in Nat
  /\ pending \in Seq(Compressors)
  /\ pc \in [Compressors -> States]
  /\ deflate \subseteq Compressors
  /\ closed \in [Compressors -> {"no", "queued", "elsewhere"}]

In(states) == {c \in Compressors : pc[c] \in states}

MicrotasksDrained == In({"woken", "settled"}) = {}

Full == active >= Limit

GateInit ==
  /\ active = 0
  /\ pending = <<>>
  /\ pc = [c \in Compressors |-> "idle"]
  /\ deflate = {}
  /\ closed = [c \in Compressors |-> "no"]

\* The counter goes up, the task runs up to its await: getDeflate opens the
\* stream when there is none.
Start(c) ==
  /\ active' = active + 1
  /\ pc' = [pc EXCEPT ![c] = "working"]
  /\ deflate' = deflate \cup {c}

\* compress() of a payload over the threshold, on a connection whose queue has
\* not been dropped by close().
Request(c) ==
  /\ pc[c] = "idle"
  /\ closed[c] = "no"
  /\ IF Full
     THEN /\ pc' = [pc EXCEPT ![c] = "waiting"]
          /\ pending' = Append(pending, c)
          /\ UNCHANGED <<active, deflate>>
     ELSE /\ Start(c)
          /\ UNCHANGED pending
  /\ UNCHANGED closed

\* A woken waiter goes on, without looking at the counter again.
Resume(c) ==
  /\ pc[c] = "woken"
  /\ Start(c)
  /\ UNCHANGED <<pending, closed>>

\* The flush callback; a zlib error closes the compressor's stream first.
Complete(c) ==
  /\ MicrotasksDrained
  /\ pc[c] = "working"
  /\ pc' = [pc EXCEPT ![c] = "settled"]
  /\ deflate' \in {deflate, deflate \ {c}}
  /\ UNCHANGED <<active, pending, closed>>

\* pending.shift()?.()
Wake(s, rest) ==
  IF rest = <<>> THEN s ELSE [s EXCEPT ![Head(rest)] = "woken"]

\* Mutant: a rejected task does not give its place back.
Released_OnSuccess(c) == IF c \in deflate THEN active - 1 ELSE active

Released(c) == active - 1

\* Mutant: run() without finally, which wakes the next waiter only on success.
Finish_WakesOnSuccess(c) ==
  /\ pc[c] = "settled"
  /\ active' = Released(c)
  /\ UNCHANGED <<deflate, closed>>
  /\ IF c \in deflate /\ pending # <<>>
     THEN /\ pc' = Wake([pc EXCEPT ![c] = "returning"], pending)
          /\ pending' = Tail(pending)
     ELSE /\ pc' = [pc EXCEPT ![c] = "returning"]
          /\ UNCHANGED pending

\* The finally block of run().
Finish(c) ==
  /\ pc[c] = "settled"
  /\ active' = Released(c)
  /\ pc' = Wake([pc EXCEPT ![c] = "returning"], pending)
  /\ pending' = IF pending = <<>> THEN <<>> ELSE Tail(pending)
  /\ UNCHANGED <<deflate, closed>>

\* compress() returns to the connection's flush loop.  Its microtask was queued
\* after that of the waiter the finally block woke.
Return(c) ==
  /\ pc[c] = "returning"
  /\ In({"woken"}) = {}
  /\ pc' = [pc EXCEPT ![c] = "idle"]
  /\ UNCHANGED <<active, pending, deflate, closed>>

\* Mutant: close() only rejects the compression in progress.
DeflateAfterClose_Kept(c) == deflate

DeflateAfterClose(c) == deflate \ {c}

\* close(), by terminate() and again by the socket's close event: the stream is
\* closed and the compression zlib is at is rejected.  Nothing is done about
\* one that waits at the gate.
CloseCompressor(c) ==
  /\ deflate' = DeflateAfterClose(c)
  /\ pc' = IF pc[c] = "working" THEN [pc EXCEPT ![c] = "settled"] ELSE pc
  /\ closed' = [closed EXCEPT ![c] =
                  IF pc[c] \in {"waiting", "woken"} THEN "queued" ELSE "elsewhere"]
  /\ UNCHANGED <<active, pending>>

GateNext ==
  \E c \in Compressors :
    \/ Request(c)
    \/ Resume(c)
    \/ Complete(c)
    \/ Finish(c)
    \/ Return(c)
    \/ CloseCompressor(c)

GateSpec == GateInit /\ [][GateNext]_gateVars

-----------------------------------------------------------------------------
\* The counter is the number of tasks that entered and have not left: a task
\* rejected by close() or by zlib gives its place back like any other.
ActiveCounts == active = Cardinality(In({"working", "settled"}))

\* The pending array is exactly the waiters, each once.
PendingIsWaiting ==
  /\ Range(pending) = In({"waiting"})
  /\ IsInjective(pending)

\* No lost wake-up: while somebody waits, somebody who will wake the next waiter
\* is inside the gate or about to enter it.
NoLostWakeup ==
  pending # <<>> => In({"working", "settled", "woken"}) # {}

\* close() releases the deflate stream for good, unless it comes while the
\* compressor waits at the gate: then the compression that follows opens one.
StreamReleased ==
  \A c \in Compressors : closed[c] = "elsewhere" => c \notin deflate

\* The limit against newcomers: only a waiter that was woken can take the
\* counter over the limit; whoever comes to a full gate stays out.
OnlyWokenExceed ==
  [][active' > active /\ active' > Limit =>
       \E c \in Compressors : pc[c] = "woken" /\ pc'[c] = "working"]_gateVars

\* concurrencyLimit bounds the compressions in progress.
WithinLimit == active <= Limit
=============================================================================
