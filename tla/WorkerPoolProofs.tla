-------------------------- MODULE WorkerPoolProofs --------------------------
(***************************************************************************)
(* Proofs about WorkerPool, for any number of workers and calls and any    *)
(* bound of the queue.  The heart of the inductive invariant is the Ledger *)
(* of an open pool: which of the queue, the tasks Map, the workers, the    *)
(* timers and the threads speaks of which task.  It is stated of explicit  *)
(* values, because a handler first books what happened and then drains the *)
(* queue: the ledger balances in between.                                  *)
(***************************************************************************)
EXTENDS WorkerPool, SequenceTheorems, WellFoundedInduction, TLAPS

\* The tasks each thread still owes an answer for.
Owned(gvn, out) == [w \in Workers |-> gvn[w] \cup {m.task : m \in Range(out[w])}]

QueueSorted(que) == \A i, j \in DOMAIN que : i < j => que[i] < que[j]

QueueFresh(que, tks, cls) ==
  \A i \in DOMAIN que : que[i] < nextTaskId /\ cls[que[i]] = <<>> /\ que[i] \notin tks

TasksHeld(act, tks, cls) ==
  \A t \in tks :
    /\ t < nextTaskId
    /\ Cloneable(t) => cls[t] = <<>>
    /\ \E w \in Workers : act[w] = t

ActiveBooked(act, tks) ==
  /\ \A w \in Workers : act[w] \in tks \cup {NoTask}
  /\ \A v, w \in Workers : act[v] = act[w] /\ act[v] # NoTask => v = w

TimersBooked(act, tks, tms) == \A x \in tms : x[2] \in tks /\ act[x[1]] = x[2]

ThreadsBooked(que, act, tks, own) ==
  \A w \in Workers : \A t \in own[w] :
    t < nextTaskId /\ t \notin Range(que) /\ (t \in tks => act[w] = t)

NoneForgotten(que, tks, cls) ==
  \A t \in Tasks : t < nextTaskId /\ cls[t] = <<>> => t \in Range(que) \/ t \in tks

Ledger(que, act, tks, tms, cls, own) ==
  /\ QueueSorted(que)
  /\ QueueFresh(que, tks, cls)
  /\ TasksHeld(act, tks, cls)
  /\ ActiveBooked(act, tks)
  /\ TimersBooked(act, tks, tms)
  /\ ThreadsBooked(que, act, tks, own)
  /\ NoneForgotten(que, tks, cls)

\* The Map of workers: each once, and those that have a thread until close()
\* clears it; while the pool is open all but the one whose exit is reported.
OrderOK ==
  /\ IsInjective(order)
  /\ pool # "closed" => Range(order) = {w \in Workers : thread[w] # "none"}
  /\ pool = "open" => \A w \in Workers : thread[w] # "none" \/ w = reporting

\* While its exit is reported a worker is out of the Map, with no thread and no task.
ReportingOK ==
  reporting # NoWorker =>
    pool # "closed" /\ thread[reporting] = "none" /\ active[reporting] = NoTask

\* A pool that is not open holds nothing.
ClosedHoldsNothing ==
  pool # "open" =>
    /\ queue = <<>> /\ tasks = {} /\ timers = {}
    /\ \A t \in Tasks : t < nextTaskId => calls[t] # <<>>

UncalledUnsettled == \A t \in Tasks : t >= nextTaskId => calls[t] = <<>>

IInv ==
  /\ TypeOK
  /\ OrderOK
  /\ ReportingOK
  /\ pool = "open" => Ledger(queue, active, tasks, timers, calls, Owned(given, outbox))
  /\ ClosedHoldsNothing
  /\ UncalledUnsettled
  /\ SettledOnce
  /\ QueueBounded
  /\ WorkConserving

-----------------------------------------------------------------------------
(* What drainQueue does: the first n tasks of the queue go to n different  *)
(* idle workers, got[i] being the worker of the i-th; n falls short of the *)
(* queue only when no idle worker is left.                                 *)

Drained(n, got, ord, act, tks, tms) ==
  /\ n \in 0 .. Len(queue)
  /\ got \in [1 .. n -> Workers]
  /\ \A i, j \in 1 .. n : got[i] = got[j] => i = j
  /\ \A i \in 1 .. n : act[got[i]] = NoTask
  /\ queue' = SubSeq(queue, n + 1, Len(queue))
  /\ active' \in [Workers -> Tasks \cup {NoTask}]
  /\ \A w \in Workers : (\A i \in 1 .. n : got[i] # w) => active'[w] = act[w]
  /\ \A i \in 1 .. n : active'[got[i]] = queue[i]
  /\ tasks' = tks \cup {queue[i] : i \in 1 .. n}
  /\ timers' \subseteq Workers \X Tasks
  /\ \A x \in timers' : x \in tms \/ \E i \in 1 .. n : x = <<got[i], queue[i]>>
  /\ given' \in [Workers -> SUBSET Tasks]
  /\ \A w \in Workers : \A t \in given'[w] :
       t \in given[w] \/ \E i \in 1 .. n : got[i] = w /\ queue[i] = t
  /\ posted' \subseteq Tasks
  /\ crashed' \in BOOLEAN
  /\ n < Len(queue) =>
       \A k \in DOMAIN ord : act[ord[k]] = NoTask => \E i \in 1 .. n : got[i] = ord[k]

\* drainQueue hands tasks out as Drained says.
LEMMA DrainEffect ==
  ASSUME TypeOK,
         NEW ord \in Seq(Workers), IsInjective(ord),
         NEW act \in [Workers -> Tasks \cup {NoTask}],
         NEW tks \in SUBSET Tasks,
         NEW tms \in SUBSET (Workers \X Tasks),
         NEW thr, NEW throws \in BOOLEAN,
         DrainQueue(ord, act, tks, tms, thr, throws)
  PROVE  \E n, got : Drained(n, got, ord, act, tks, tms)
<1>t. /\ queue \in Seq(Tasks) /\ given \in [Workers -> SUBSET Tasks] /\ posted \subseteq Tasks
      /\ Len(queue) \in Nat /\ DOMAIN queue = 1 .. Len(queue)
      /\ \A i \in 1 .. Len(queue) : queue[i] \in Tasks
  BY LenProperties, ElementOfSeq DEF TypeOK
<1>o. /\ DOMAIN ord = 1 .. Len(ord) /\ Len(ord) \in Nat
      /\ \A k \in DOMAIN ord : ord[k] \in Workers
  BY LenProperties, ElementOfSeq
<1>. DEFINE Got(hand, w) == {i \in 1 .. Len(hand) : ord[hand[i]] = w}
            Delivered(hand, w) ==
              {queue[i] : i \in {j \in Got(hand, w) : thr[w] = "up" /\ Cloneable(queue[j])}}
<1>1. PICK hand \in Handouts(ord, act) :
        /\ queue' = SubSeq(queue, Len(hand) + 1, Len(queue))
        /\ active' = [w \in Workers |->
                        IF Got(hand, w) = {} THEN act[w]
                        ELSE queue[CHOOSE i \in Got(hand, w) : TRUE]]
        /\ tasks' = tks \cup {queue[i] : i \in 1 .. Len(hand)}
        /\ timers' = tms \cup {<<ord[hand[i]], queue[i]>> :
                                 i \in {j \in 1 .. Len(hand) : opts[queue[j]].timeout}}
        /\ given' = [w \in Workers |-> given[w] \cup Delivered(hand, w)]
        /\ posted' = posted \cup UNION {Delivered(hand, w) : w \in Workers}
        /\ crashed' = (throws \/ \E i \in 1 .. Len(hand) : ~Cloneable(queue[i]))
  BY DEF DrainQueue
<1>2. /\ Len(hand) \in 0 .. Len(queue)
      /\ hand \in [1 .. Len(hand) -> DOMAIN ord]
  <2>1. PICK n \in 0 .. Len(queue) : hand \in [1 .. n -> DOMAIN ord]
    BY DEF Handouts
  <2>2. hand \in Seq(DOMAIN ord) /\ Len(hand) = n
    BY <2>1, <1>t, SeqDef, LenProperties
  <2>. QED
    BY <2>1, <2>2
<1>3. /\ \A i \in 1 .. Len(hand) : act[ord[hand[i]]] = NoTask
      /\ \A i, j \in 1 .. Len(hand) : i < j => hand[i] < hand[j]
      /\ Len(hand) < Len(queue) =>
           \A k \in DOMAIN ord : act[ord[k]] = NoTask => \E i \in 1 .. Len(hand) : hand[i] = k
  <2>1. DOMAIN hand = 1 .. Len(hand)
    BY <1>2
  <2>2. Len(hand) < Len(queue) => Len(queue) \in DOMAIN queue /\ Len(queue) \notin DOMAIN hand
    BY <2>1, <1>2, <1>t
  <2>3. Len(hand) < Len(queue) => DOMAIN hand # DOMAIN queue
    BY <2>2
  <2>. QED
    BY <2>1, <2>3 DEF Handouts
<1>. DEFINE got == [i \in 1 .. Len(hand) |-> ord[hand[i]]]
<1>4. got \in [1 .. Len(hand) -> Workers]
  BY <1>2, <1>o
<1>5. \A i, j \in 1 .. Len(hand) : got[i] = got[j] => i = j
  <2>. SUFFICES ASSUME NEW i \in 1 .. Len(hand), NEW j \in 1 .. Len(hand), got[i] = got[j]
                PROVE  i = j
    OBVIOUS
  <2>1. hand[i] = hand[j]
    BY <1>2 DEF IsInjective
  <2>2. hand[i] \in Nat /\ ~(i < j) /\ ~(j < i)
    BY <2>1, <1>2, <1>3, <1>o
  <2>. QED
    BY <2>2, <1>2
<1>6. \A i \in 1 .. Len(hand) : Got(hand, got[i]) = {i}
  BY <1>5
<1>7. \A w \in Workers : (\A i \in 1 .. Len(hand) : got[i] # w) => active'[w] = act[w]
  BY <1>1
<1>8. \A i \in 1 .. Len(hand) : active'[got[i]] = queue[i]
  BY <1>1, <1>4, <1>6
<1>9. active' \in [Workers -> Tasks \cup {NoTask}]
  <2>1. ASSUME NEW w \in Workers PROVE active'[w] \in Tasks \cup {NoTask}
    <3>1. CASE \A i \in 1 .. Len(hand) : got[i] # w
      BY <3>1, <1>7
    <3>2. CASE \E i \in 1 .. Len(hand) : got[i] = w
      BY <3>2, <1>8, <1>t, <1>2
    <3>. QED
      BY <3>1, <3>2
  <2>. QED
    BY <2>1, <1>1
<1>10. \A w \in Workers : Delivered(hand, w) \subseteq {queue[i] : i \in Got(hand, w)}
  OBVIOUS
<1>11. \A w \in Workers : Delivered(hand, w) \subseteq Tasks
  BY <1>10, <1>t, <1>2
<1>12. given' \in [Workers -> SUBSET Tasks] /\ posted' \subseteq Tasks
  BY <1>1, <1>11, <1>t
<1>13. \A w \in Workers : \A t \in given'[w] :
         t \in given[w] \/ \E i \in 1 .. Len(hand) : got[i] = w /\ queue[i] = t
  BY <1>1, <1>10
<1>14. /\ timers' \subseteq Workers \X Tasks
       /\ \A x \in timers' : x \in tms \/ \E i \in 1 .. Len(hand) : x = <<got[i], queue[i]>>
  <2>1. \A x \in timers' : x \in tms \/ \E i \in 1 .. Len(hand) : x = <<got[i], queue[i]>>
    BY <1>1
  <2>2. \A i \in 1 .. Len(hand) : <<got[i], queue[i]>> \in Workers \X Tasks
    BY <1>4, <1>t, <1>2
  <2>. QED
    BY <2>1, <2>2
<1>15. Len(hand) < Len(queue) =>
         \A k \in DOMAIN ord : act[ord[k]] = NoTask => \E i \in 1 .. Len(hand) : got[i] = ord[k]
  BY <1>3
<1>16. crashed' \in BOOLEAN
  BY <1>1
<1>17. Drained(Len(hand), got, ord, act, tks, tms)
  BY <1>1, <1>2, <1>3, <1>4, <1>5, <1>7, <1>8, <1>9, <1>12, <1>13, <1>14, <1>15, <1>16
  DEF Drained
<1>. QED
  BY <1>17

\* The indices of a sequence and of what is left of it without its first n
\* elements.
LEMMA ShiftedIndices ==
  ASSUME NEW S, NEW s \in Seq(S), NEW n \in Nat, n <= Len(s),
         NEW r \in Seq(S), Len(r) = Len(s) - n,
         \A i \in 1 .. Len(r) : r[i] = s[n + i]
  PROVE  /\ \A i \in DOMAIN r : i + n \in DOMAIN s /\ r[i] = s[i + n]
         /\ \A i \in DOMAIN s : i > n => i - n \in DOMAIN r /\ r[i - n] = s[i]
<1>1. /\ Len(s) \in Nat /\ DOMAIN s = 1 .. Len(s)
      /\ Len(r) \in Nat /\ DOMAIN r = 1 .. Len(r)
  BY LenProperties
<1>2. ASSUME NEW i \in DOMAIN r PROVE i + n \in DOMAIN s /\ r[i] = s[i + n]
  BY <1>1
<1>3. ASSUME NEW i \in DOMAIN s, i > n PROVE i - n \in DOMAIN r /\ r[i - n] = s[i]
  <2>1. i \in Nat /\ i - n \in 1 .. Len(r) /\ n + (i - n) = i
    BY <1>1, <1>3
  <2>. QED
    BY <1>1, <2>1
<1>. QED
  BY <1>2, <1>3

\* The rest of the queue, once its first n tasks are handed out.
LEMMA RestOfQueue ==
  ASSUME queue \in Seq(Tasks), NEW n \in 0 .. Len(queue),
         queue' = SubSeq(queue, n + 1, Len(queue))
  PROVE  /\ queue' \in Seq(Tasks)
         /\ Len(queue) \in Nat /\ Len(queue') = Len(queue) - n
         /\ DOMAIN queue = 1 .. Len(queue) /\ DOMAIN queue' = 1 .. Len(queue')
         /\ \A i \in DOMAIN queue : queue[i] \in Tasks
         /\ \A i \in DOMAIN queue' : i + n \in DOMAIN queue /\ queue'[i] = queue[i + n]
         /\ \A i \in DOMAIN queue : i > n => i - n \in DOMAIN queue' /\ queue'[i - n] = queue[i]
<1>1. /\ Len(queue) \in Nat /\ DOMAIN queue = 1 .. Len(queue)
      /\ \A i \in DOMAIN queue : queue[i] \in Tasks
      /\ n \in Nat /\ n <= Len(queue)
  BY LenProperties, ElementOfSeq
<1>2. \A i \in n + 1 .. Len(queue) : queue[i] \in Tasks
  BY <1>1
<1>. DEFINE r == SubSeq(queue, n + 1, Len(queue))
<1>3. /\ r \in Seq(Tasks)
      /\ Len(r) = IF n + 1 <= Len(queue) THEN Len(queue) - (n + 1) + 1 ELSE 0
      /\ \A i \in 1 .. Len(queue) - (n + 1) + 1 : r[i] = queue[n + 1 + i - 1]
  BY <1>1, <1>2, SubSeqProperties
<1>. HIDE DEF r
<1>4. Len(r) = Len(queue) - n /\ DOMAIN r = 1 .. Len(r)
  <2>1. Len(r) = Len(queue) - n
    BY <1>1, <1>3
  <2>. QED
    BY <2>1, <1>3, LenProperties
<1>5. ASSUME NEW i \in 1 .. Len(r) PROVE r[i] = queue[n + i]
  <2>1. Len(r) \in Int
    BY <1>1, <1>4
  <2>2. i \in 1 .. Len(queue) - (n + 1) + 1
    BY <1>1, <1>4, <2>1
  <2>3. n + 1 + i - 1 = n + i
    BY <1>1, <2>2
  <2>4. r[i] = queue[n + 1 + i - 1]
    BY <1>3, <2>2
  <2>. QED
    BY <2>3, <2>4
<1>6. /\ \A i \in DOMAIN r : i + n \in DOMAIN queue /\ r[i] = queue[i + n]
      /\ \A i \in DOMAIN queue : i > n => i - n \in DOMAIN r /\ r[i - n] = queue[i]
  <2>1. r \in Seq(Tasks) /\ n \in Nat /\ n <= Len(queue) /\ Len(r) = Len(queue) - n
    BY <1>1, <1>3, <1>4
  <2>. QED
    BY <2>1, <1>5, ShiftedIndices
<1>7. queue' = r
  BY DEF r
<1>. QED
  BY <1>1, <1>3, <1>4, <1>6, <1>7

\* A ledger that balances before the queue is drained balances after it.
LEMMA LedgerDrained ==
  ASSUME queue \in Seq(Tasks), NEW n, NEW got, NEW ord,
         NEW act \in [Workers -> Tasks \cup {NoTask}],
         NEW tks \in SUBSET Tasks, NEW tms \in SUBSET (Workers \X Tasks),
         Drained(n, got, ord, act, tks, tms),
         Ledger(queue, act, tks, tms, calls', Owned(given, outbox')),
         nextTaskId' = nextTaskId, opts' = opts
  PROVE  Ledger(queue, active, tasks, timers, calls, Owned(given, outbox))'
<1>d. /\ n \in 0 .. Len(queue) /\ got \in [1 .. n -> Workers]
      /\ \A i, j \in 1 .. n : got[i] = got[j] => i = j
      /\ \A i \in 1 .. n : act[got[i]] = NoTask
      /\ \A w \in Workers : (\A i \in 1 .. n : got[i] # w) => active'[w] = act[w]
      /\ \A i \in 1 .. n : active'[got[i]] = queue[i]
      /\ tasks' = tks \cup {queue[i] : i \in 1 .. n}
      /\ \A x \in timers' : x \in tms \/ \E i \in 1 .. n : x = <<got[i], queue[i]>>
      /\ \A w \in Workers : \A t \in given'[w] :
           t \in given[w] \/ \E i \in 1 .. n : got[i] = w /\ queue[i] = t
  BY DEF Drained
<1>q. /\ Len(queue) \in Nat /\ DOMAIN queue = 1 .. Len(queue)
      /\ \A i \in DOMAIN queue : queue[i] \in Tasks
      /\ \A i \in DOMAIN queue' : i + n \in DOMAIN queue /\ queue'[i] = queue[i + n]
      /\ \A i \in DOMAIN queue : i > n => i - n \in DOMAIN queue' /\ queue'[i - n] = queue[i]
      /\ DOMAIN queue' = 1 .. Len(queue') /\ Len(queue') = Len(queue) - n
  BY <1>d, RestOfQueue DEF Drained
<1>l. /\ QueueSorted(queue)
      /\ QueueFresh(queue, tks, calls')
      /\ TasksHeld(act, tks, calls')
      /\ ActiveBooked(act, tks)
      /\ TimersBooked(act, tks, tms)
      /\ ThreadsBooked(queue, act, tks, Owned(given, outbox'))
      /\ NoneForgotten(queue, tks, calls')
  BY DEF Ledger
<1>u. \A i, j \in DOMAIN queue : queue[i] = queue[j] => i = j
  <2>. SUFFICES ASSUME NEW i \in DOMAIN queue, NEW j \in DOMAIN queue, queue[i] = queue[j]
                PROVE  i = j
    OBVIOUS
  <2>1. queue[i] \in Nat /\ ~(i < j) /\ ~(j < i)
    BY <1>l, <1>q DEF QueueSorted, Tasks
  <2>. QED
    BY <2>1, <1>q
<1>h. \A i \in 1 .. n : i \in DOMAIN queue /\ queue[i] \in Tasks /\ queue[i] \notin tks /\ got[i] \in Workers
  BY <1>d, <1>q, <1>l DEF QueueFresh
<1>1. QueueSorted(queue)'
  <2>. SUFFICES ASSUME NEW i \in DOMAIN queue', NEW j \in DOMAIN queue', i < j
                PROVE  queue'[i] < queue'[j]
    BY DEF QueueSorted
  <2>1. i + n \in DOMAIN queue /\ j + n \in DOMAIN queue /\ i + n < j + n
    BY <1>q, <1>d
  <2>. QED
    BY <2>1, <1>q, <1>l DEF QueueSorted
<1>2. QueueFresh(queue, tasks, calls)'
  <2>. SUFFICES ASSUME NEW k \in DOMAIN queue'
                PROVE  /\ queue'[k] < nextTaskId' /\ calls'[queue'[k]] = <<>>
                       /\ queue'[k] \notin tasks'
    BY DEF QueueFresh
  <2>1. k + n \in DOMAIN queue /\ queue'[k] = queue[k + n]
    BY <1>q
  <2>2. \A i \in 1 .. n : queue[i] # queue[k + n]
    <3>1. \A i \in 1 .. n : i # k + n
      BY <1>q, <1>d
    <3>. QED
      BY <3>1, <2>1, <1>h, <1>u
  <2>. QED
    BY <2>1, <2>2, <1>l, <1>d DEF QueueFresh
<1>3. TasksHeld(active, tasks, calls)'
  <2>. SUFFICES ASSUME NEW t \in tasks'
                PROVE  /\ t < nextTaskId' /\ (Cloneable(t)' => calls'[t] = <<>>)
                       /\ \E w \in Workers : active'[w] = t
    BY DEF TasksHeld
  <2>1. CASE t \in tks
    <3>1. PICK w \in Workers : act[w] = t
      BY <2>1, <1>l DEF TasksHeld
    <3>2. t # NoTask
      BY <2>1 DEF Tasks, NoTask
    <3>3. active'[w] = t
      BY <3>1, <3>2, <1>d
    <3>. QED
      BY <2>1, <3>3, <1>l DEF TasksHeld, Cloneable
  <2>2. CASE \E i \in 1 .. n : t = queue[i]
    BY <2>2, <1>h, <1>d, <1>l DEF QueueFresh
  <2>. QED
    BY <2>1, <2>2, <1>d
<1>4. ActiveBooked(active, tasks)'
  <2>1. \A w \in Workers : active'[w] \in tasks' \cup {NoTask}
    <3>. SUFFICES ASSUME NEW w \in Workers PROVE active'[w] \in tasks' \cup {NoTask}
      OBVIOUS
    <3>1. CASE \A i \in 1 .. n : got[i] # w
      BY <3>1, <1>d, <1>l DEF ActiveBooked
    <3>2. CASE \E i \in 1 .. n : got[i] = w
      BY <3>2, <1>d
    <3>. QED
      BY <3>1, <3>2
  <2>2. ASSUME NEW v \in Workers, NEW w \in Workers, active'[v] = active'[w], active'[v] # NoTask
        PROVE  v = w
    <3>1. CASE (\A i \in 1 .. n : got[i] # v) /\ (\A i \in 1 .. n : got[i] # w)
      BY <3>1, <2>2, <1>d, <1>l DEF ActiveBooked
    <3>2. CASE (\E i \in 1 .. n : got[i] = v) /\ (\E i \in 1 .. n : got[i] = w)
      BY <3>2, <2>2, <1>d, <1>h, <1>u
    <3>3. CASE (\E i \in 1 .. n : got[i] = v) /\ (\A i \in 1 .. n : got[i] # w)
      BY <3>3, <2>2, <1>d, <1>h, <1>l DEF ActiveBooked
    <3>4. CASE (\A i \in 1 .. n : got[i] # v) /\ (\E i \in 1 .. n : got[i] = w)
      BY <3>4, <2>2, <1>d, <1>h, <1>l DEF ActiveBooked
    <3>. QED
      BY <3>1, <3>2, <3>3, <3>4
  <2>. QED
    BY <2>1, <2>2 DEF ActiveBooked
<1>5. TimersBooked(active, tasks, timers)'
  <2>. SUFFICES ASSUME NEW x \in timers' PROVE x[2] \in tasks' /\ active'[x[1]] = x[2]
    BY DEF TimersBooked
  <2>1. CASE x \in tms
    <3>1. x[1] \in Workers /\ x[2] \in Tasks /\ x[2] \in tks /\ act[x[1]] = x[2]
      BY <2>1, <1>l DEF TimersBooked
    <3>2. x[2] # NoTask
      BY <3>1 DEF Tasks, NoTask
    <3>. QED
      BY <3>1, <3>2, <1>d
  <2>2. CASE \E i \in 1 .. n : x = <<got[i], queue[i]>>
    BY <2>2, <1>d
  <2>. QED
    BY <2>1, <2>2, <1>d
<1>6. ThreadsBooked(queue, active, tasks, Owned(given, outbox))'
  <2>. SUFFICES ASSUME NEW w \in Workers, NEW t \in Owned(given, outbox)'[w]
                PROVE  /\ t < nextTaskId' /\ t \notin Range(queue')
                       /\ t \in tasks' => active'[w] = t
    BY DEF ThreadsBooked
  <2>1. CASE \E i \in 1 .. n : got[i] = w /\ queue[i] = t
    <3>1. PICK i \in 1 .. n : got[i] = w /\ queue[i] = t
      BY <2>1
    <3>2. \A k \in DOMAIN queue' : queue'[k] # t
      <4>. SUFFICES ASSUME NEW k \in DOMAIN queue' PROVE queue'[k] # t
        OBVIOUS
      <4>1. k + n \in DOMAIN queue /\ i # k + n /\ queue'[k] = queue[k + n]
        BY <1>q, <1>d
      <4>. QED
        BY <4>1, <3>1, <1>h, <1>u
    <3>. QED
      BY <3>1, <3>2, <1>h, <1>d, <1>l DEF QueueFresh, Range
  <2>2. CASE ~\E i \in 1 .. n : got[i] = w /\ queue[i] = t
    <3>1. t \in Owned(given, outbox')[w]
      BY <2>2, <1>d DEF Owned
    <3>2. /\ t < nextTaskId /\ t \notin Range(queue) /\ (t \in tks => act[w] = t)
      BY <3>1, <1>l DEF ThreadsBooked
    <3>3. t \notin Range(queue')
      BY <3>2, <1>q DEF Range
    <3>4. ASSUME t \in tasks' PROVE active'[w] = t
      <4>1. \A i \in 1 .. n : t # queue[i]
        BY <3>2, <1>h DEF Range
      <4>2. t \in tks /\ act[w] = t
        BY <3>4, <4>1, <3>2, <1>d
      <4>3. t # NoTask
        BY <4>2 DEF Tasks, NoTask
      <4>. QED
        BY <4>2, <4>3, <1>d
    <3>. QED
      BY <3>2, <3>3, <3>4
  <2>. QED
    BY <2>1, <2>2
<1>7. NoneForgotten(queue, tasks, calls)'
  <2>. SUFFICES ASSUME NEW t \in Tasks, t < nextTaskId', calls'[t] = <<>>, t \notin tasks'
                PROVE  t \in Range(queue')
    BY DEF NoneForgotten
  <2>1. t \in Range(queue)
    BY <1>l, <1>d DEF NoneForgotten
  <2>2. PICK i \in DOMAIN queue : queue[i] = t
    BY <2>1 DEF Range
  <2>3. i > n
    <3>1. i \notin 1 .. n
      BY <2>2, <1>d
    <3>. QED
      BY <3>1, <1>q, <1>d
  <2>. QED
    BY <2>2, <2>3, <1>q DEF Range
<1>. QED
  BY <1>1, <1>2, <1>3, <1>4, <1>5, <1>6, <1>7 DEF Ledger

-----------------------------------------------------------------------------
(* The Map of workers.                                                     *)

\* A worker that exits leaves the Map; the order of the others stays.
LEMMA RemovedWorker ==
  ASSUME order \in Seq(Workers), IsInjective(order), NEW w \in Range(order)
  PROVE  /\ RemoveAt(order, PlaceOf(w)) \in Seq(Workers)
         /\ IsInjective(RemoveAt(order, PlaceOf(w)))
         /\ Range(RemoveAt(order, PlaceOf(w))) = Range(order) \ {w}
<1>. DEFINE p == PlaceOf(w)
            a == SubSeq(order, 1, p - 1)
            b == SubSeq(order, p + 1, Len(order))
            r == a \o b
<1>1. /\ Len(order) \in Nat /\ DOMAIN order = 1 .. Len(order)
      /\ \A i \in 1 .. Len(order) : order[i] \in Workers
  BY LenProperties, ElementOfSeq
<1>2. p \in 1 .. Len(order) /\ order[p] = w
  BY <1>1 DEF PlaceOf, Range
<1>. HIDE DEF p
<1>3. /\ a \in Seq(Workers) /\ Len(a) = p - 1
      /\ \A i \in 1 .. p - 1 : a[i] = order[i]
  <2>1. \A i \in 1 .. p - 1 : order[i] \in Workers
    BY <1>1, <1>2
  <2>2. /\ a \in Seq(Workers)
        /\ Len(a) = IF 1 <= p - 1 THEN p - 1 - 1 + 1 ELSE 0
        /\ \A i \in 1 .. p - 1 - 1 + 1 : a[i] = order[1 + i - 1]
    BY <1>2, <2>1, SubSeqProperties
  <2>3. ASSUME NEW i \in 1 .. p - 1 PROVE a[i] = order[i]
    <3>1. i \in 1 .. p - 1 - 1 + 1 /\ 1 + i - 1 = i
      BY <1>2
    <3>. QED
      BY <2>2, <3>1
  <2>. HIDE DEF a
  <2>. QED
    BY <1>2, <2>2, <2>3
<1>4. /\ b \in Seq(Workers) /\ Len(b) = Len(order) - p
      /\ \A i \in 1 .. Len(order) - p : b[i] = order[p + i]
  <2>1. \A i \in p + 1 .. Len(order) : order[i] \in Workers
    BY <1>1, <1>2
  <2>2. /\ b \in Seq(Workers)
        /\ Len(b) = IF p + 1 <= Len(order) THEN Len(order) - (p + 1) + 1 ELSE 0
        /\ \A i \in 1 .. Len(order) - (p + 1) + 1 : b[i] = order[p + 1 + i - 1]
    BY <1>1, <1>2, <2>1, SubSeqProperties
  <2>. HIDE DEF b
  <2>3. ASSUME NEW i \in 1 .. Len(order) - p PROVE b[i] = order[p + i]
    <3>1. i \in 1 .. Len(order) - (p + 1) + 1 /\ p + 1 + i - 1 = p + i
      BY <1>1, <1>2
    <3>. QED
      BY <2>2, <3>1
  <2>4. Len(b) = Len(order) - p
    <3>1. p \in Nat /\ p <= Len(order) /\ Len(order) \in Nat
      BY <1>1, <1>2
    <3>. QED
      BY <2>2, <3>1
  <2>. QED
    BY <2>2, <2>3, <2>4
<1>. HIDE DEF a, b
<1>5. /\ r \in Seq(Workers) /\ Len(r) = Len(order) - 1
      /\ DOMAIN r = 1 .. Len(order) - 1
      /\ \A i \in 1 .. Len(order) - 1 : r[i] = IF i <= p - 1 THEN a[i] ELSE b[i - (p - 1)]
  <2>1. /\ r \in Seq(Workers) /\ Len(r) = Len(a) + Len(b)
        /\ \A i \in 1 .. Len(a) + Len(b) : r[i] = IF i <= Len(a) THEN a[i] ELSE b[i - Len(a)]
    BY <1>3, <1>4, ConcatProperties
  <2>2. Len(a) + Len(b) = Len(order) - 1
    BY <1>1, <1>2, <1>3, <1>4
  <2>3. DOMAIN r = 1 .. Len(r)
    BY <2>1, LenProperties
  <2>. QED
    BY <1>3, <2>1, <2>2, <2>3
<1>. HIDE DEF r
<1>6. ASSUME NEW i \in DOMAIN r
      PROVE  /\ i < p => r[i] = order[i] /\ i \in DOMAIN order
             /\ ~(i < p) => r[i] = order[i + 1] /\ i + 1 \in DOMAIN order
  <2>1. i \in Nat /\ 1 <= i /\ i <= Len(order) - 1 /\ p \in Nat /\ p <= Len(order)
    BY <1>1, <1>2, <1>5
  <2>2. CASE i < p
    <3>1. i <= p - 1 /\ i \in 1 .. p - 1 /\ i \in 1 .. Len(order)
      BY <2>1, <2>2, <1>1
    <3>. QED
      BY <3>1, <2>1, <2>2, <1>1, <1>3, <1>5
  <2>3. CASE ~(i < p)
    <3>1. /\ ~(i <= p - 1) /\ i - (p - 1) \in 1 .. Len(order) - p
          /\ p + (i - (p - 1)) = i + 1 /\ i + 1 \in 1 .. Len(order)
      BY <2>1, <2>3, <1>1
    <3>. QED
      BY <3>1, <2>3, <1>1, <1>4, <1>5
  <2>. QED
    BY <2>2, <2>3
<1>7. IsInjective(r)
  <2>. SUFFICES ASSUME NEW i \in DOMAIN r, NEW j \in DOMAIN r, r[i] = r[j] PROVE i = j
    BY DEF IsInjective
  <2>1. i \in Int /\ j \in Int /\ p \in Int
    BY <1>1, <1>2, <1>5
  <2>2. CASE i < p /\ j < p
    BY <2>2, <1>6 DEF IsInjective
  <2>3. CASE ~(i < p) /\ ~(j < p)
    <3>1. i + 1 = j + 1
      BY <2>3, <1>6 DEF IsInjective
    <3>. QED
      BY <2>1, <3>1
  <2>4. CASE i < p /\ ~(j < p)
    <3>1. i = j + 1
      BY <2>4, <1>6 DEF IsInjective
    <3>. QED
      BY <2>1, <2>4, <3>1
  <2>5. CASE ~(i < p) /\ j < p
    <3>1. i + 1 = j
      BY <2>5, <1>6 DEF IsInjective
    <3>. QED
      BY <2>1, <2>5, <3>1
  <2>. QED
    BY <2>2, <2>3, <2>4, <2>5
<1>8. Range(r) = Range(order) \ {w}
  <2>1. ASSUME NEW i \in DOMAIN r PROVE r[i] \in Range(order) \ {w}
    <3>1. i \in Int /\ p \in Int
      BY <1>1, <1>2, <1>5
    <3>2. CASE i < p
      BY <3>1, <3>2, <1>1, <1>2, <1>6 DEF Range, IsInjective
    <3>3. CASE ~(i < p)
      <4>1. i + 1 # p
        BY <3>1, <3>3
      <4>. QED
        BY <4>1, <3>3, <1>1, <1>2, <1>6 DEF Range, IsInjective
    <3>. QED
      BY <3>2, <3>3
  <2>2. ASSUME NEW i \in DOMAIN order, order[i] # w PROVE order[i] \in Range(r)
    <3>1. i \in Nat /\ 1 <= i /\ i <= Len(order) /\ i # p /\ p \in Nat /\ 1 <= p /\ p <= Len(order)
      BY <1>1, <1>2, <2>2
    <3>2. CASE i < p
      <4>1. i \in DOMAIN r
        BY <3>1, <3>2, <1>1, <1>5
      <4>. QED
        BY <3>2, <4>1, <1>6 DEF Range
    <3>3. CASE ~(i < p)
      <4>1. i - 1 \in DOMAIN r /\ ~(i - 1 < p) /\ i - 1 + 1 = i
        BY <3>1, <3>3, <1>1, <1>5
      <4>. QED
        BY <4>1, <1>6 DEF Range
    <3>. QED
      BY <3>2, <3>3
  <2>. QED
    BY <2>1, <2>2 DEF Range
<1>9. r = RemoveAt(order, PlaceOf(w))
  BY DEF r, a, b, p, RemoveAt
<1>. QED
  BY <1>5, <1>7, <1>8, <1>9

\* A respawned worker is last in the Map.
LEMMA AppendedWorker ==
  ASSUME NEW r \in Seq(Workers), IsInjective(r), NEW w \in Workers, w \notin Range(r)
  PROVE  /\ Append(r, w) \in Seq(Workers)
         /\ IsInjective(Append(r, w))
         /\ Range(Append(r, w)) = Range(r) \cup {w}
<1>1. /\ Append(r, w) \in Seq(Workers)
      /\ Len(r) \in Nat
      /\ DOMAIN r = 1 .. Len(r)
      /\ DOMAIN Append(r, w) = 1 .. Len(r) + 1
      /\ \A i \in 1 .. Len(r) : Append(r, w)[i] = r[i]
      /\ Append(r, w)[Len(r) + 1] = w
  BY AppendProperties, LenProperties
<1>2. IsInjective(Append(r, w))
  BY <1>1 DEF IsInjective, Range
<1>3. Range(Append(r, w)) = Range(r) \cup {w}
  BY <1>1 DEF Range
<1>. QED
  BY <1>1, <1>2, <1>3

-----------------------------------------------------------------------------
(* Booking.                                                                *)

\* The task of a worker ends, is settled, and every trace of it removed.
LEMMA LedgerTaskEnds ==
  ASSUME TypeOK, Ledger(queue, active, tasks, timers, calls, Owned(given, outbox)),
         NEW w \in Workers, NEW t \in tasks, active[w] = t,
         NEW outcome, calls' = Settle(t, outcome),
         NEW tms, tms \subseteq timers \ TimersOf(t),
         \A v \in Workers : Owned(given, outbox')[v] \subseteq Owned(given, outbox)[v]
  PROVE  Ledger(queue, [active EXCEPT ![w] = NoTask], tasks \ {t}, tms, calls',
                Owned(given, outbox'))
<1>. DEFINE act == [active EXCEPT ![w] = NoTask]
<1>t. /\ active \in [Workers -> Tasks \cup {NoTask}] /\ tasks \subseteq Tasks
      /\ timers \subseteq Workers \X Tasks /\ calls \in [Tasks -> Seq(Outcomes)]
      /\ queue \in Seq(Tasks) /\ t \in Tasks /\ t # NoTask
  BY DEF TypeOK, Tasks, NoTask
<1>l. /\ QueueSorted(queue)
      /\ QueueFresh(queue, tasks, calls)
      /\ TasksHeld(active, tasks, calls)
      /\ ActiveBooked(active, tasks)
      /\ TimersBooked(active, tasks, timers)
      /\ ThreadsBooked(queue, active, tasks, Owned(given, outbox))
      /\ NoneForgotten(queue, tasks, calls)
  BY DEF Ledger
<1>c. /\ \A u \in Tasks : u # t => calls'[u] = calls[u]
      /\ calls'[t] # <<>>
  <2>1. calls' = [calls EXCEPT ![t] = Append(@, outcome)]
    BY DEF Settle
  <2>2. calls'[t] = Append(calls[t], outcome) /\ calls[t] \in Seq(Outcomes)
    BY <1>t, <2>1
  <2>3. Append(calls[t], outcome) # <<>>
    <3>1. calls[t] \in Seq(Outcomes \cup {outcome})
      BY <2>2, SeqMonotonic
    <3>2. Len(Append(calls[t], outcome)) = Len(calls[t]) + 1 /\ Len(calls[t]) \in Nat
      BY <3>1, AppendProperties, LenProperties
    <3>3. Len(Append(calls[t], outcome)) # 0
      BY <3>2
    <3>. QED
      BY <3>3, EmptySeq
  <2>. QED
    BY <1>t, <2>1, <2>2, <2>3
<1>a. \A v \in Workers : act[v] = IF v = w THEN NoTask ELSE active[v]
  BY <1>t
<1>e. \A v \in Workers : active[v] = t => v = w
  BY <1>l, <1>t DEF ActiveBooked
<1>1. QueueFresh(queue, tasks \ {t}, calls')
  <2>. SUFFICES ASSUME NEW i \in DOMAIN queue
                PROVE  queue[i] < nextTaskId /\ calls'[queue[i]] = <<>> /\ queue[i] \notin tasks \ {t}
    BY DEF QueueFresh
  <2>1. queue[i] \in Tasks
    BY <1>t, ElementOfSeq, LenProperties
  <2>2. queue[i] < nextTaskId /\ calls[queue[i]] = <<>> /\ queue[i] \notin tasks
    BY <1>l DEF QueueFresh
  <2>. QED
    BY <2>1, <2>2, <1>c
<1>2. TasksHeld(act, tasks \ {t}, calls')
  <2>. SUFFICES ASSUME NEW u \in tasks, u # t
                PROVE  /\ u < nextTaskId /\ (Cloneable(u) => calls'[u] = <<>>)
                       /\ \E v \in Workers : act[v] = u
    BY DEF TasksHeld
  <2>1. PICK v \in Workers : active[v] = u
    BY <1>l DEF TasksHeld
  <2>2. act[v] = u
    BY <2>1, <1>a
  <2>. QED
    BY <2>2, <1>l, <1>c, <1>t DEF TasksHeld
<1>3. ActiveBooked(act, tasks \ {t})
  BY <1>l, <1>a, <1>e DEF ActiveBooked
<1>4. TimersBooked(act, tasks \ {t}, tms)
  <2>. SUFFICES ASSUME NEW x \in tms PROVE x[2] \in tasks \ {t} /\ act[x[1]] = x[2]
    BY DEF TimersBooked
  <2>1. x \in timers /\ x[1] \in Workers /\ x[2] # t
    BY <1>t DEF TimersOf
  <2>. QED
    BY <2>1, <1>l, <1>a DEF TimersBooked
<1>5. ThreadsBooked(queue, act, tasks \ {t}, Owned(given, outbox'))
  BY <1>l, <1>a DEF ThreadsBooked
<1>6. NoneForgotten(queue, tasks \ {t}, calls')
  BY <1>l, <1>c DEF NoneForgotten
<1>. QED
  BY <1>l, <1>1, <1>2, <1>3, <1>4, <1>5, <1>6 DEF Ledger

\* A step that touches no task keeps the ledger balanced: timers may be cleared
\* and threads may lose what they had.
LEMMA LedgerKept ==
  ASSUME Ledger(queue, active, tasks, timers, calls, Owned(given, outbox)),
         UNCHANGED <<queue, active, tasks, calls, nextTaskId, opts>>,
         timers' \subseteq timers,
         \A w \in Workers : Owned(given, outbox)'[w] \subseteq Owned(given, outbox)[w]
  PROVE  Ledger(queue, active, tasks, timers, calls, Owned(given, outbox))'
<1>l. /\ QueueSorted(queue)
      /\ QueueFresh(queue, tasks, calls)
      /\ TasksHeld(active, tasks, calls)
      /\ ActiveBooked(active, tasks)
      /\ TimersBooked(active, tasks, timers)
      /\ ThreadsBooked(queue, active, tasks, Owned(given, outbox))
      /\ NoneForgotten(queue, tasks, calls)
  BY DEF Ledger
<1>1. QueueSorted(queue)' /\ QueueFresh(queue, tasks, calls)'
  BY <1>l DEF QueueSorted, QueueFresh
<1>2. TasksHeld(active, tasks, calls)'
  BY <1>l DEF TasksHeld, Cloneable
<1>3. ActiveBooked(active, tasks)' /\ TimersBooked(active, tasks, timers)'
  BY <1>l DEF ActiveBooked, TimersBooked
<1>4. ThreadsBooked(queue, active, tasks, Owned(given, outbox))'
  BY <1>l DEF ThreadsBooked, Range
<1>5. NoneForgotten(queue, tasks, calls)'
  BY <1>l DEF NoneForgotten, Range
<1>. QED
  BY <1>1, <1>2, <1>3, <1>4, <1>5 DEF Ledger

\* A task that is settled once, by the first settlement of it.
LEMMA SettledTask ==
  ASSUME TypeOK, SettledOnce, UncalledUnsettled, NEW t \in Tasks, NEW outcome \in Outcomes,
         Cloneable(t) => calls[t] = <<>>, t < nextTaskId,
         calls' = Settle(t, outcome), nextTaskId' = nextTaskId, opts' = opts
  PROVE  /\ calls' \in [Tasks -> Seq(Outcomes)]
         /\ SettledOnce' /\ UncalledUnsettled'
<1>t. calls \in [Tasks -> Seq(Outcomes)] /\ nextTaskId \in Nat /\ t \in Nat
  BY DEF TypeOK, Tasks
<1>1. calls' = [calls EXCEPT ![t] = Append(@, outcome)]
  BY DEF Settle
<1>2. /\ Append(calls[t], outcome) \in Seq(Outcomes)
      /\ Len(Append(calls[t], outcome)) = Len(calls[t]) + 1
  BY <1>t, AppendProperties
<1>3. calls' \in [Tasks -> Seq(Outcomes)]
  BY <1>t, <1>1, <1>2
<1>4. SettledOnce'
  <2>. SUFFICES ASSUME NEW u \in Tasks, Cloneable(u) PROVE Len(calls'[u]) <= 1
    BY DEF SettledOnce, Cloneable
  <2>1. CASE u = t
    BY <2>1, <1>t, <1>1, <1>2, EmptySeq
  <2>2. CASE u # t
    BY <2>2, <1>t, <1>1 DEF SettledOnce
  <2>. QED
    BY <2>1, <2>2
<1>5. UncalledUnsettled'
  BY <1>t, <1>1 DEF UncalledUnsettled, Tasks
<1>. QED
  BY <1>3, <1>4, <1>5

\* What a handler that drains the queue at its end establishes, from what it
\* booked before.
LEMMA DrainKeeps ==
  ASSUME TypeOK, QueueBounded, pool' = "open",
         UNCHANGED <<nextTaskId, opts, awaited>>, reporting' = NoWorker,
         NEW ord \in Seq(Workers), order' = ord,
         NEW thr \in [Workers -> {"up", "none"} \cup Ended], thread' = thr,
         NEW act \in [Workers -> Tasks \cup {NoTask}],
         NEW tks \in SUBSET Tasks, NEW tms \in SUBSET (Workers \X Tasks),
         NEW throws \in BOOLEAN,
         DrainQueue(ord, act, tks, tms, thr, throws),
         Ledger(queue, act, tks, tms, calls', Owned(given, outbox')),
         OrderOK', calls' \in [Tasks -> Seq(Outcomes)],
         outbox' \in [Workers -> Seq([type : {"result", "error"}, task : Tasks])],
         SettledOnce', UncalledUnsettled'
  PROVE  IInv'
<1>1. PICK n, got : Drained(n, got, ord, act, tks, tms)
  <2>1. IsInjective(ord)
    BY DEF OrderOK
  <2>. QED
    BY <2>1, DrainEffect
<1>2. queue \in Seq(Tasks)
  BY DEF TypeOK
<1>3. Ledger(queue, active, tasks, timers, calls, Owned(given, outbox))'
  BY <1>1, <1>2, LedgerDrained
<1>4. /\ queue' \in Seq(Tasks) /\ Len(queue) \in Nat /\ Len(queue') = Len(queue) - n
      /\ n \in Nat /\ n <= Len(queue)
      /\ \A i \in 1 .. n : queue[i] \in Tasks
      /\ DOMAIN queue' = 1 .. Len(queue')
  BY <1>1, <1>2, RestOfQueue DEF Drained
<1>5. TypeOK'
  <2>1. pool' \in {"open", "closing", "closed"} /\ nextTaskId' \in 1 .. MaxTasks + 1
        /\ opts' \in [Tasks -> [timeout : BOOLEAN, cloneable : BOOLEAN]]
    BY DEF TypeOK
  <2>2. tasks' \subseteq Tasks
    BY <1>1, <1>4 DEF Drained
  <2>3. /\ active' \in [Workers -> Tasks \cup {NoTask}] /\ timers' \subseteq Workers \X Tasks
        /\ given' \in [Workers -> SUBSET Tasks] /\ posted' \subseteq Tasks /\ crashed' \in BOOLEAN
    BY <1>1 DEF Drained
  <2>4. reporting' \in Workers \cup {NoWorker} /\ awaited' \subseteq Workers
    BY DEF TypeOK
  <2>. QED
    BY <2>1, <2>2, <2>3, <2>4, <1>4 DEF TypeOK, Tasks, Workers, Outcomes, Ended, NoTask
<1>6. QueueBounded'
  BY <1>4, WorkerPoolAssumption DEF QueueBounded
<1>7. WorkConserving'
  <2>. SUFFICES ASSUME queue' # <<>>, NEW w \in Range(ord) PROVE active'[w] # NoTask
    BY DEF WorkConserving, Idle
  <2>1. w \in Workers
    BY LenProperties, ElementOfSeq DEF Range
  <2>2. n < Len(queue)
    BY <1>4, EmptySeq
  <2>3. CASE \E i \in 1 .. n : got[i] = w
    <3>1. PICK i \in 1 .. n : got[i] = w
      BY <2>3
    <3>2. active'[w] = queue[i] /\ queue[i] \in Tasks
      BY <3>1, <1>1, <1>4 DEF Drained
    <3>. QED
      BY <3>2 DEF Tasks, NoTask
  <2>4. CASE \A i \in 1 .. n : got[i] # w
    <3>1. act[w] # NoTask
      BY <2>2, <2>4, <1>1 DEF Drained, Range
    <3>. QED
      BY <2>1, <2>4, <3>1, <1>1 DEF Drained
  <2>. QED
    BY <2>3, <2>4
<1>8. ClosedHoldsNothing' /\ ReportingOK'
  BY DEF ClosedHoldsNothing, ReportingOK
<1>. QED
  BY <1>3, <1>5, <1>6, <1>7, <1>8 DEF IInv

\* A step that only the threads take: no task, promise or worker's state is
\* touched.
LEMMA ThreadStepKeeps ==
  ASSUME IInv, UNCHANGED poolVars, TypeOK',
         \A w \in Workers : thread'[w] = thread[w] \/ (thread[w] = "up" /\ thread'[w] \in Ended),
         \A w \in Workers : Owned(given, outbox)'[w] \subseteq Owned(given, outbox)[w]
  PROVE  IInv'
<1>1. OrderOK'
  <2>1. {w \in Workers : thread'[w] # "none"} = {w \in Workers : thread[w] # "none"}
    BY DEF Ended
  <2>. QED
    BY <2>1 DEF IInv, OrderOK, poolVars, Ended
<1>2. pool = "open" => Ledger(queue, active, tasks, timers, calls, Owned(given, outbox))'
  BY LedgerKept DEF IInv, poolVars
<1>3. ClosedHoldsNothing' /\ UncalledUnsettled'
  BY DEF IInv, poolVars, ClosedHoldsNothing, UncalledUnsettled
<1>6. ReportingOK'
  <2>. SUFFICES ASSUME reporting # NoWorker
                PROVE  /\ pool # "closed" /\ thread'[reporting] = "none"
                       /\ active[reporting] = NoTask
    BY DEF ReportingOK, poolVars
  <2>1. reporting \in Workers /\ thread[reporting] = "none"
    BY DEF IInv, TypeOK, ReportingOK
  <2>. QED
    BY <2>1 DEF IInv, ReportingOK
<1>4. SettledOnce' /\ QueueBounded'
  BY DEF IInv, poolVars, SettledOnce, QueueBounded, Cloneable
<1>5. WorkConserving'
  <2>. SUFFICES ASSUME queue # <<>>, NEW w \in Range(order), Idle(w) PROVE thread'[w] \in Ended
    BY DEF WorkConserving, Idle, poolVars
  <2>1. thread[w] \in Ended /\ w \in Workers
    BY LenProperties, ElementOfSeq DEF IInv, WorkConserving, TypeOK, Range
  <2>. QED
    BY <2>1 DEF Ended
<1>. QED
  BY <1>1, <1>2, <1>3, <1>4, <1>5, <1>6 DEF IInv, poolVars

-----------------------------------------------------------------------------
(* The steps of the threads.                                               *)

\* A thread that ends, by itself or on close(), takes its tasks with it.
LEMMA ThreadEnds ==
  ASSUME IInv, NEW w \in Workers, thread[w] = "up", NEW how \in Ended, EndThread(w, how),
         UNCHANGED <<poolVars, outbox, posted, crashed>>
  PROVE  IInv'
<1>t. thread \in [Workers -> {"up", "none"} \cup Ended] /\ given \in [Workers -> SUBSET Tasks]
  BY DEF IInv, TypeOK
<1>1. /\ \A v \in Workers : thread'[v] = IF v = w THEN how ELSE thread[v]
      /\ \A v \in Workers : given'[v] = IF v = w THEN {} ELSE given[v]
      /\ thread' \in [Workers -> {"up", "none"} \cup Ended]
      /\ given' \in [Workers -> SUBSET Tasks]
  BY <1>t DEF EndThread
<1>2. TypeOK'
  BY <1>1 DEF IInv, TypeOK, poolVars, Tasks, Workers, Outcomes, Ended, NoTask
<1>3. \A v \in Workers : Owned(given, outbox)'[v] \subseteq Owned(given, outbox)[v]
  BY <1>1 DEF Owned
<1>4. \A v \in Workers : thread'[v] = thread[v] \/ (thread[v] = "up" /\ thread'[v] \in Ended)
  BY <1>1
<1>5. UNCHANGED poolVars
  OBVIOUS
<1>. QED
  BY <1>2, <1>3, <1>4, <1>5, ThreadStepKeeps

\* An answer moves its task from the thread to the port.
LEMMA PostAnswerKeeps ==
  ASSUME IInv, NEW w \in Workers, NEW t \in Tasks, PostAnswer(w, t)
  PROVE  IInv'
<1>t. /\ outbox \in [Workers -> Seq([type : {"result", "error"}, task : Tasks])]
      /\ given \in [Workers -> SUBSET Tasks]
  BY DEF IInv, TypeOK
<1>1. PICK type \in {"result", "error"} :
        outbox' = [outbox EXCEPT ![w] = Append(@, [type |-> type, task |-> t])]
  BY DEF PostAnswer
<1>. DEFINE m == [type |-> type, task |-> t]
            Messages == [type : {"result", "error"}, task : Tasks]
<1>m. m \in Messages /\ m.task = t /\ outbox \in [Workers -> Seq(Messages)]
  BY <1>t
<1>. HIDE DEF m, Messages
<1>2. /\ Append(outbox[w], m) \in Seq(Messages)
      /\ Len(outbox[w]) \in Nat
      /\ DOMAIN outbox[w] = 1 .. Len(outbox[w])
      /\ DOMAIN Append(outbox[w], m) = 1 .. Len(outbox[w]) + 1
      /\ \A i \in 1 .. Len(outbox[w]) : Append(outbox[w], m)[i] = outbox[w][i]
      /\ Append(outbox[w], m)[Len(outbox[w]) + 1] = m
  BY <1>m, AppendProperties, LenProperties
<1>o. outbox' = [outbox EXCEPT ![w] = Append(@, m)]
  BY <1>1 DEF m
<1>3. TypeOK'
  <2>1. outbox' \in [Workers -> Seq([type : {"result", "error"}, task : Tasks])]
    BY <1>m, <1>o, <1>2 DEF Messages
  <2>2. given' \in [Workers -> SUBSET Tasks]
    BY <1>t DEF PostAnswer
  <2>. QED
    BY <2>1, <2>2
    DEF PostAnswer, IInv, TypeOK, poolVars, Tasks, Workers, Outcomes, Ended, NoTask
<1>4. \A v \in Workers : Owned(given, outbox)'[v] \subseteq Owned(given, outbox)[v]
  <2>. SUFFICES ASSUME NEW v \in Workers
                PROVE  Owned(given, outbox)'[v] \subseteq Owned(given, outbox)[v]
    OBVIOUS
  <2>1. CASE v # w
    BY <2>1, <1>t, <1>o DEF PostAnswer, Owned
  <2>2. CASE v = w
    <3>1. Range(outbox'[w]) \subseteq Range(outbox[w]) \cup {m}
      BY <1>t, <1>o, <1>2 DEF Range
    <3>2. given'[w] \subseteq given[w] /\ t \in given[w] /\ m.task = t
      BY <1>t, <1>m DEF PostAnswer
    <3>. QED
      BY <2>2, <3>1, <3>2 DEF Owned
  <2>. QED
    BY <2>1, <2>2
<1>5. UNCHANGED poolVars /\ UNCHANGED thread
  BY DEF PostAnswer
<1>. QED
  BY <1>3, <1>4, <1>5, ThreadStepKeeps

-----------------------------------------------------------------------------
(* The messages of the threads.                                            *)

\* The next message of a thread is one of its own, and leaves the port.
LEMMA ReceivedMessage ==
  ASSUME TypeOK, NEW w \in Workers, Received(w)
  PROVE  /\ outbox' \in [Workers -> Seq([type : {"result", "error"}, task : Tasks])]
         /\ Head(outbox[w]) \in [type : {"result", "error"}, task : Tasks]
         /\ Head(outbox[w]).task \in Owned(given, outbox)[w]
         /\ \A v \in Workers : Owned(given, outbox')[v] \subseteq Owned(given, outbox)[v]
<1>t. outbox \in [Workers -> Seq([type : {"result", "error"}, task : Tasks])]
  BY DEF TypeOK
<1>1. outbox[w] # <<>> /\ outbox' = [outbox EXCEPT ![w] = Tail(@)]
  BY DEF Received
<1>. DEFINE Messages == [type : {"result", "error"}, task : Tasks]
<1>m. outbox[w] \in Seq(Messages)
  BY <1>t
<1>. HIDE DEF Messages
<1>2. /\ Head(outbox[w]) \in Messages
      /\ Tail(outbox[w]) \in Seq(Messages)
      /\ Len(Tail(outbox[w])) = Len(outbox[w]) - 1
      /\ \A i \in 1 .. Len(Tail(outbox[w])) : Tail(outbox[w])[i] = outbox[w][i + 1]
      /\ Len(outbox[w]) \in Nat \ {0}
      /\ DOMAIN outbox[w] = 1 .. Len(outbox[w])
      /\ Head(outbox[w]) = outbox[w][1]
  BY <1>m, <1>1, HeadTailProperties, LenProperties, EmptySeq
<1>3. DOMAIN Tail(outbox[w]) = 1 .. Len(outbox[w]) - 1
  BY <1>2, LenProperties
<1>4. Range(Tail(outbox[w])) \subseteq Range(outbox[w]) /\ Head(outbox[w]) \in Range(outbox[w])
  BY <1>2, <1>3 DEF Range
<1>5. outbox' \in [Workers -> Seq([type : {"result", "error"}, task : Tasks])]
  BY <1>t, <1>1, <1>2 DEF Messages
<1>6. \A v \in Workers : Owned(given, outbox')[v] \subseteq Owned(given, outbox)[v]
  BY <1>t, <1>1, <1>4 DEF Owned
<1>. QED
  BY <1>2, <1>4, <1>5, <1>6 DEF Owned, Messages

\* The answer to a task that is still in the Map.
LEMMA TaskMessageKeeps ==
  ASSUME IInv, NEW w \in Workers, TaskMessage(w)
  PROVE  IInv'
<1>. DEFINE m == Head(outbox[w])
            outcome == IF m.type = "result" THEN "resolved" ELSE "failed"
<1>0. PICK throws \in BOOLEAN :
        DrainQueue(order, [active EXCEPT ![w] = NoTask], tasks \ {m.task},
                   timers \ TimersOf(m.task), thread, throws)
  BY DEF TaskMessage, MessageThrows, EmitErrorThrows
<1>1. /\ Received(w) /\ m.task \in tasks
      /\ calls' = Settle(m.task, outcome)
      /\ throws \in BOOLEAN
      /\ DrainQueue(order, [active EXCEPT ![w] = NoTask], tasks \ {m.task},
                    timers \ TimersOf(m.task), thread, throws)
  BY <1>0 DEF TaskMessage
<1>2. UNCHANGED <<pool, nextTaskId, opts, order, awaited, thread>> /\ reporting' = NoWorker
  BY <1>1 DEF Received, TurnOver
<1>3. pool = "open"
  BY <1>1 DEF IInv, ClosedHoldsNothing
<1>4. /\ outbox' \in [Workers -> Seq([type : {"result", "error"}, task : Tasks])]
      /\ m \in [type : {"result", "error"}, task : Tasks]
      /\ m.task \in Owned(given, outbox)[w]
      /\ \A v \in Workers : Owned(given, outbox')[v] \subseteq Owned(given, outbox)[v]
  BY <1>1, ReceivedMessage DEF IInv
<1>. HIDE DEF m, outcome
<1>5. Ledger(queue, active, tasks, timers, calls, Owned(given, outbox))
  BY <1>3 DEF IInv
<1>6. active[w] = m.task
  BY <1>1, <1>4, <1>5 DEF Ledger, ThreadsBooked
<1>7. Owned(given, outbox)' = Owned(given', outbox')
  BY DEF Owned
<1>8. Ledger(queue, [active EXCEPT ![w] = NoTask], tasks \ {m.task}, timers \ TimersOf(m.task),
             calls', Owned(given, outbox'))
  <2>1. \A v \in Workers : Owned(given, outbox')[v] \subseteq Owned(given, outbox)[v]
    BY <1>4
  <2>. QED
    BY <1>1, <1>5, <1>6, <2>1, LedgerTaskEnds DEF IInv
<1>9. calls' \in [Tasks -> Seq(Outcomes)] /\ SettledOnce' /\ UncalledUnsettled'
  <2>1. m.task \in Tasks /\ m.task < nextTaskId /\ (Cloneable(m.task) => calls[m.task] = <<>>)
    BY <1>1, <1>4, <1>5 DEF Ledger, TasksHeld
  <2>2. outcome \in Outcomes
    BY DEF outcome, Outcomes
  <2>. QED
    BY <1>1, <1>2, <2>1, <2>2, SettledTask DEF IInv
<1>10. OrderOK'
  BY <1>1, <1>2 DEF IInv, OrderOK, Received
<1>11. /\ order \in Seq(Workers) /\ thread \in [Workers -> {"up", "none"} \cup Ended]
       /\ [active EXCEPT ![w] = NoTask] \in [Workers -> Tasks \cup {NoTask}]
       /\ tasks \ {m.task} \in SUBSET Tasks
       /\ timers \ TimersOf(m.task) \in SUBSET (Workers \X Tasks)
  BY <1>1 DEF IInv, TypeOK
<1>12. CASE throws
  <2>1. DrainQueue(order, [active EXCEPT ![w] = NoTask], tasks \ {m.task},
                   timers \ TimersOf(m.task), thread, TRUE)
    BY <1>1, <1>12
  <2>. QED
    BY <1>2, <1>3, <1>4, <1>8, <1>9, <1>10, <1>11, <2>1, DrainKeeps DEF IInv
<1>13. CASE ~throws
  <2>1. DrainQueue(order, [active EXCEPT ![w] = NoTask], tasks \ {m.task},
                   timers \ TimersOf(m.task), thread, FALSE)
    BY <1>1, <1>13
  <2>. QED
    BY <1>2, <1>3, <1>4, <1>8, <1>9, <1>10, <1>11, <2>1, DrainKeeps DEF IInv
<1>. QED
  BY <1>12, <1>13

\* A message about a task that has been settled already.
LEMMA StaleMessageKeeps ==
  ASSUME IInv, NEW w \in Workers, StaleMessage(w)
  PROVE  IInv'
<1>1. /\ Received(w)
      /\ crashed' \in BOOLEAN
      /\ UNCHANGED <<queue, active, tasks, timers, calls, given, posted>>
  BY DEF StaleMessage, MessageThrows, EmitErrorThrows
<1>2. UNCHANGED poolVars /\ UNCHANGED thread
  BY <1>1 DEF Received, poolVars
<1>3. /\ outbox' \in [Workers -> Seq([type : {"result", "error"}, task : Tasks])]
      /\ \A v \in Workers : Owned(given, outbox')[v] \subseteq Owned(given, outbox)[v]
  BY <1>1, ReceivedMessage DEF IInv
<1>4. \A v \in Workers : Owned(given, outbox)'[v] \subseteq Owned(given, outbox)[v]
  BY <1>1, <1>3 DEF Owned
<1>5. TypeOK'
  BY <1>1, <1>2, <1>3 DEF IInv, TypeOK, poolVars, Tasks, Workers, Outcomes, Ended, NoTask
<1>. QED
  BY <1>2, <1>4, <1>5, ThreadStepKeeps

-----------------------------------------------------------------------------
(* Timeouts.                                                               *)

\* A timeout frees its worker and ends its task and its thread; a late one does
\* nothing.
LEMMA TaskTimeoutKeeps ==
  ASSUME IInv, NEW w \in Workers, NEW t \in Tasks, TaskTimeout(w, t)
  PROVE  IInv'
<1>1. /\ <<w, t>> \in timers /\ timers' = timers \ {<<w, t>>}
      /\ UNCHANGED <<pool, nextTaskId, opts, queue, order, reporting, awaited, outbox,
                     posted, crashed>>
      /\ reporting = NoWorker
  BY DEF TaskTimeout, TurnOver
<1>2. pool = "open"
  BY <1>1 DEF IInv, ClosedHoldsNothing
<1>3. Ledger(queue, active, tasks, timers, calls, Owned(given, outbox))
  BY <1>2 DEF IInv
<1>4. t \in tasks /\ active[w] = t
  <2>1. <<w, t>>[1] = w /\ <<w, t>>[2] = t
    OBVIOUS
  <2>. QED
    BY <1>1, <1>3, <2>1 DEF Ledger, TimersBooked
<1>5. /\ tasks' = tasks \ {t}
      /\ active' = [active EXCEPT ![w] = NoTask]
      /\ calls' = Settle(t, "timeout")
      /\ IF thread[w] = "up" THEN EndThread(w, "terminated") ELSE UNCHANGED <<thread, given>>
  BY <1>4 DEF TaskTimeout
<1>t. /\ thread \in [Workers -> {"up", "none"} \cup Ended] /\ given \in [Workers -> SUBSET Tasks]
      /\ active \in [Workers -> Tasks \cup {NoTask}] /\ timers \subseteq Workers \X Tasks
      /\ tasks \subseteq Tasks /\ order \in Seq(Workers)
  BY DEF IInv, TypeOK
<1>6. /\ thread' \in [Workers -> {"up", "none"} \cup Ended]
      /\ given' \in [Workers -> SUBSET Tasks]
      /\ \A v \in Workers : given'[v] \subseteq given[v]
      /\ \A v \in Workers : v # w => thread'[v] = thread[v]
      /\ thread[w] = "up" => thread'[w] = "terminated"
      /\ thread[w] # "up" => thread'[w] = thread[w]
  BY <1>t, <1>5 DEF EndThread, Ended
<1>7. calls' \in [Tasks -> Seq(Outcomes)] /\ SettledOnce' /\ UncalledUnsettled'
  <2>1. t < nextTaskId /\ (Cloneable(t) => calls[t] = <<>>)
    BY <1>3, <1>4 DEF Ledger, TasksHeld
  <2>2. "timeout" \in Outcomes
    BY DEF Outcomes
  <2>. QED
    BY <1>1, <1>5, <2>1, <2>2, SettledTask DEF IInv
<1>8. TypeOK'
  BY <1>1, <1>5, <1>6, <1>7, <1>t DEF IInv, TypeOK, Tasks, Workers, Outcomes, Ended, NoTask
<1>9. Ledger(queue, active, tasks, timers, calls, Owned(given, outbox))'
  <2>1. timers' \subseteq timers \ TimersOf(t)
    <3>. SUFFICES ASSUME NEW x \in timers, x[2] = t PROVE x = <<w, t>>
      BY <1>1 DEF TimersOf
    <3>1. x[1] \in Workers /\ active[x[1]] = t /\ x = <<x[1], x[2]>>
      BY <1>3, <1>t DEF Ledger, TimersBooked
    <3>2. x[1] = w
      BY <3>1, <1>3, <1>4, <1>t DEF Ledger, ActiveBooked, Tasks, NoTask
    <3>. QED
      BY <3>1, <3>2
  <2>2. \A v \in Workers : Owned(given, outbox')[v] \subseteq Owned(given, outbox)[v]
    BY <1>1 DEF Owned
  <2>3. Ledger(queue, active', tasks', timers', calls', Owned(given, outbox'))
    BY <1>3, <1>4, <1>5, <2>1, <2>2, LedgerTaskEnds DEF IInv
  <2>4. \A v \in Workers : Owned(given', outbox')[v] \subseteq Owned(given, outbox')[v]
    BY <1>6 DEF Owned
  <2>5. ThreadsBooked(queue, active', tasks', Owned(given', outbox'))
    BY <2>3, <2>4 DEF Ledger, ThreadsBooked
  <2>6. /\ QueueSorted(queue) /\ QueueFresh(queue, tasks', calls')
        /\ TasksHeld(active', tasks', calls') /\ ActiveBooked(active', tasks')
        /\ TimersBooked(active', tasks', timers') /\ NoneForgotten(queue, tasks', calls')
    BY <2>3 DEF Ledger
  <2>7. QueueSorted(queue)' /\ QueueFresh(queue, tasks, calls)'
    BY <1>1, <2>6 DEF QueueSorted, QueueFresh
  <2>8. TasksHeld(active, tasks, calls)' /\ ActiveBooked(active, tasks)'
    BY <1>1, <2>6 DEF TasksHeld, ActiveBooked, Cloneable
  <2>9. TimersBooked(active, tasks, timers)' /\ NoneForgotten(queue, tasks, calls)'
    BY <1>1, <2>6 DEF TimersBooked, NoneForgotten, Range
  <2>10. ThreadsBooked(queue, active, tasks, Owned(given, outbox))'
    BY <1>1, <2>5 DEF ThreadsBooked, Owned, Range
  <2>. QED
    BY <2>7, <2>8, <2>9, <2>10 DEF Ledger
<1>10. OrderOK'
  <2>1. \A v \in Workers : thread'[v] = "none" <=> thread[v] = "none"
    BY <1>6
  <2>. QED
    BY <1>1, <2>1 DEF IInv, OrderOK
<1>11. WorkConserving'
  <2>. SUFFICES ASSUME queue # <<>>, NEW v \in Range(order), active'[v] = NoTask
                PROVE  thread'[v] \in Ended
    BY <1>1 DEF WorkConserving, Idle
  <2>1. v \in Workers
    BY <1>t, LenProperties, ElementOfSeq DEF Range
  <2>2. CASE v = w
    <3>1. thread[w] # "none"
      BY <1>2, <2>2 DEF IInv, OrderOK
    <3>. QED
      BY <2>1, <2>2, <3>1, <1>t, <1>6 DEF Ended
  <2>3. CASE v # w
    BY <2>1, <2>3, <1>t, <1>5, <1>6 DEF IInv, WorkConserving, Idle
  <2>. QED
    BY <2>2, <2>3
<1>12. QueueBounded' /\ ClosedHoldsNothing' /\ ReportingOK'
  BY <1>1, <1>2 DEF IInv, QueueBounded, ClosedHoldsNothing, ReportingOK
<1>. QED
  BY <1>7, <1>8, <1>9, <1>10, <1>11, <1>12 DEF IInv

-----------------------------------------------------------------------------
(* Exit events.                                                            *)

\* What is left of the Map without a worker.
LEMMA DeletedWorker ==
  ASSUME order \in Seq(Workers), IsInjective(order), NEW w \in Workers
  PROVE  /\ Deleted(w) \in Seq(Workers)
         /\ IsInjective(Deleted(w))
         /\ Range(Deleted(w)) = Range(order) \ {w}
<1>1. CASE w \in Range(order)
  BY <1>1, RemovedWorker DEF Deleted
<1>2. CASE w \notin Range(order)
  BY <1>2 DEF Deleted
<1>. QED
  BY <1>1, <1>2

\* An exit event with no task to reject changes no promise and no timer.
LEMMA ExitWithoutTask ==
  ASSUME TypeOK, NEW w \in Workers, ExitTask(w) = {}, ExitSettles(w)
  PROVE  calls' = calls /\ TimersAfterExit(w) = timers
BY DEF TypeOK, ExitSettles, TimersAfterExit

\* What an open pool books on an exit event, before it drains the queue.
LEMMA ExitBooked ==
  ASSUME IInv, NEW w \in Workers, pool = "open", ExitSettles(w),
         UNCHANGED <<nextTaskId, opts, outbox>>
  PROVE  /\ Ledger(queue, [active EXCEPT ![w] = NoTask], tasks \ ExitTask(w),
                   TimersAfterExit(w), calls', Owned(given, outbox'))
         /\ calls' \in [Tasks -> Seq(Outcomes)]
         /\ SettledOnce' /\ UncalledUnsettled'
<1>t. /\ active \in [Workers -> Tasks \cup {NoTask}] /\ tasks \subseteq Tasks
      /\ calls \in [Tasks -> Seq(Outcomes)] /\ timers \subseteq Workers \X Tasks
      /\ NoTask \notin Tasks
  BY DEF IInv, TypeOK, Tasks, NoTask
<1>l. Ledger(queue, active, tasks, timers, calls, Owned(given, outbox))
  BY DEF IInv
<1>1. CASE active[w] = NoTask
  <2>1. ExitTask(w) = {}
    BY <1>1, <1>t DEF ExitTask
  <2>2. calls' = calls /\ TimersAfterExit(w) = timers
    BY <2>1, ExitWithoutTask DEF IInv
  <2>3. [active EXCEPT ![w] = NoTask] = active /\ tasks \ ExitTask(w) = tasks
    BY <1>1, <1>t, <2>1
  <2>4. Owned(given, outbox') = Owned(given, outbox)
    OBVIOUS
  <2>5. SettledOnce' /\ UncalledUnsettled'
    BY <2>2 DEF IInv, SettledOnce, UncalledUnsettled, Cloneable
  <2>. QED
    BY <1>l, <1>t, <2>2, <2>3, <2>4, <2>5
<1>2. CASE active[w] # NoTask
  <2>. DEFINE t == active[w]
  <2>1. t \in tasks /\ t \in Tasks /\ ExitTask(w) = {t}
    BY <1>2, <1>l, <1>t DEF Ledger, ActiveBooked, ExitTask
  <2>2. calls' = Settle(t, "exited")
    BY <2>1, <1>t DEF ExitSettles, Settle
  <2>3. TimersAfterExit(w) = timers \ TimersOf(t)
    BY <2>1 DEF TimersAfterExit, TimersOf
  <2>4. Ledger(queue, [active EXCEPT ![w] = NoTask], tasks \ {t}, TimersAfterExit(w), calls',
               Owned(given, outbox'))
    <3>1. \A v \in Workers : Owned(given, outbox')[v] \subseteq Owned(given, outbox)[v]
      BY DEF Owned
    <3>2. TimersAfterExit(w) \subseteq timers \ TimersOf(t)
      BY <2>3
    <3>. QED
      BY <1>l, <2>1, <2>2, <3>1, <3>2, LedgerTaskEnds DEF IInv
  <2>5. t < nextTaskId /\ (Cloneable(t) => calls[t] = <<>>) /\ "exited" \in Outcomes
    BY <1>l, <2>1 DEF Ledger, TasksHeld, Outcomes
  <2>6. calls' \in [Tasks -> Seq(Outcomes)] /\ SettledOnce' /\ UncalledUnsettled'
    BY <2>1, <2>2, <2>5, SettledTask DEF IInv
  <2>. QED
    BY <2>1, <2>4, <2>6
<1>. QED
  BY <1>1, <1>2

\* A worker that exits is replaced, and the queue drained onto the idle ones.
LEMMA WorkerExitRespawnKeeps ==
  ASSUME IInv, NEW w \in Workers, WorkerExitRespawn(w)
  PROVE  IInv'
<1>1. /\ pool = "open" /\ Exited(w) /\ ExitSettles(w)
      /\ order' = Append(Deleted(w), w)
      /\ thread' = [thread EXCEPT ![w] = "up"]
      /\ DrainQueue(order', [active EXCEPT ![w] = NoTask], tasks \ ExitTask(w),
                    TimersAfterExit(w), thread', FALSE)
  BY DEF WorkerExitRespawn
<1>2. /\ UNCHANGED <<pool, nextTaskId, opts, awaited, outbox>> /\ thread[w] \in Ended
      /\ reporting = NoWorker /\ reporting' = NoWorker
  BY <1>1 DEF Exited, TurnOver, WorkerExitRespawn
<1>t. /\ order \in Seq(Workers) /\ thread \in [Workers -> {"up", "none"} \cup Ended]
      /\ active \in [Workers -> Tasks \cup {NoTask}] /\ tasks \subseteq Tasks
      /\ timers \subseteq Workers \X Tasks /\ IsInjective(order)
      /\ Range(order) = {v \in Workers : thread[v] # "none"}
      /\ \A v \in Workers : thread[v] # "none"
  BY <1>1, <1>2 DEF IInv, TypeOK, OrderOK, Workers, NoWorker
<1>4. /\ order' \in Seq(Workers) /\ IsInjective(order')
      /\ Range(order') = (Range(order) \ {w}) \cup {w}
  BY <1>1, <1>t, DeletedWorker, AppendedWorker
<1>5. thread' \in [Workers -> {"up", "none"} \cup Ended]
  BY <1>1, <1>t
<1>6. OrderOK'
  <2>1. \A v \in Workers : thread'[v] # "none"
    BY <1>1, <1>t
  <2>2. Range(order') = Workers
    BY <1>4, <1>t
  <2>. QED
    BY <1>1, <1>2, <1>4, <2>1, <2>2 DEF OrderOK
<1>7. /\ Ledger(queue, [active EXCEPT ![w] = NoTask], tasks \ ExitTask(w),
                TimersAfterExit(w), calls', Owned(given, outbox'))
      /\ calls' \in [Tasks -> Seq(Outcomes)] /\ SettledOnce' /\ UncalledUnsettled'
  BY <1>1, <1>2, ExitBooked
<1>8. /\ [active EXCEPT ![w] = NoTask] \in [Workers -> Tasks \cup {NoTask}]
      /\ tasks \ ExitTask(w) \in SUBSET Tasks
      /\ TimersAfterExit(w) \in SUBSET (Workers \X Tasks)
      /\ FALSE \in BOOLEAN
  BY <1>t DEF TimersAfterExit
<1>9. outbox' \in [Workers -> Seq([type : {"result", "error"}, task : Tasks])]
  BY <1>2 DEF IInv, TypeOK
<1>10. TypeOK /\ QueueBounded /\ pool' = "open" /\ UNCHANGED <<nextTaskId, opts, awaited>>
  BY <1>1, <1>2 DEF IInv
<1>. QED
  BY <1>1, <1>2, <1>4, <1>5, <1>6, <1>7, <1>8, <1>9, <1>10, DrainKeeps

\* A worker that leaves the Map, with a pool that is closing or with its report
\* under way: types, the Map and the threads.
LEMMA WorkerLeaves ==
  ASSUME IInv, NEW w \in Workers, Exited(w), LeavesMap(w), calls' \in [Tasks -> Seq(Outcomes)],
         reporting' \in {w, NoWorker},
         pool = "open" => reporting' = w,
         pool = "closed" => reporting' = NoWorker
  PROVE  TypeOK' /\ OrderOK' /\ ReportingOK' /\ QueueBounded' /\ WorkConserving'
<1>1. /\ order' = Deleted(w)
      /\ thread' = [thread EXCEPT ![w] = "none"]
      /\ active' = [active EXCEPT ![w] = NoTask]
      /\ tasks' = tasks \ ExitTask(w)
      /\ timers' = TimersAfterExit(w)
      /\ UNCHANGED <<queue, given, posted, crashed>>
      /\ UNCHANGED <<pool, nextTaskId, opts, awaited, outbox>>
      /\ reporting = NoWorker
  BY DEF LeavesMap, Exited, TurnOver
<1>t. /\ order \in Seq(Workers) /\ IsInjective(order)
      /\ thread \in [Workers -> {"up", "none"} \cup Ended]
      /\ active \in [Workers -> Tasks \cup {NoTask}]
      /\ timers \subseteq Workers \X Tasks /\ tasks \subseteq Tasks
      /\ pool # "closed" => Range(order) = {v \in Workers : thread[v] # "none"}
      /\ pool = "open" => \A v \in Workers : thread[v] # "none"
  BY <1>1 DEF IInv, TypeOK, OrderOK, Workers, NoWorker
<1>2. /\ order' \in Seq(Workers) /\ IsInjective(order')
      /\ Range(order') = Range(order) \ {w}
  BY <1>1, <1>t, DeletedWorker
<1>3. /\ \A v \in Workers : thread'[v] = IF v = w THEN "none" ELSE thread[v]
      /\ \A v \in Workers : active'[v] = IF v = w THEN NoTask ELSE active[v]
      /\ thread' \in [Workers -> {"up", "none"} \cup Ended]
      /\ active' \in [Workers -> Tasks \cup {NoTask}]
      /\ tasks' \subseteq Tasks /\ timers' \subseteq Workers \X Tasks
  BY <1>1, <1>t DEF TimersAfterExit
<1>4. TypeOK'
  BY <1>1, <1>2, <1>3 DEF IInv, TypeOK, Tasks, Workers, Outcomes, Ended, NoTask
<1>5. OrderOK'
  <2>1. pool # "closed" => Range(order') = {v \in Workers : thread'[v] # "none"}
    BY <1>t, <1>2, <1>3
  <2>2. pool = "open" => \A v \in Workers : thread'[v] # "none" \/ v = reporting'
    BY <1>t, <1>3
  <2>. QED
    BY <1>1, <1>2, <2>1, <2>2 DEF OrderOK
<1>6. ReportingOK'
  BY <1>1, <1>3 DEF ReportingOK
<1>7. QueueBounded'
  BY <1>1 DEF IInv, QueueBounded
<1>8. WorkConserving'
  <2>. SUFFICES ASSUME queue # <<>>, NEW v \in Range(order'), active'[v] = NoTask
                PROVE  thread'[v] \in Ended
    BY <1>1 DEF WorkConserving, Idle
  <2>1. v \in Range(order) /\ v # w
    BY <1>2
  <2>2. v \in Workers
    BY <2>1, <1>t, LenProperties, ElementOfSeq DEF Range
  <2>. QED
    BY <2>1, <2>2, <1>3 DEF IInv, WorkConserving, Idle
<1>. QED
  BY <1>4, <1>5, <1>6, <1>7, <1>8

\* A bad exit of an open pool's worker, up to the report.
LEMMA WorkerExitReportedKeeps ==
  ASSUME IInv, NEW w \in Workers, WorkerExitReported(w)
  PROVE  IInv'
<1>1. /\ pool = "open" /\ Exited(w) /\ LeavesMap(w) /\ reporting' = w
  BY DEF WorkerExitReported
<1>2. /\ UNCHANGED <<pool, nextTaskId, opts, outbox, queue, given>> /\ ExitSettles(w)
      /\ active' = [active EXCEPT ![w] = NoTask]
      /\ tasks' = tasks \ ExitTask(w) /\ timers' = TimersAfterExit(w)
  BY <1>1 DEF Exited, LeavesMap
<1>3. /\ Ledger(queue, active', tasks', timers', calls', Owned(given, outbox'))
      /\ calls' \in [Tasks -> Seq(Outcomes)] /\ SettledOnce' /\ UncalledUnsettled'
  BY <1>1, <1>2, ExitBooked
<1>4. TypeOK' /\ OrderOK' /\ ReportingOK' /\ QueueBounded' /\ WorkConserving'
  BY <1>1, <1>3, WorkerLeaves
<1>5. Ledger(queue, active, tasks, timers, calls, Owned(given, outbox))'
  <2>1. /\ QueueSorted(queue) /\ QueueFresh(queue, tasks', calls')
        /\ TasksHeld(active', tasks', calls') /\ ActiveBooked(active', tasks')
        /\ TimersBooked(active', tasks', timers') /\ NoneForgotten(queue, tasks', calls')
        /\ ThreadsBooked(queue, active', tasks', Owned(given, outbox'))
    BY <1>3 DEF Ledger
  <2>2. QueueSorted(queue)' /\ QueueFresh(queue, tasks, calls)'
    BY <1>2, <2>1 DEF QueueSorted, QueueFresh
  <2>3. TasksHeld(active, tasks, calls)' /\ ActiveBooked(active, tasks)'
    BY <1>2, <2>1 DEF TasksHeld, ActiveBooked, Cloneable
  <2>4. TimersBooked(active, tasks, timers)' /\ NoneForgotten(queue, tasks, calls)'
    BY <1>2, <2>1 DEF TimersBooked, NoneForgotten, Range
  <2>5. ThreadsBooked(queue, active, tasks, Owned(given, outbox))'
    BY <1>2, <2>1 DEF ThreadsBooked, Owned, Range
  <2>. QED
    BY <2>2, <2>3, <2>4, <2>5 DEF Ledger
<1>6. ClosedHoldsNothing'
  BY <1>1, <1>2 DEF ClosedHoldsNothing
<1>. QED
  BY <1>3, <1>4, <1>5, <1>6 DEF IInv

\* The rest of the handler: the respawn and the drain, which finds nothing to
\* hand out when a listener has closed the pool meanwhile.
LEMMA ReportedRespawnKeeps ==
  ASSUME IInv, NEW w \in Workers, ReportedRespawn(w)
  PROVE  IInv'
<1>1. /\ reporting = w /\ reporting' = NoWorker
      /\ order' = Append(order, w)
      /\ thread' = [thread EXCEPT ![w] = "up"]
      /\ DrainQueue(order', active, tasks, timers, thread', FALSE)
      /\ UNCHANGED <<pool, nextTaskId, opts, calls, awaited, outbox>>
  BY DEF ReportedRespawn
<1>t. /\ order \in Seq(Workers) /\ thread \in [Workers -> {"up", "none"} \cup Ended]
      /\ active \in [Workers -> Tasks \cup {NoTask}] /\ tasks \in SUBSET Tasks
      /\ timers \in SUBSET (Workers \X Tasks) /\ IsInjective(order) /\ queue \in Seq(Tasks)
      /\ outbox \in [Workers -> Seq([type : {"result", "error"}, task : Tasks])]
      /\ calls \in [Tasks -> Seq(Outcomes)]
  BY DEF IInv, TypeOK, OrderOK
<1>2. /\ pool # "closed" /\ thread[w] = "none" /\ active[w] = NoTask
      /\ Range(order) = {v \in Workers : thread[v] # "none"}
  <2>1. w # NoWorker
    BY WorkerPoolAssumption DEF Workers, NoWorker
  <2>. QED
    BY <2>1, <1>1 DEF IInv, ReportingOK, OrderOK
<1>3. /\ order' \in Seq(Workers) /\ IsInjective(order')
      /\ Range(order') = Range(order) \cup {w}
  BY <1>1, <1>2, <1>t, AppendedWorker
<1>4. /\ thread' \in [Workers -> {"up", "none"} \cup Ended]
      /\ \A v \in Workers : thread'[v] = IF v = w THEN "up" ELSE thread[v]
  BY <1>1, <1>t
<1>5. OrderOK'
  <2>1. Range(order') = {v \in Workers : thread'[v] # "none"}
    BY <1>2, <1>3, <1>4
  <2>2. pool = "open" => \A v \in Workers : thread'[v] # "none"
    BY <1>1, <1>4 DEF IInv, OrderOK
  <2>. QED
    BY <1>1, <1>3, <2>1, <2>2 DEF OrderOK
<1>6. SettledOnce' /\ UncalledUnsettled'
  BY <1>1 DEF IInv, SettledOnce, UncalledUnsettled, Cloneable
<1>7. CASE pool = "open"
  <2>1. Ledger(queue, active, tasks, timers, calls', Owned(given, outbox'))
    BY <1>1, <1>7 DEF IInv
  <2>2. FALSE \in BOOLEAN /\ pool' = "open" /\ TypeOK /\ QueueBounded
    BY <1>1, <1>7 DEF IInv
  <2>3. UNCHANGED <<nextTaskId, opts, awaited>> /\ reporting' = NoWorker
    BY <1>1
  <2>4. calls' \in [Tasks -> Seq(Outcomes)]
        /\ outbox' \in [Workers -> Seq([type : {"result", "error"}, task : Tasks])]
    BY <1>1, <1>t
  <2>. QED
    BY <1>1, <1>t, <1>3, <1>4, <1>5, <1>6, <2>1, <2>2, <2>3, <2>4, DrainKeeps
<1>8. CASE pool # "open"
  <2>1. /\ queue = <<>> /\ tasks = {} /\ timers = {}
        /\ \A t \in Tasks : t < nextTaskId => calls[t] # <<>>
    BY <1>8 DEF IInv, ClosedHoldsNothing
  <2>2. PICK n, got : Drained(n, got, order', active, tasks, timers)
    BY <1>1, <1>t, <1>3, DrainEffect DEF IInv
  <2>3. n = 0 /\ Len(queue) = 0
    BY <2>1, <2>2, EmptySeq DEF Drained
  <2>4. /\ queue' \in Seq(Tasks) /\ Len(queue') = 0
    BY <2>2, <2>3, <1>t, RestOfQueue DEF Drained
  <2>5. queue' = <<>>
    BY <2>4, EmptySeq
  <2>6. /\ active' \in [Workers -> Tasks \cup {NoTask}]
        /\ given' \in [Workers -> SUBSET Tasks] /\ posted' \subseteq Tasks
        /\ crashed' \in BOOLEAN
    BY <2>2 DEF Drained
  <2>7. tasks' = {} /\ timers' = {}
    <3>1. \A i \in 1 .. n : FALSE
      BY <2>3
    <3>. QED
      BY <2>1, <2>2, <3>1 DEF Drained
  <2>8. reporting' \in Workers \cup {NoWorker} /\ awaited' \subseteq Workers
    BY <1>1 DEF IInv, TypeOK
  <2>9. TypeOK'
    BY <1>1, <1>3, <1>4, <2>4, <2>6, <2>7, <2>8
    DEF IInv, TypeOK, Tasks, Workers, Outcomes, Ended, NoTask
  <2>10. ClosedHoldsNothing' /\ QueueBounded' /\ WorkConserving' /\ ReportingOK'
    BY <1>1, <2>1, <2>4, <2>5, <2>7, WorkerPoolAssumption
    DEF ClosedHoldsNothing, QueueBounded, WorkConserving, ReportingOK
  <2>. QED
    BY <1>1, <1>5, <1>6, <1>8, <2>9, <2>10 DEF IInv
<1>. QED
  BY <1>7, <1>8

\* The exception ends the process: the state of the pool is as it was.
LEMMA WorkerExitThrowsKeeps ==
  ASSUME IInv, NEW w \in Workers, WorkerExitThrows(w)
  PROVE  IInv'
<1>1. /\ UNCHANGED <<queue, order, active, tasks, timers, calls, reporting, thread,
                     given, posted>>
      /\ UNCHANGED <<pool, nextTaskId, opts, awaited, outbox>> /\ crashed' = TRUE
  BY DEF WorkerExitThrows, Exited
<1>2. TypeOK'
  BY <1>1 DEF IInv, TypeOK, Tasks, Workers, Outcomes, Ended, NoTask
<1>3. \A v \in Workers : Owned(given, outbox)'[v] \subseteq Owned(given, outbox)[v]
  BY <1>1 DEF Owned
<1>4. UNCHANGED poolVars
  BY <1>1 DEF poolVars
<1>. QED
  BY <1>1, <1>2, <1>3, <1>4, ThreadStepKeeps

\* A worker that exits while the pool closes leaves the Map for good.
LEMMA WorkerExitClosingKeeps ==
  ASSUME IInv, NEW w \in Workers, WorkerExitClosing(w)
  PROVE  IInv'
<1>1. /\ pool # "open" /\ Exited(w) /\ LeavesMap(w) /\ ExitSettles(w)
      /\ UNCHANGED <<queue, reporting>>
      /\ tasks' = tasks \ ExitTask(w) /\ timers' = TimersAfterExit(w)
  BY DEF WorkerExitClosing, LeavesMap
<1>2. UNCHANGED <<pool, nextTaskId, opts>> /\ reporting' = NoWorker
  BY <1>1 DEF Exited, TurnOver
<1>3. queue = <<>> /\ tasks = {} /\ timers = {}
  BY <1>1 DEF IInv, ClosedHoldsNothing
<1>4. ExitTask(w) = {}
  BY <1>3 DEF ExitTask
<1>5. calls' = calls /\ timers' = timers /\ tasks' = tasks
  BY <1>1, <1>3, <1>4, ExitWithoutTask DEF IInv
<1>6. TypeOK' /\ OrderOK' /\ ReportingOK' /\ QueueBounded' /\ WorkConserving'
  <2>1. calls' \in [Tasks -> Seq(Outcomes)]
    BY <1>5 DEF IInv, TypeOK
  <2>. QED
    BY <1>1, <1>2, <2>1, WorkerLeaves
<1>7. ClosedHoldsNothing' /\ UncalledUnsettled' /\ SettledOnce'
  BY <1>1, <1>2, <1>3, <1>5
  DEF IInv, ClosedHoldsNothing, UncalledUnsettled, SettledOnce, Cloneable
<1>. QED
  BY <1>1, <1>2, <1>6, <1>7 DEF IInv

-----------------------------------------------------------------------------
(* close().                                                                *)

\* close() settles everything the ledger lists, so nothing is left to settle.
LEMMA CloseKeeps ==
  ASSUME IInv, Close
  PROVE  IInv'
<1>1. /\ pool = "open" /\ pool' = "closing" /\ queue' = <<>> /\ tasks' = {}
      /\ timers' = {x \in timers : x[2] \notin tasks}
      /\ calls' = [t \in Tasks |-> IF t \in tasks \cup Range(queue)
                                   THEN Append(calls[t], "closed") ELSE calls[t]]
      /\ awaited' = Range(order)
      /\ UNCHANGED <<nextTaskId, opts, order, active, reporting, thread, given, outbox,
                     posted, crashed>>
  BY DEF Close, OwedAtClose, threadVars
<1>l. Ledger(queue, active, tasks, timers, calls, Owned(given, outbox))
  BY <1>1 DEF IInv
<1>t. /\ calls \in [Tasks -> Seq(Outcomes)] /\ tasks \subseteq Tasks /\ nextTaskId \in Nat
      /\ queue \in Seq(Tasks)
  BY DEF IInv, TypeOK
<1>2. timers' = {}
  BY <1>1, <1>l DEF Ledger, TimersBooked
<1>3. \A t \in Tasks : /\ Append(calls[t], "closed") \in Seq(Outcomes)
                       /\ Len(Append(calls[t], "closed")) = Len(calls[t]) + 1
                       /\ Len(calls[t]) \in Nat
                       /\ Append(calls[t], "closed") # <<>>
  <2>. SUFFICES ASSUME NEW t \in Tasks
                PROVE  /\ Append(calls[t], "closed") \in Seq(Outcomes)
                       /\ Len(Append(calls[t], "closed")) = Len(calls[t]) + 1
                       /\ Len(calls[t]) \in Nat
                       /\ Append(calls[t], "closed") # <<>>
    OBVIOUS
  <2>1. calls[t] \in Seq(Outcomes) /\ "closed" \in Outcomes
    BY <1>t DEF Outcomes
  <2>2. /\ Append(calls[t], "closed") \in Seq(Outcomes)
        /\ Len(Append(calls[t], "closed")) = Len(calls[t]) + 1
        /\ Len(calls[t]) \in Nat
    BY <2>1, AppendProperties, LenProperties
  <2>3. Len(Append(calls[t], "closed")) # 0
    BY <2>2
  <2>. QED
    BY <2>2, <2>3, EmptySeq
<1>4. TypeOK'
  <2>1. calls' \in [Tasks -> Seq(Outcomes)]
    BY <1>1, <1>3, <1>t
  <2>2. queue' \in Seq(Tasks)
    BY <1>1, EmptySeq
  <2>3. awaited' \subseteq Workers
    BY <1>1, LenProperties, ElementOfSeq DEF IInv, TypeOK, Range
  <2>. QED
    BY <1>1, <1>2, <2>1, <2>2, <2>3 DEF IInv, TypeOK, Tasks, Workers, Outcomes, Ended, NoTask
<1>5. OrderOK' /\ ReportingOK'
  BY <1>1 DEF IInv, OrderOK, ReportingOK
<1>6. \A t \in tasks \cup Range(queue) :
        t < nextTaskId /\ (Cloneable(t) => calls[t] = <<>>)
  BY <1>l DEF Ledger, TasksHeld, QueueFresh, Range
<1>7. ClosedHoldsNothing'
  BY <1>1, <1>2, <1>3, <1>l DEF ClosedHoldsNothing, Ledger, NoneForgotten
<1>8. UncalledUnsettled'
  <2>. SUFFICES ASSUME NEW t \in Tasks, t >= nextTaskId PROVE calls'[t] = <<>>
    BY <1>1 DEF UncalledUnsettled
  <2>1. ~(t < nextTaskId)
    BY <1>t DEF Tasks
  <2>. QED
    BY <2>1, <1>1, <1>6 DEF IInv, UncalledUnsettled
<1>9. SettledOnce'
  <2>. SUFFICES ASSUME NEW t \in Tasks, Cloneable(t) PROVE Len(calls'[t]) <= 1
    BY <1>1 DEF SettledOnce, Cloneable
  <2>1. CASE t \in tasks \cup Range(queue)
    <3>1. Len(calls[t]) = 0 /\ calls'[t] = Append(calls[t], "closed")
      BY <2>1, <1>1, <1>6, EmptySeq
    <3>. QED
      BY <3>1, <1>3
  <2>2. CASE t \notin tasks \cup Range(queue)
    BY <2>2, <1>1 DEF IInv, SettledOnce
  <2>. QED
    BY <2>1, <2>2
<1>10. QueueBounded' /\ WorkConserving'
  BY <1>1, EmptySeq, WorkerPoolAssumption DEF QueueBounded, WorkConserving
<1>. QED
  BY <1>1, <1>4, <1>5, <1>7, <1>8, <1>9, <1>10 DEF IInv

\* The end of close() finds nothing to do.
LEMMA CloseEndsKeeps ==
  ASSUME IInv, CloseEnds
  PROVE  IInv'
<1>1. /\ pool = "closing" /\ reporting = NoWorker
      /\ pool' = "closed" /\ order' = <<>>
      /\ UNCHANGED <<nextTaskId, opts, queue, active, tasks, timers, calls,
                     reporting, awaited, thread, given, outbox, posted, crashed>>
  BY DEF CloseEnds, threadVars, TurnOver
<1>2. order' \in Seq(Workers) /\ Range(order') = {} /\ IsInjective(order')
  BY <1>1, EmptySeq DEF Range, IsInjective
<1>3. TypeOK'
  BY <1>1, <1>2 DEF IInv, TypeOK, Tasks, Workers, Outcomes, Ended, NoTask
<1>4. OrderOK' /\ ReportingOK'
  BY <1>1, <1>2 DEF OrderOK, ReportingOK
<1>5. ClosedHoldsNothing' /\ UncalledUnsettled' /\ SettledOnce' /\ QueueBounded'
  BY <1>1 DEF IInv, ClosedHoldsNothing, UncalledUnsettled, SettledOnce, QueueBounded, Cloneable
<1>6. WorkConserving'
  BY <1>1, <1>2 DEF WorkConserving
<1>. QED
  BY <1>1, <1>3, <1>4, <1>5, <1>6 DEF IInv

-----------------------------------------------------------------------------
(* run().                                                                  *)

\* A non-empty set of natural numbers has a least element.
LEMMA LeastElement ==
  ASSUME NEW T \in SUBSET Nat, T # {}
  PROVE  \E x \in T : \A y \in T : x <= y
<1>. DEFINE R == OpToRel(<, Nat)
<1>1. IsWellFoundedOn(R, Nat)
  BY NatLessThanWellFounded
<1>2. \A x, y \in Nat : x < y => <<x, y>> \in R
  BY DEF OpToRel
<1>. HIDE DEF R
<1>3. PICK x \in T : \A y \in T : ~ (<<y, x>> \in R)
  BY <1>1, WFMin
<1>4. ASSUME NEW y \in T PROVE x <= y
  <2>1. x \in Nat /\ y \in Nat /\ ~(y < x)
    BY <1>2, <1>3
  <2>. QED
    BY <2>1
<1>. QED
  BY <1>4

\* getIdleWorker finds an idle worker of the Map when there is one.
LEMMA IdleWorkerFound ==
  ASSUME TypeOK, HasIdleWorker
  PROVE  IdleWorker \in Workers /\ IdleWorker \in Range(order) /\ active[IdleWorker] = NoTask
<1>1. /\ DOMAIN order = 1 .. Len(order) /\ Len(order) \in Nat
      /\ \A i \in DOMAIN order : order[i] \in Workers
  BY LenProperties, ElementOfSeq DEF TypeOK
<1>. DEFINE T == {i \in DOMAIN order : Idle(order[i])}
<1>2. T \in SUBSET Nat /\ T # {}
  BY <1>1 DEF HasIdleWorker
<1>3. PICK x \in T : \A y \in T : x <= y
  <2>. HIDE DEF T
  <2>. QED
    BY <1>2, LeastElement
<1>4. \A j \in 1 .. x - 1 : ~Idle(order[j])
  <2>. SUFFICES ASSUME NEW j \in 1 .. x - 1, Idle(order[j]) PROVE FALSE
    OBVIOUS
  <2>1. x \in Nat /\ x <= Len(order) /\ j \in Nat /\ 1 <= j /\ j < x
    BY <1>1
  <2>2. j \in T
    BY <1>1, <2>1
  <2>. QED
    BY <1>3, <2>1, <2>2
<1>5. \E i \in DOMAIN order : Idle(order[i]) /\ \A j \in 1 .. i - 1 : ~Idle(order[j])
  BY <1>3, <1>4
<1>6. \E i \in DOMAIN order : IdleWorker = order[i] /\ Idle(order[i])
  BY <1>5 DEF IdleWorker
<1>. QED
  BY <1>1, <1>6 DEF Range, Idle

\* What every call of run() leaves alone, and the state of its task before it.
LEMMA Called ==
  ASSUME IInv, NEW call \in Calls, Call(call)
  PROVE  /\ UNCHANGED <<pool, order, reporting, awaited, thread, outbox, crashed>>
         /\ nextTaskId \in Tasks /\ nextTaskId \in Nat /\ nextTaskId # NoTask
         /\ nextTaskId' = nextTaskId + 1 /\ nextTaskId' \in 1 .. MaxTasks + 1
         /\ opts' \in [Tasks -> [timeout : BOOLEAN, cloneable : BOOLEAN]]
         /\ \A u \in Tasks : u # nextTaskId => opts'[u] = opts[u]
         /\ opts'[nextTaskId] = call
         /\ calls \in [Tasks -> Seq(Outcomes)] /\ calls[nextTaskId] = <<>>
         /\ OrderOK'
<1>1. /\ UNCHANGED <<pool, order, reporting, awaited, thread, outbox, crashed>>
      /\ nextTaskId \in Tasks /\ nextTaskId' = nextTaskId + 1
      /\ opts' = [opts EXCEPT ![nextTaskId] = call]
  BY DEF Call
<1>2. nextTaskId \in Nat /\ nextTaskId # NoTask /\ nextTaskId' \in 1 .. MaxTasks + 1
  BY <1>1, WorkerPoolAssumption DEF Tasks, NoTask
<1>3. call \in [timeout : BOOLEAN, cloneable : BOOLEAN]
  BY WorkerPoolAssumption
<1>4. /\ opts' \in [Tasks -> [timeout : BOOLEAN, cloneable : BOOLEAN]]
      /\ \A u \in Tasks : u # nextTaskId => opts'[u] = opts[u]
      /\ opts'[nextTaskId] = call
  BY <1>1, <1>3 DEF IInv, TypeOK
<1>5. calls \in [Tasks -> Seq(Outcomes)] /\ calls[nextTaskId] = <<>>
  BY <1>1, <1>2 DEF IInv, TypeOK, UncalledUnsettled
<1>6. OrderOK'
  BY <1>1 DEF IInv, OrderOK
<1>. QED
  BY <1>1, <1>2, <1>4, <1>5, <1>6

\* The promise of a call that settles it at once, or does not.
LEMMA CallSettles ==
  ASSUME IInv, NEW call \in Calls, Call(call), NEW outcome \in Outcomes,
         calls' = calls \/ calls' = Settle(nextTaskId, outcome)
  PROVE  /\ calls' \in [Tasks -> Seq(Outcomes)]
         /\ \A u \in Tasks : u # nextTaskId => calls'[u] = calls[u]
         /\ calls' = Settle(nextTaskId, outcome) => calls'[nextTaskId] # <<>>
         /\ SettledOnce' /\ UncalledUnsettled'
<1>. DEFINE t == nextTaskId
<1>1. /\ t \in Tasks /\ t \in Nat /\ nextTaskId' = t + 1
      /\ \A u \in Tasks : u # t => opts'[u] = opts[u]
      /\ calls \in [Tasks -> Seq(Outcomes)] /\ calls[t] = <<>>
  BY Called
<1>2. /\ Append(calls[t], outcome) \in Seq(Outcomes)
      /\ Len(Append(calls[t], outcome)) = 1
      /\ Append(calls[t], outcome) # <<>>
  <2>1. calls[t] \in Seq(Outcomes) /\ Len(calls[t]) = 0
    BY <1>1, EmptySeq
  <2>2. Append(calls[t], outcome) \in Seq(Outcomes) /\ Len(Append(calls[t], outcome)) = 1
    BY <2>1, AppendProperties
  <2>. QED
    BY <2>2, EmptySeq
<1>3. Settle(t, outcome) = [calls EXCEPT ![t] = Append(@, outcome)]
  BY DEF Settle
<1>4. /\ calls' \in [Tasks -> Seq(Outcomes)]
      /\ \A u \in Tasks : u # t => calls'[u] = calls[u]
      /\ calls' = Settle(t, outcome) => calls'[t] = Append(calls[t], outcome)
      /\ calls'[t] \in {<<>>, Append(calls[t], outcome)}
  BY <1>1, <1>2, <1>3
<1>5. SettledOnce'
  <2>. SUFFICES ASSUME NEW u \in Tasks, Cloneable(u)' PROVE Len(calls'[u]) <= 1
    BY DEF SettledOnce
  <2>1. CASE u = t
    BY <2>1, <1>2, <1>4, EmptySeq
  <2>2. CASE u # t
    BY <2>2, <1>1, <1>4 DEF IInv, SettledOnce, Cloneable
  <2>. QED
    BY <2>1, <2>2
<1>6. UncalledUnsettled'
  <2>. SUFFICES ASSUME NEW u \in Tasks, u >= nextTaskId' PROVE calls'[u] = <<>>
    BY DEF UncalledUnsettled
  <2>1. u >= t /\ u # t
    BY <1>1 DEF Tasks
  <2>. QED
    BY <2>1, <1>4 DEF IInv, UncalledUnsettled
<1>. QED
  BY <1>2, <1>4, <1>5, <1>6

\* The ledger of an open pool when run() is called: everything in it is about
\* earlier tasks.
LEMMA LedgerBeforeCall ==
  ASSUME IInv, NEW call \in Calls, Call(call), pool = "open"
  PROVE  /\ QueueSorted(queue)
         /\ \A i \in DOMAIN queue : /\ queue[i] \in Tasks /\ queue[i] < nextTaskId
                                    /\ calls[queue[i]] = <<>> /\ queue[i] \notin tasks
         /\ \A u \in tasks : /\ u \in Tasks /\ u < nextTaskId /\ u # NoTask
                             /\ Cloneable(u) => calls[u] = <<>>
                             /\ \E v \in Workers : active[v] = u
         /\ ActiveBooked(active, tasks)
         /\ TimersBooked(active, tasks, timers)
         /\ ThreadsBooked(queue, active, tasks, Owned(given, outbox))
         /\ NoneForgotten(queue, tasks, calls)
         /\ \A u \in Tasks : u < nextTaskId' => u < nextTaskId \/ u = nextTaskId
<1>1. /\ queue \in Seq(Tasks) /\ tasks \subseteq Tasks
      /\ nextTaskId \in Nat /\ nextTaskId' = nextTaskId + 1
      /\ Ledger(queue, active, tasks, timers, calls, Owned(given, outbox))
  BY Called DEF IInv, TypeOK
<1>2. \A i \in DOMAIN queue : queue[i] \in Tasks
  BY <1>1, LenProperties, ElementOfSeq
<1>3. \A u \in Tasks : u < nextTaskId' => u < nextTaskId \/ u = nextTaskId
  BY <1>1 DEF Tasks
<1>4. \A u \in tasks : u \in Tasks /\ u # NoTask
  BY <1>1 DEF Tasks, NoTask
<1>. QED
  BY <1>1, <1>2, <1>3, <1>4 DEF Ledger, QueueFresh, TasksHeld

\* What a thread owes an answer for are tasks.
LEMMA OwnedAreTasks ==
  ASSUME TypeOK
  PROVE  \A v \in Workers : \A u \in Owned(given, outbox)[v] : u \in Tasks
<1>1. /\ outbox \in [Workers -> Seq([type : {"result", "error"}, task : Tasks])]
      /\ given \in [Workers -> SUBSET Tasks]
  BY DEF TypeOK
<1>. DEFINE Messages == [type : {"result", "error"}, task : Tasks]
<1>2. \A m \in Messages : m.task \in Tasks
  OBVIOUS
<1>3. outbox \in [Workers -> Seq(Messages)]
  BY <1>1
<1>. HIDE DEF Messages
<1>4. \A v \in Workers : Range(outbox[v]) \subseteq Messages
  BY <1>3, LenProperties, ElementOfSeq DEF Range
<1>. QED
  BY <1>1, <1>2, <1>4 DEF Owned

\* A call the pool rejects at once: it is closing, or the queue is full.
LEMMA RunRefusedKeeps ==
  ASSUME IInv, NEW call \in Calls, RunRefused(call)
  PROVE  IInv'
<1>1. /\ Call(call) /\ UNCHANGED <<queue, active, tasks, timers, given, posted>>
      /\ calls' = Settle(nextTaskId, "refused") \/ calls' = Settle(nextTaskId, "full")
  BY DEF RunRefused
<1>2. /\ UNCHANGED <<pool, order, reporting, awaited, thread, outbox, crashed>>
      /\ nextTaskId \in Tasks /\ nextTaskId \in Nat
      /\ nextTaskId' = nextTaskId + 1 /\ nextTaskId' \in 1 .. MaxTasks + 1
      /\ opts' \in [Tasks -> [timeout : BOOLEAN, cloneable : BOOLEAN]]
      /\ \A u \in Tasks : u # nextTaskId => opts'[u] = opts[u]
      /\ OrderOK'
  BY <1>1, Called
<1>3. /\ calls' \in [Tasks -> Seq(Outcomes)]
      /\ \A u \in Tasks : u # nextTaskId => calls'[u] = calls[u]
      /\ calls'[nextTaskId] # <<>>
      /\ SettledOnce' /\ UncalledUnsettled'
  <2>1. "refused" \in Outcomes /\ "full" \in Outcomes
    BY DEF Outcomes
  <2>2. CASE calls' = Settle(nextTaskId, "refused")
    BY <1>1, <2>1, <2>2, CallSettles
  <2>3. CASE calls' = Settle(nextTaskId, "full")
    BY <1>1, <2>1, <2>3, CallSettles
  <2>. QED
    BY <1>1, <2>2, <2>3
<1>4. TypeOK'
  BY <1>1, <1>2, <1>3 DEF IInv, TypeOK, Tasks, Workers, Outcomes, Ended, NoTask
<1>5. ASSUME pool = "open"
      PROVE  Ledger(queue, active, tasks, timers, calls, Owned(given, outbox))'
  <2>l. /\ QueueSorted(queue)
        /\ \A i \in DOMAIN queue : /\ queue[i] \in Tasks /\ queue[i] < nextTaskId
                                   /\ calls[queue[i]] = <<>> /\ queue[i] \notin tasks
        /\ \A u \in tasks : /\ u \in Tasks /\ u < nextTaskId /\ u # NoTask
                            /\ Cloneable(u) => calls[u] = <<>>
                            /\ \E v \in Workers : active[v] = u
        /\ ActiveBooked(active, tasks)
        /\ TimersBooked(active, tasks, timers)
        /\ ThreadsBooked(queue, active, tasks, Owned(given, outbox))
        /\ NoneForgotten(queue, tasks, calls)
        /\ \A u \in Tasks : u < nextTaskId' => u < nextTaskId \/ u = nextTaskId
    BY <1>1, <1>5, LedgerBeforeCall
  <2>n. \A u \in Tasks : u < nextTaskId => u # nextTaskId /\ u < nextTaskId'
    BY <1>2 DEF Tasks
  <2>1. QueueSorted(queue)' /\ QueueFresh(queue, tasks, calls)'
    BY <1>1, <1>3, <2>l, <2>n DEF QueueSorted, QueueFresh
  <2>2. TasksHeld(active, tasks, calls)'
    BY <1>1, <1>2, <1>3, <2>l, <2>n DEF TasksHeld, Cloneable
  <2>3. ActiveBooked(active, tasks)' /\ TimersBooked(active, tasks, timers)'
    BY <1>1, <2>l DEF ActiveBooked, TimersBooked
  <2>4. ThreadsBooked(queue, active, tasks, Owned(given, outbox))'
    <3>1. Owned(given, outbox)' = Owned(given, outbox)
      BY <1>1, <1>2 DEF Owned, Range
    <3>2. Range(queue)' = Range(queue)
      BY <1>1 DEF Range
    <3>3. \A v \in Workers : \A u \in Owned(given, outbox)[v] : u \in Tasks
      BY OwnedAreTasks DEF IInv
    <3>. QED
      BY <1>1, <3>1, <3>2, <3>3, <2>l, <2>n DEF ThreadsBooked
  <2>5. NoneForgotten(queue, tasks, calls)'
    BY <1>1, <1>3, <2>l DEF NoneForgotten, Range
  <2>. QED
    BY <2>1, <2>2, <2>3, <2>4, <2>5 DEF Ledger
<1>6. ClosedHoldsNothing'
  <2>. SUFFICES ASSUME pool # "open"
                PROVE  /\ queue = <<>> /\ tasks = {} /\ timers = {}
                       /\ \A u \in Tasks : u < nextTaskId' => calls'[u] # <<>>
    BY <1>1, <1>2 DEF ClosedHoldsNothing
  <2>1. \A u \in Tasks : u < nextTaskId' => u < nextTaskId \/ u = nextTaskId
    BY <1>2 DEF Tasks
  <2>. QED
    BY <2>1, <1>3 DEF IInv, ClosedHoldsNothing
<1>7. QueueBounded' /\ WorkConserving' /\ ReportingOK'
  BY <1>1, <1>2 DEF IInv, QueueBounded, WorkConserving, ReportingOK, Idle, Range
<1>. QED
  BY <1>2, <1>3, <1>4, <1>5, <1>6, <1>7 DEF IInv

\* A call that finds no idle worker, and room in the queue.
LEMMA RunQueuedKeeps ==
  ASSUME IInv, NEW call \in Calls, RunQueued(call)
  PROVE  IInv'
<1>. DEFINE t == nextTaskId
<1>1. /\ Call(call) /\ pool = "open" /\ ~HasIdleWorker /\ ~QueueFull
      /\ queue' = Append(queue, t)
      /\ UNCHANGED <<calls, active, tasks, timers, given, posted>>
  BY DEF RunQueued
<1>2. /\ UNCHANGED <<pool, order, reporting, awaited, thread, outbox, crashed>>
      /\ t \in Tasks /\ t \in Nat /\ nextTaskId' = t + 1 /\ nextTaskId' \in 1 .. MaxTasks + 1
      /\ opts' \in [Tasks -> [timeout : BOOLEAN, cloneable : BOOLEAN]]
      /\ \A u \in Tasks : u # t => opts'[u] = opts[u]
      /\ calls[t] = <<>>
      /\ OrderOK'
  BY <1>1, Called
<1>3. SettledOnce' /\ UncalledUnsettled' /\ calls' \in [Tasks -> Seq(Outcomes)]
  BY <1>1, CallSettles DEF Outcomes
<1>q. /\ queue \in Seq(Tasks) /\ queue' \in Seq(Tasks) /\ Len(queue) \in Nat
      /\ Len(queue') = Len(queue) + 1
      /\ DOMAIN queue = 1 .. Len(queue) /\ DOMAIN queue' = 1 .. Len(queue) + 1
      /\ \A i \in 1 .. Len(queue) : queue'[i] = queue[i]
      /\ queue'[Len(queue) + 1] = t
  BY <1>1, <1>2, AppendProperties, LenProperties DEF IInv, TypeOK
<1>r. Range(queue') = Range(queue) \cup {t}
  BY <1>q DEF Range
<1>4. TypeOK'
  BY <1>1, <1>2, <1>3, <1>q DEF IInv, TypeOK, Tasks, Workers, Outcomes, Ended, NoTask
<1>5. Ledger(queue, active, tasks, timers, calls, Owned(given, outbox))'
  <2>l. /\ QueueSorted(queue)
        /\ \A i \in DOMAIN queue : /\ queue[i] \in Tasks /\ queue[i] < t
                                   /\ calls[queue[i]] = <<>> /\ queue[i] \notin tasks
        /\ \A u \in tasks : /\ u \in Tasks /\ u < t /\ u # NoTask
                            /\ Cloneable(u) => calls[u] = <<>>
                            /\ \E v \in Workers : active[v] = u
        /\ ActiveBooked(active, tasks)
        /\ TimersBooked(active, tasks, timers)
        /\ ThreadsBooked(queue, active, tasks, Owned(given, outbox))
        /\ NoneForgotten(queue, tasks, calls)
        /\ \A u \in Tasks : u < nextTaskId' => u < t \/ u = t
    BY <1>1, LedgerBeforeCall
  <2>n. /\ \A u \in Tasks : u < t => u # t /\ u < nextTaskId'
        /\ t < nextTaskId' /\ t \notin tasks
    BY <1>2, <2>l DEF Tasks
  <2>1. QueueSorted(queue)'
    <3>. SUFFICES ASSUME NEW i \in DOMAIN queue', NEW j \in DOMAIN queue', i < j
                  PROVE  queue'[i] < queue'[j]
      BY DEF QueueSorted
    <3>1. i \in 1 .. Len(queue)
      BY <1>q
    <3>2. CASE j \in 1 .. Len(queue)
      BY <3>1, <3>2, <1>q, <2>l DEF QueueSorted
    <3>3. CASE j = Len(queue) + 1
      BY <3>1, <3>3, <1>q, <2>l
    <3>. QED
      BY <3>2, <3>3, <1>q
  <2>2. QueueFresh(queue, tasks, calls)'
    <3>. SUFFICES ASSUME NEW i \in DOMAIN queue'
                  PROVE  queue'[i] < nextTaskId' /\ calls[queue'[i]] = <<>> /\ queue'[i] \notin tasks
      BY <1>1 DEF QueueFresh
    <3>1. CASE i \in 1 .. Len(queue)
      BY <3>1, <1>q, <2>l, <2>n
    <3>2. CASE i = Len(queue) + 1
      BY <3>2, <1>q, <1>2, <2>n
    <3>. QED
      BY <3>1, <3>2, <1>q
  <2>3. TasksHeld(active, tasks, calls)'
    BY <1>1, <1>2, <2>l, <2>n DEF TasksHeld, Cloneable
  <2>4. ActiveBooked(active, tasks)' /\ TimersBooked(active, tasks, timers)'
    BY <1>1, <2>l DEF ActiveBooked, TimersBooked
  <2>5. ThreadsBooked(queue, active, tasks, Owned(given, outbox))'
    <3>1. Owned(given, outbox)' = Owned(given, outbox)
      BY <1>1, <1>2 DEF Owned, Range
    <3>2. \A v \in Workers : \A u \in Owned(given, outbox)[v] : u \in Tasks
      BY OwnedAreTasks DEF IInv
    <3>. SUFFICES ASSUME NEW v \in Workers, NEW u \in Owned(given, outbox)[v]
                  PROVE  /\ u < nextTaskId' /\ u \notin Range(queue')
                         /\ u \in tasks' => active'[v] = u
      BY <3>1 DEF ThreadsBooked, Range
    <3>. QED
      BY <1>1, <1>r, <3>2, <2>l, <2>n DEF ThreadsBooked
  <2>6. NoneForgotten(queue, tasks, calls)'
    <3>. SUFFICES ASSUME NEW u \in Tasks, u < nextTaskId', calls[u] = <<>>
                  PROVE  u \in Range(queue') \/ u \in tasks
      BY <1>1 DEF NoneForgotten, Range
    <3>. QED
      BY <1>r, <2>l DEF NoneForgotten
  <2>. QED
    BY <2>1, <2>2, <2>3, <2>4, <2>5, <2>6 DEF Ledger
<1>6. ClosedHoldsNothing'
  BY <1>1, <1>2 DEF ClosedHoldsNothing
<1>7. QueueBounded'
  <2>1. ~(Len(queue) >= MaxQueue)
    BY <1>1 DEF QueueFull
  <2>. QED
    BY <2>1, <1>q, WorkerPoolAssumption DEF QueueBounded
<1>8. WorkConserving' /\ ReportingOK'
  BY <1>1, <1>2 DEF IInv, WorkConserving, ReportingOK, HasIdleWorker, Idle, Range
<1>. QED
  BY <1>2, <1>3, <1>4, <1>5, <1>6, <1>7, <1>8 DEF IInv

\* A call that an idle worker takes.
LEMMA RunStartedKeeps ==
  ASSUME IInv, NEW call \in Calls, RunStarted(call)
  PROVE  IInv'
<1>. DEFINE t == nextTaskId
            w == IdleWorker
<1>1. /\ Call(call) /\ pool = "open" /\ HasIdleWorker
      /\ active' = [active EXCEPT ![w] = t]
      /\ tasks' = tasks \cup {t}
      /\ timers' = IF call.timeout THEN timers \cup {<<w, t>>} ELSE timers
      /\ calls' = IF call.cloneable THEN calls ELSE Settle(t, "uncloneable")
      /\ IF thread[w] = "up" /\ call.cloneable
         THEN /\ given' = [given EXCEPT ![w] = @ \cup {t}]
              /\ posted' = posted \cup {t}
         ELSE UNCHANGED <<given, posted>>
      /\ UNCHANGED queue
  BY DEF RunStarted
<1>w. w \in Workers /\ w \in Range(order) /\ active[w] = NoTask
  BY <1>1, IdleWorkerFound DEF IInv
<1>. HIDE DEF w
<1>2. /\ UNCHANGED <<pool, order, reporting, awaited, thread, outbox, crashed>>
      /\ t \in Tasks /\ t \in Nat /\ t # NoTask
      /\ nextTaskId' = t + 1 /\ nextTaskId' \in 1 .. MaxTasks + 1
      /\ opts' \in [Tasks -> [timeout : BOOLEAN, cloneable : BOOLEAN]]
      /\ \A u \in Tasks : u # t => opts'[u] = opts[u]
      /\ opts'[t] = call
      /\ calls[t] = <<>>
      /\ OrderOK'
  BY <1>1, Called
<1>3. /\ SettledOnce' /\ UncalledUnsettled' /\ calls' \in [Tasks -> Seq(Outcomes)]
      /\ \A u \in Tasks : u # t => calls'[u] = calls[u]
      /\ call.cloneable => calls'[t] = <<>>
  <2>1. "uncloneable" \in Outcomes
    BY DEF Outcomes
  <2>. QED
    BY <1>1, <1>2, <2>1, CallSettles
<1>t. /\ active \in [Workers -> Tasks \cup {NoTask}] /\ timers \subseteq Workers \X Tasks
      /\ given \in [Workers -> SUBSET Tasks] /\ posted \subseteq Tasks /\ tasks \subseteq Tasks
  BY DEF IInv, TypeOK
<1>a. /\ active' \in [Workers -> Tasks \cup {NoTask}]
      /\ \A v \in Workers : active'[v] = IF v = w THEN t ELSE active[v]
  BY <1>1, <1>2, <1>t
<1>g. /\ given' \in [Workers -> SUBSET Tasks] /\ posted' \subseteq Tasks
      /\ \A v \in Workers : \A u \in given'[v] : u \in given[v] \/ (v = w /\ u = t)
  <2>1. CASE given' = [given EXCEPT ![w] = @ \cup {t}] /\ posted' = posted \cup {t}
    BY <2>1, <1>2, <1>w, <1>t
  <2>2. CASE UNCHANGED <<given, posted>>
    BY <2>2, <1>t
  <2>. QED
    BY <2>1, <2>2, <1>1
<1>m. /\ timers' \subseteq Workers \X Tasks
      /\ \A x \in timers' : x \in timers \/ x = <<w, t>>
  BY <1>1, <1>2, <1>w, <1>t
<1>4. TypeOK'
  BY <1>1, <1>2, <1>3, <1>t, <1>a, <1>g, <1>m
  DEF IInv, TypeOK, Tasks, Workers, Outcomes, Ended, NoTask
<1>5. Ledger(queue, active, tasks, timers, calls, Owned(given, outbox))'
  <2>l. /\ QueueSorted(queue)
        /\ \A i \in DOMAIN queue : /\ queue[i] \in Tasks /\ queue[i] < t
                                   /\ calls[queue[i]] = <<>> /\ queue[i] \notin tasks
        /\ \A u \in tasks : /\ u \in Tasks /\ u < t /\ u # NoTask
                            /\ Cloneable(u) => calls[u] = <<>>
                            /\ \E v \in Workers : active[v] = u
        /\ ActiveBooked(active, tasks)
        /\ TimersBooked(active, tasks, timers)
        /\ ThreadsBooked(queue, active, tasks, Owned(given, outbox))
        /\ NoneForgotten(queue, tasks, calls)
        /\ \A u \in Tasks : u < nextTaskId' => u < t \/ u = t
    BY <1>1, LedgerBeforeCall
  <2>n. /\ \A u \in Tasks : u < t => u # t /\ u < nextTaskId'
        /\ t < nextTaskId' /\ t \notin tasks
    BY <1>2, <2>l DEF Tasks
  <2>1. QueueSorted(queue)' /\ QueueFresh(queue, tasks, calls)'
    BY <1>1, <1>3, <2>l, <2>n DEF QueueSorted, QueueFresh
  <2>2. TasksHeld(active, tasks, calls)'
    <3>. SUFFICES ASSUME NEW u \in tasks'
                  PROVE  /\ u < nextTaskId' /\ (Cloneable(u)' => calls'[u] = <<>>)
                         /\ \E v \in Workers : active'[v] = u
      BY DEF TasksHeld
    <3>1. CASE u = t
      BY <3>1, <2>n, <1>2, <1>3, <1>a, <1>w DEF Cloneable
    <3>2. CASE u # t
      <4>1. PICK v \in Workers : active[v] = u /\ u # NoTask /\ u < t /\ u \in Tasks
        BY <3>2, <1>1, <2>l
      <4>2. active'[v] = u
        BY <4>1, <1>a, <1>w
      <4>3. Cloneable(u)' => calls'[u] = <<>>
        <5>1. u \in tasks /\ calls'[u] = calls[u] /\ opts'[u] = opts[u]
          BY <3>2, <4>1, <1>1, <1>2, <1>3
        <5>2. Cloneable(u) => calls[u] = <<>>
          BY <5>1, <2>l
        <5>. QED
          BY <5>1, <5>2 DEF Cloneable
      <4>. QED
        BY <4>1, <4>2, <4>3, <2>n
    <3>. QED
      BY <3>1, <3>2
  <2>3. ActiveBooked(active, tasks)'
    <3>1. \A v \in Workers : active[v] # t
      BY <1>2, <2>l, <2>n DEF ActiveBooked
    <3>. QED
      BY <3>1, <1>1, <1>a, <2>l DEF ActiveBooked
  <2>4. TimersBooked(active, tasks, timers)'
    <3>. SUFFICES ASSUME NEW x \in timers' PROVE x[2] \in tasks' /\ active'[x[1]] = x[2]
      BY DEF TimersBooked
    <3>1. CASE x = <<w, t>>
      BY <3>1, <1>1, <1>a, <1>w
    <3>2. CASE x \in timers
      <4>1. x[1] \in Workers /\ x[2] \in tasks /\ active[x[1]] = x[2] /\ x[2] # NoTask
        BY <3>2, <1>t, <2>l DEF TimersBooked
      <4>2. x[1] # w
        BY <4>1, <1>w
      <4>. QED
        BY <4>1, <4>2, <1>1, <1>a
    <3>. QED
      BY <3>1, <3>2, <1>m
  <2>5. ThreadsBooked(queue, active, tasks, Owned(given, outbox))'
    <3>. SUFFICES ASSUME NEW v \in Workers, NEW u \in Owned(given, outbox)'[v]
                  PROVE  /\ u < nextTaskId' /\ u \notin Range(queue)
                         /\ u \in tasks' => active'[v] = u
      BY <1>1 DEF ThreadsBooked, Range
    <3>1. u \in Owned(given, outbox)[v] \/ (v = w /\ u = t)
      BY <1>2, <1>g DEF Owned, Range
    <3>2. CASE v = w /\ u = t
      BY <3>2, <1>a, <1>w, <2>l, <2>n DEF Range
    <3>3. CASE u # t /\ u \in Owned(given, outbox)[v]
      <4>1. u \in Tasks
        BY <3>3, OwnedAreTasks DEF IInv
      <4>2. u < t /\ u \notin Range(queue) /\ (u \in tasks => active[v] = u /\ u # NoTask)
        BY <3>3, <2>l DEF ThreadsBooked
      <4>3. u \in tasks' => active'[v] = u
        BY <3>3, <4>2, <1>1, <1>a, <1>w
      <4>. QED
        BY <4>1, <4>2, <4>3, <2>n
    <3>4. CASE u = t /\ u \in Owned(given, outbox)[v]
      <4>1. u < t
        BY <3>4, <2>l DEF ThreadsBooked
      <4>. QED
        BY <3>4, <4>1, <1>2
    <3>. QED
      BY <3>1, <3>2, <3>3, <3>4
  <2>6. NoneForgotten(queue, tasks, calls)'
    <3>. SUFFICES ASSUME NEW u \in Tasks, u < nextTaskId', calls'[u] = <<>>, u # t
                  PROVE  u \in Range(queue) \/ u \in tasks
      BY <1>1 DEF NoneForgotten, Range
    <3>. QED
      BY <1>3, <2>l DEF NoneForgotten
  <2>. QED
    BY <2>1, <2>2, <2>3, <2>4, <2>5, <2>6 DEF Ledger
<1>6. ClosedHoldsNothing' /\ QueueBounded'
  BY <1>1, <1>2 DEF IInv, ClosedHoldsNothing, QueueBounded
<1>8. ReportingOK'
  <2>. SUFFICES ASSUME reporting # NoWorker
                PROVE  /\ pool # "closed" /\ thread[reporting] = "none"
                       /\ active'[reporting] = NoTask
    BY <1>2 DEF ReportingOK
  <2>1. /\ reporting \in Workers /\ pool # "closed" /\ thread[reporting] = "none"
        /\ active[reporting] = NoTask
    BY DEF IInv, TypeOK, ReportingOK
  <2>2. thread[w] # "none"
    BY <1>1, <1>w DEF IInv, OrderOK
  <2>. QED
    BY <2>1, <2>2, <1>a
<1>7. WorkConserving'
  <2>. SUFFICES ASSUME queue # <<>>, NEW v \in Range(order), active'[v] = NoTask
                PROVE  thread[v] \in Ended
    BY <1>1, <1>2 DEF WorkConserving, Idle, Range
  <2>1. v \in Workers
    BY LenProperties, ElementOfSeq DEF IInv, TypeOK, Range
  <2>2. active[v] = NoTask
    BY <2>1, <1>2, <1>a
  <2>. QED
    BY <2>2 DEF IInv, WorkConserving, Idle
<1>. QED
  BY <1>2, <1>3, <1>4, <1>5, <1>6, <1>7, <1>8 DEF IInv

-----------------------------------------------------------------------------
(* The invariant, and what follows from it.                                *)

\* The new pool has a thread for every worker, and nothing to do.
LEMMA InitIInv == Init => IInv
<1>. SUFFICES ASSUME Init PROVE IInv
  OBVIOUS
<1>i. /\ pool = "open" /\ nextTaskId = 1 /\ queue = <<>> /\ tasks = {} /\ timers = {}
      /\ opts = [t \in Tasks |-> [timeout |-> FALSE, cloneable |-> TRUE]]
      /\ order = [i \in 1 .. Size |-> i - 1]
      /\ active = [w \in Workers |-> NoTask] /\ calls = [t \in Tasks |-> <<>>]
      /\ reporting = NoWorker /\ awaited = {}
      /\ thread = [w \in Workers |-> "up"] /\ given = [w \in Workers |-> {}]
      /\ outbox = [w \in Workers |-> <<>>] /\ posted = {} /\ crashed = FALSE
  BY DEF Init, FirstTaskId
<1>s. Size \in Nat /\ MaxTasks \in Nat /\ MaxQueue \in Nat
  BY WorkerPoolAssumption
<1>1. /\ order \in Seq(Workers) /\ IsInjective(order) /\ Range(order) = Workers
      /\ DOMAIN order = 1 .. Size
  <2>1. order \in [1 .. Size -> Workers]
    BY <1>i, <1>s DEF Workers
  <2>2. order \in Seq(Workers)
    BY <2>1, <1>s, SeqDef
  <2>3. IsInjective(order)
    BY <1>i, <1>s DEF IsInjective
  <2>4. ASSUME NEW v \in Workers PROVE v \in Range(order)
    <3>1. v + 1 \in 1 .. Size /\ (v + 1) - 1 = v
      BY <1>s DEF Workers
    <3>. QED
      BY <3>1, <1>i DEF Range
  <2>. QED
    BY <2>1, <2>2, <2>3, <2>4 DEF Range
<1>2. <<>> \in Seq(Tasks) /\ <<>> \in Seq(Outcomes) /\ Len(<<>>) = 0
  BY EmptySeq
<1>3. TypeOK
  <2>1. calls \in [Tasks -> Seq(Outcomes)]
    BY <1>i, <1>2
  <2>. DEFINE Messages == [type : {"result", "error"}, task : Tasks]
  <2>2. outbox \in [Workers -> Seq(Messages)]
    <3>. HIDE DEF Messages
    <3>. QED
      BY <1>i, EmptySeq
  <2>3. /\ given \in [Workers -> SUBSET Tasks] /\ active \in [Workers -> Tasks \cup {NoTask}]
        /\ thread \in [Workers -> {"up", "none"} \cup Ended]
    BY <1>i
  <2>4. opts \in [Tasks -> [timeout : BOOLEAN, cloneable : BOOLEAN]]
    BY <1>i
  <2>5. nextTaskId \in 1 .. MaxTasks + 1
    BY <1>i, <1>s
  <2>. QED
    BY <1>i, <1>1, <1>2, <2>1, <2>2, <2>3, <2>4, <2>5 DEF TypeOK
<1>4. OrderOK /\ ReportingOK
  BY <1>1, <1>i DEF OrderOK, ReportingOK
<1>5. Ledger(queue, active, tasks, timers, calls, Owned(given, outbox))
  <2>1. DOMAIN queue = {}
    BY <1>i
  <2>2. QueueSorted(queue) /\ QueueFresh(queue, tasks, calls) /\ TasksHeld(active, tasks, calls)
    BY <1>i, <2>1 DEF QueueSorted, QueueFresh, TasksHeld
  <2>3. ActiveBooked(active, tasks) /\ TimersBooked(active, tasks, timers)
    BY <1>i DEF ActiveBooked, TimersBooked
  <2>4. ThreadsBooked(queue, active, tasks, Owned(given, outbox))
    <3>1. \A w \in Workers : Range(outbox[w]) = {}
      BY <1>i DEF Range
    <3>2. \A w \in Workers : Owned(given, outbox)[w] = {}
      BY <3>1, <1>i DEF Owned
    <3>. QED
      BY <3>2 DEF ThreadsBooked
  <2>5. NoneForgotten(queue, tasks, calls)
    BY <1>i DEF NoneForgotten, Tasks
  <2>. QED
    BY <2>2, <2>3, <2>4, <2>5 DEF Ledger
<1>6. UncalledUnsettled /\ SettledOnce
  BY <1>i, <1>2 DEF UncalledUnsettled, SettledOnce
<1>7. ClosedHoldsNothing /\ QueueBounded /\ WorkConserving
  BY <1>i, <1>2, <1>s DEF ClosedHoldsNothing, QueueBounded, WorkConserving
<1>. QED
  BY <1>3, <1>4, <1>5, <1>6, <1>7 DEF IInv

\* Every step keeps the invariant.
LEMMA NextIInv == IInv /\ [Next]_vars => IInv'
<1>. SUFFICES ASSUME IInv, [Next]_vars PROVE IInv'
  OBVIOUS
<1>1. CASE UNCHANGED vars
  <2>1. UNCHANGED poolVars /\ UNCHANGED <<thread, given, outbox, posted, crashed>>
    BY <1>1 DEF vars, threadVars
  <2>2. TypeOK'
    BY <2>1 DEF IInv, TypeOK, poolVars, Tasks, Workers, Outcomes, Ended, NoTask
  <2>3. \A w \in Workers : Owned(given, outbox)'[w] \subseteq Owned(given, outbox)[w]
    BY <2>1 DEF Owned
  <2>4. \A w \in Workers : thread'[w] = thread[w]
    BY <2>1
  <2>. QED
    BY <2>1, <2>2, <2>3, <2>4, ThreadStepKeeps
<1>2. CASE Run
  <2>1. PICK call \in Calls : RunRefused(call) \/ RunQueued(call) \/ RunStarted(call)
    BY <1>2 DEF Run
  <2>. QED
    BY <2>1, RunRefusedKeeps, RunQueuedKeeps, RunStartedKeeps
<1>3. CASE Close
  BY <1>3, CloseKeeps
<1>4. CASE CloseEnds
  BY <1>4, CloseEndsKeeps
<1>5. ASSUME NEW w \in Workers, WorkerStep(w) PROVE IInv'
  <2>1. CASE TaskMessage(w)
    BY <2>1, TaskMessageKeeps
  <2>2. CASE StaleMessage(w)
    BY <2>2, StaleMessageKeeps
  <2>3. CASE WorkerExitRespawn(w)
    BY <2>3, WorkerExitRespawnKeeps
  <2>9. CASE WorkerExitReported(w) \/ ReportedRespawn(w)
    BY <2>9, WorkerExitReportedKeeps, ReportedRespawnKeeps
  <2>4. CASE WorkerExitThrows(w)
    BY <2>4, WorkerExitThrowsKeeps
  <2>5. CASE WorkerExitClosing(w)
    BY <2>5, WorkerExitClosingKeeps
  <2>6. CASE ShutDown(w)
    <3>1. PICK how \in {"zero", "terminated"} : EndThread(w, how)
      BY <2>6 DEF ShutDown
    <3>2. how \in Ended
      BY DEF Ended
    <3>. QED
      BY <2>6, <3>1, <3>2, ThreadEnds DEF ShutDown
  <2>7. CASE ThreadDies(w)
    <3>1. PICK how \in Deaths : EndThread(w, how)
      BY <2>7 DEF ThreadDies
    <3>2. how \in Ended
      BY WorkerPoolAssumption DEF Ended
    <3>. QED
      BY <2>7, <3>1, <3>2, ThreadEnds DEF ThreadDies
  <2>8. ASSUME NEW t \in Tasks, TaskTimeout(w, t) \/ PostAnswer(w, t) PROVE IInv'
    BY <2>8, TaskTimeoutKeeps, PostAnswerKeeps
  <2>. QED
    BY <1>5, <2>1, <2>2, <2>3, <2>4, <2>5, <2>6, <2>7, <2>8, <2>9 DEF WorkerStep
<1>. QED
  BY <1>1, <1>2, <1>3, <1>4, <1>5 DEF Next

\* The invariant holds of the specification.
LEMMA SpecIInv == Spec => []IInv
BY InitIInv, NextIInv, PTL DEF Spec

\* Every variable of the pool keeps its type.
THEOREM TypeCorrect == Spec => []TypeOK
<1>1. IInv => TypeOK
  BY DEF IInv
<1>. QED
  BY <1>1, SpecIInv, PTL

\* No drain, respawn or call lets more than maxQueue tasks wait.
THEOREM QueueLimit == Spec => []QueueBounded
<1>1. IInv => QueueBounded
  BY DEF IInv
<1>. QED
  BY <1>1, SpecIInv, PTL

\* The answer, the timeout, the exit event and close() never settle the same
\* promise.
THEOREM OneSettlement == Spec => []SettledOnce
<1>1. IInv => SettledOnce
  BY DEF IInv
<1>. QED
  BY <1>1, SpecIInv, PTL

\* No live worker idles beside a queued task.
THEOREM NoIdleBesideWork == Spec => []WorkConserving
<1>1. IInv => WorkConserving
  BY DEF IInv
<1>. QED
  BY <1>1, SpecIInv, PTL

\* A timer that fires always stops the worker that is on its task.
THEOREM TimersInStep == Spec => []TimersMatchActive
<1>1. IInv => TimersMatchActive
  <2>1. CASE pool = "open"
    BY <2>1 DEF IInv, Ledger, TimersBooked, TimersMatchActive
  <2>2. CASE pool # "open"
    BY <2>2 DEF IInv, ClosedHoldsNothing, TimersMatchActive
  <2>. QED
    BY <2>1, <2>2
<1>. QED
  BY <1>1, SpecIInv, PTL

\* A promise that is not settled is that of a task in the queue or on a worker.
THEOREM NoTaskForgotten == Spec => []PendingAccounted
<1>1. IInv => PendingAccounted
  <2>. SUFFICES ASSUME IInv, NEW t \in Tasks, t < nextTaskId, calls[t] = <<>>
                PROVE  \/ t \in Range(queue) /\ t \notin tasks
                       \/ /\ t \in tasks /\ t \notin Range(queue)
                          /\ \E w \in Range(order) : active[w] = t
    BY DEF PendingAccounted, Accepted
  <2>1. pool = "open"
    BY DEF IInv, ClosedHoldsNothing
  <2>2. Ledger(queue, active, tasks, timers, calls, Owned(given, outbox))
    BY <2>1 DEF IInv
  <2>3. t \in Range(queue) \/ t \in tasks
    BY <2>2 DEF Ledger, NoneForgotten
  <2>4. ~(t \in Range(queue) /\ t \in tasks)
    BY <2>2 DEF Ledger, QueueFresh, Range
  <2>5. \A w \in Workers : w \in Range(order) \/ active[w] = NoTask
    BY <2>1 DEF IInv, TypeOK, OrderOK, ReportingOK, Workers, NoWorker
  <2>6. t \in tasks => \E w \in Range(order) : active[w] = t
    BY <2>2, <2>5 DEF Ledger, TasksHeld, Tasks, NoTask
  <2>. QED
    BY <2>3, <2>4, <2>6
<1>. QED
  BY <1>1, SpecIInv, PTL

\* A pool that is closing has settled every promise.
THEOREM ClosePaysAll == Spec => []ClosedOwesNothing
<1>1. IInv => ClosedOwesNothing
  BY DEF IInv, ClosedHoldsNothing, ClosedOwesNothing, Accepted
<1>. QED
  BY <1>1, SpecIInv, PTL

-----------------------------------------------------------------------------
(* First in, first out.                                                    *)

\* What has reached a thread was submitted, and before what still waits.
FifoInv == FifoDelivery /\ \A u \in posted : u \in Nat /\ u < nextTaskId

\* A drain posts nothing but what it takes from the queue.
LEMMA DrainPosts ==
  ASSUME TypeOK, NEW ord, NEW act, NEW tks, NEW tms, NEW thr, NEW throws,
         DrainQueue(ord, act, tks, tms, thr, throws)
  PROVE  \E n \in 0 .. Len(queue) :
           /\ queue' = SubSeq(queue, n + 1, Len(queue))
           /\ \A u \in posted' : u \in posted \/ \E i \in 1 .. n : u = queue[i]
<1>. DEFINE Got(hand, w) == {i \in 1 .. Len(hand) : ord[hand[i]] = w}
            Delivered(hand, w) ==
              {queue[i] : i \in {j \in Got(hand, w) : thr[w] = "up" /\ Cloneable(queue[j])}}
<1>1. PICK hand \in Handouts(ord, act) :
        /\ queue' = SubSeq(queue, Len(hand) + 1, Len(queue))
        /\ posted' = posted \cup UNION {Delivered(hand, w) : w \in Workers}
  BY DEF DrainQueue
<1>2. Len(hand) \in 0 .. Len(queue)
  <2>0. Len(queue) \in Nat
    BY LenProperties DEF TypeOK
  <2>1. PICK n \in 0 .. Len(queue) : hand \in [1 .. n -> DOMAIN ord]
    BY DEF Handouts
  <2>2. Len(hand) = n
    <3>1. n \in Nat
      BY <2>0
    <3>2. hand \in Seq(DOMAIN ord)
      BY <2>1, <3>1, SeqDef
    <3>. QED
      BY <2>1, <3>1, <3>2, LenProperties
  <2>. QED
    BY <2>1, <2>2
<1>3. ASSUME NEW u \in posted', u \notin posted PROVE \E i \in 1 .. Len(hand) : u = queue[i]
  BY <1>1, <1>3
<1>. QED
  BY <1>1, <1>2, <1>3

\* What a drain takes was submitted before what it leaves.
LEMMA DrainKeepsOrder ==
  ASSUME IInv, FifoInv, pool = "open", nextTaskId' = nextTaskId,
         NEW ord, NEW act, NEW tks, NEW tms, NEW thr, NEW throws,
         DrainQueue(ord, act, tks, tms, thr, throws)
  PROVE  FifoInv'
<1>1. PICK n \in 0 .. Len(queue) :
        /\ queue' = SubSeq(queue, n + 1, Len(queue))
        /\ \A u \in posted' : u \in posted \/ \E i \in 1 .. n : u = queue[i]
  BY DrainPosts DEF IInv
<1>2. /\ Len(queue) \in Nat /\ DOMAIN queue = 1 .. Len(queue)
      /\ \A i \in DOMAIN queue : queue[i] \in Tasks
      /\ \A i \in DOMAIN queue' : i \in Nat /\ i \in 1 .. Len(queue')
                                  /\ i + n \in DOMAIN queue /\ queue'[i] = queue[i + n]
  BY <1>1, RestOfQueue DEF IInv, TypeOK
<1>3. /\ \A i, j \in DOMAIN queue : i < j => queue[i] < queue[j]
      /\ \A i \in DOMAIN queue : queue[i] < nextTaskId
  BY DEF IInv, Ledger, QueueSorted, QueueFresh
<1>4. \A u \in posted' : u \in Nat /\ u < nextTaskId'
  BY <1>1, <1>2, <1>3 DEF FifoInv, Tasks
<1>5. ASSUME NEW k \in DOMAIN queue', NEW u \in posted' PROVE u < queue'[k]
  <2>1. k \in Nat /\ k >= 1 /\ k + n \in DOMAIN queue /\ queue'[k] = queue[k + n]
    BY <1>2
  <2>2. CASE u \in posted
    <3>1. queue[k + n] \in Range(queue)
      BY <2>1 DEF Range
    <3>. QED
      BY <2>1, <2>2, <3>1 DEF FifoInv, FifoDelivery
  <2>3. ASSUME NEW i \in 1 .. n, u = queue[i] PROVE u < queue'[k]
    <3>1. i \in DOMAIN queue /\ i < k + n
      BY <2>1, <1>2
    <3>. QED
      BY <2>1, <2>3, <3>1, <1>3
  <2>. QED
    BY <2>2, <2>3, <1>1
<1>. QED
  BY <1>4, <1>5 DEF FifoInv, FifoDelivery, Range

\* A call that is queued comes last, and one that is started reaches a live thread only
\* when nothing waits.
LEMMA CallKeepsOrder ==
  ASSUME IInv, FifoInv, NEW call \in Calls,
         RunRefused(call) \/ RunQueued(call) \/ RunStarted(call)
  PROVE  FifoInv'
<1>. DEFINE t == nextTaskId
<1>0. t \in Nat /\ t \in Tasks /\ nextTaskId' = t + 1
  BY DEF RunRefused, RunQueued, RunStarted, Call, Tasks
<1>1. CASE RunRefused(call)
  BY <1>0, <1>1 DEF RunRefused, FifoInv, FifoDelivery
<1>2. CASE RunQueued(call)
  <2>1. queue' = Append(queue, t) /\ posted' = posted
    BY <1>2 DEF RunQueued
  <2>2. /\ Len(queue) \in Nat /\ DOMAIN queue = 1 .. Len(queue)
        /\ DOMAIN queue' = 1 .. Len(queue) + 1
        /\ \A i \in 1 .. Len(queue) : queue'[i] = queue[i]
        /\ queue'[Len(queue) + 1] = t
    BY <2>1, <1>0, LenProperties, AppendProperties DEF IInv, TypeOK
  <2>3. ASSUME NEW v \in Range(queue)' PROVE v \in Range(queue) \/ v = t
    <3>1. PICK i \in DOMAIN queue' : v = queue'[i]
      BY <2>3 DEF Range
    <3>. QED
      BY <3>1, <2>2 DEF Range
  <2>. QED
    BY <2>1, <2>3, <1>0 DEF FifoInv, FifoDelivery
<1>3. CASE RunStarted(call)
  <2>1. /\ HasIdleWorker /\ queue' = queue
        /\ thread[IdleWorker] = "up" \/ posted' = posted
        /\ posted' \subseteq posted \cup {t}
    BY <1>3 DEF RunStarted
  <2>2. IdleWorker \in Range(order) /\ Idle(IdleWorker)
    BY <2>1, IdleWorkerFound DEF IInv, Idle
  <2>3. CASE queue = <<>>
    <3>1. Range(queue)' = {}
      BY <2>1, <2>3 DEF Range
    <3>. QED
      BY <2>1, <3>1, <1>0 DEF FifoInv, FifoDelivery
  <2>4. CASE queue # <<>>
    <3>1. thread[IdleWorker] # "up"
      BY <2>2, <2>4 DEF IInv, WorkConserving, Ended
    <3>. QED
      BY <2>1, <3>1, <1>0 DEF FifoInv, FifoDelivery
  <2>. QED
    BY <2>3, <2>4
<1>. QED
  BY <1>1, <1>2, <1>3

LEMMA NextFifo == IInv /\ FifoInv /\ [Next]_vars => FifoInv'
<1>. SUFFICES ASSUME IInv, FifoInv, [Next]_vars PROVE FifoInv'
  OBVIOUS
<1>q. ASSUME UNCHANGED <<queue, nextTaskId, posted>> PROVE FifoInv'
  BY <1>q DEF FifoInv, FifoDelivery
<1>1. CASE UNCHANGED vars
  BY <1>1, <1>q DEF vars, poolVars, threadVars
<1>2. CASE Run
  BY <1>2, CallKeepsOrder DEF Run
<1>3. CASE Close
  <2>1. queue' = <<>> /\ UNCHANGED <<nextTaskId, posted>>
    BY <1>3 DEF Close, threadVars
  <2>2. Range(queue)' = {}
    BY <2>1 DEF Range
  <2>. QED
    BY <2>1, <2>2 DEF FifoInv, FifoDelivery
<1>4. CASE CloseEnds
  BY <1>4, <1>q DEF CloseEnds, threadVars
<1>5. ASSUME NEW w \in Workers, WorkerStep(w) PROVE FifoInv'
  <2>1. CASE TaskMessage(w)
    <3>1. pool = "open" /\ nextTaskId' = nextTaskId
      BY <2>1 DEF TaskMessage, Received, IInv, ClosedHoldsNothing
    <3>2. PICK throws \in BOOLEAN :
            DrainQueue(order, [active EXCEPT ![w] = NoTask], tasks \ {Head(outbox[w]).task},
                       timers \ TimersOf(Head(outbox[w]).task), thread, throws)
      BY <2>1 DEF TaskMessage, MessageThrows, EmitErrorThrows
    <3>. QED
      BY <3>1, <3>2, DrainKeepsOrder
  <2>2. CASE WorkerExitRespawn(w)
    <3>1. pool = "open" /\ nextTaskId' = nextTaskId
      BY <2>2 DEF WorkerExitRespawn, Exited
    <3>2. DrainQueue(order', [active EXCEPT ![w] = NoTask], tasks \ ExitTask(w),
                     TimersAfterExit(w), thread', FALSE)
      BY <2>2 DEF WorkerExitRespawn
    <3>. QED
      BY <3>1, <3>2, DrainKeepsOrder
  <2>5. CASE ReportedRespawn(w)
    <3>1. nextTaskId' = nextTaskId /\ DrainQueue(order', active, tasks, timers, thread', FALSE)
      BY <2>5 DEF ReportedRespawn
    <3>2. CASE pool = "open"
      BY <3>1, <3>2, DrainKeepsOrder
    <3>3. CASE pool # "open"
      <4>1. queue = <<>> /\ Len(queue) = 0
        BY <3>3, EmptySeq DEF IInv, ClosedHoldsNothing
      <4>2. PICK n \in 0 .. Len(queue) :
              /\ queue' = SubSeq(queue, n + 1, Len(queue))
              /\ \A u \in posted' : u \in posted \/ \E i \in 1 .. n : u = queue[i]
        BY <3>1, DrainPosts DEF IInv
      <4>3. DOMAIN queue' = 1 .. Len(queue') /\ Len(queue') = Len(queue) - n /\ n = 0
        BY <4>1, <4>2, RestOfQueue DEF IInv, TypeOK
      <4>4. Range(queue)' = {} /\ posted' \subseteq posted
        BY <4>1, <4>2, <4>3 DEF Range
      <4>. QED
        BY <3>1, <4>4 DEF FifoInv, FifoDelivery
    <3>. QED
      BY <3>2, <3>3
  <2>3. CASE StaleMessage(w) \/ WorkerExitReported(w) \/ WorkerExitThrows(w)
             \/ WorkerExitClosing(w) \/ ShutDown(w) \/ ThreadDies(w)
    BY <2>3, <1>q
    DEF StaleMessage, Received, WorkerExitReported, WorkerExitThrows, WorkerExitClosing,
        LeavesMap, Exited, ShutDown, ThreadDies, poolVars
  <2>4. ASSUME NEW t \in Tasks, TaskTimeout(w, t) \/ PostAnswer(w, t) PROVE FifoInv'
    BY <2>4, <1>q DEF TaskTimeout, PostAnswer, poolVars
  <2>. QED
    BY <1>5, <2>1, <2>2, <2>3, <2>4, <2>5 DEF WorkerStep
<1>. QED
  BY <1>1, <1>2, <1>3, <1>4, <1>5 DEF Next

\* Threads get the tasks in the order of the calls: what has reached one was submitted
\* before all that waits.
THEOREM FirstInFirstOut == Spec => []FifoDelivery
<1>1. Init => FifoInv
  BY DEF Init, FifoInv, FifoDelivery
<1>2. FifoInv => FifoDelivery
  BY DEF FifoInv
<1>. QED
  BY <1>1, <1>2, NextFifo, SpecIInv, PTL DEF Spec

-----------------------------------------------------------------------------
(* The pool implements the task service.                                   *)

\* What the promises say, as a function of the calls and of what was made of them.
Outcome(next, cls) ==
  [t \in Tasks |-> IF ~(t < next) THEN "uncalled"
                   ELSE IF cls[t] = <<>> THEN "pending" ELSE cls[t][1]]

LEMMA OutcomeIs ==
  /\ [t \in Tasks |-> Promise(t)] = Outcome(nextTaskId, calls)
  /\ [t \in Tasks |-> Promise(t)]' = Outcome(nextTaskId', calls')
BY DEF Outcome, Promise, Accepted

\* The first settlement of a promise is the one that its holder sees.
LEMMA FirstCounts ==
  ASSUME TypeOK, NEW t \in Tasks, NEW o \in Outcomes
  PROVE  /\ Append(calls[t], o) # <<>>
         /\ Append(calls[t], o)[1] = IF calls[t] = <<>> THEN o ELSE calls[t][1]
<1>1. calls[t] \in Seq(Outcomes)
  BY DEF TypeOK
<1>2. /\ Len(calls[t]) \in Nat
      /\ calls[t] = <<>> <=> Len(calls[t]) = 0
      /\ Len(Append(calls[t], o)) = Len(calls[t]) + 1
      /\ \A i \in 1 .. Len(calls[t]) : Append(calls[t], o)[i] = calls[t][i]
      /\ Append(calls[t], o)[Len(calls[t]) + 1] = o
  BY <1>1, LenProperties, AppendProperties, EmptySeq
<1>3. CASE calls[t] = <<>>
  BY <1>2, <1>3
<1>4. CASE calls[t] # <<>>
  <2>1. 1 \in 1 .. Len(calls[t])
    BY <1>2, <1>4
  <2>. QED
    BY <2>1, <1>2, <1>4
<1>. QED
  BY <1>3, <1>4

\* A step that settles no promise, and neither calls nor closes, is a stutter.
LEMMA NoAnswer ==
  ASSUME (pool = "open") = (pool' = "open"), calls' = calls, nextTaskId' = nextTaskId
  PROVE  UNCHANGED Service!vars
<1>1. [t \in Tasks |-> Promise(t)]' = [t \in Tasks |-> Promise(t)]
  BY OutcomeIs
<1>. QED
  BY <1>1 DEF Service!vars

\* A settlement by an open pool is an answer, or comes too late to be seen.
LEMMA OneAnswer ==
  ASSUME TypeOK, pool = "open", pool' = "open", nextTaskId' = nextTaskId,
         NEW t \in Tasks, t < nextTaskId,
         NEW o \in {"resolved", "failed", "timeout", "exited"}, calls' = Settle(t, o)
  PROVE  Service!Answer(t) \/ UNCHANGED Service!vars
<1>1. calls \in [Tasks -> Seq(Outcomes)] /\ o \in Outcomes
  BY DEF TypeOK, Outcomes
<1>2. \A u \in Tasks : calls'[u] = IF u = t THEN Append(calls[t], o) ELSE calls[u]
  BY <1>1 DEF Settle
<1>3. /\ calls'[t] # <<>>
      /\ calls'[t][1] = IF calls[t] = <<>> THEN o ELSE calls[t][1]
  BY <1>1, <1>2, FirstCounts
<1>4. CASE calls[t] = <<>>
  <2>1. Outcome(nextTaskId', calls') = [Outcome(nextTaskId, calls) EXCEPT ![t] = o]
    BY <1>2, <1>3, <1>4 DEF Outcome
  <2>2. Outcome(nextTaskId, calls)[t] = "pending"
    BY <1>4 DEF Outcome
  <2>3. o \in Service!Answers
    BY DEF Service!Answers
  <2>4. [u \in Tasks |-> Promise(u)]' = [[u \in Tasks |-> Promise(u)] EXCEPT ![t] = o]
    BY <2>1, OutcomeIs
  <2>5. [u \in Tasks |-> Promise(u)][t] = "pending"
    BY <2>2, OutcomeIs
  <2>6. (pool = "open")' = (pool = "open")
    OBVIOUS
  <2>7. Service!Answer(t)
    BY <2>3, <2>4, <2>5, <2>6 DEF Service!Answer
  <2>. QED
    BY <2>7
<1>5. CASE calls[t] # <<>>
  <2>1. Outcome(nextTaskId', calls') = Outcome(nextTaskId, calls)
    BY <1>2, <1>3, <1>5 DEF Outcome
  <2>2. [u \in Tasks |-> Promise(u)]' = [u \in Tasks |-> Promise(u)]
    BY <2>1, OutcomeIs
  <2>. QED
    BY <2>2 DEF Service!vars
<1>. QED
  BY <1>4, <1>5

\* A call of run() is answered at once, or left pending.
LEMMA CallSubmits ==
  ASSUME IInv, NEW call \in Calls,
         RunRefused(call) \/ RunQueued(call) \/ RunStarted(call)
  PROVE  \E t \in Tasks : Service!Submit(t)
<1>. DEFINE t == nextTaskId
<1>0. /\ t \in Nat /\ t \in Tasks /\ nextTaskId' = t + 1 /\ pool' = pool
      /\ calls \in [Tasks -> Seq(Outcomes)]
      /\ calls[t] = <<>>
  BY DEF RunRefused, RunQueued, RunStarted, Call, Tasks, IInv, TypeOK, UncalledUnsettled
<1>1. ASSUME NEW o, o \in IF pool = "open" THEN {"pending", "full", "uncloneable"} ELSE {"refused"},
             Outcome(t + 1, calls') = [Outcome(t, calls) EXCEPT ![t] = o]
      PROVE  Service!Submit(t)
  <2>1. [u \in Tasks |-> Promise(u)][t] = "uncalled"
    BY <1>0, OutcomeIs DEF Outcome
  <2>2. [u \in Tasks |-> Promise(u)]' = [[u \in Tasks |-> Promise(u)] EXCEPT ![t] = o]
    BY <1>0, <1>1, OutcomeIs
  <2>3. (pool = "open")' = (pool = "open")
    BY <1>0
  <2>. QED
    BY <1>1, <2>1, <2>2, <2>3 DEF Service!Submit
<1>2. ASSUME NEW o \in Outcomes, calls' = Settle(t, o)
      PROVE  Outcome(t + 1, calls') = [Outcome(t, calls) EXCEPT ![t] = o]
  <2>1. /\ \A u \in Tasks : calls'[u] = IF u = t THEN Append(calls[t], o) ELSE calls[u]
    BY <1>0, <1>2 DEF Settle
  <2>2. calls'[t] # <<>> /\ calls'[t][1] = o
    BY <1>0, <2>1, FirstCounts DEF IInv
  <2>3. \A u \in Tasks : u # t => (u < t + 1 <=> u < t)
    BY <1>0 DEF Tasks
  <2>4. t < t + 1 /\ ~(t < t)
    BY <1>0
  <2>5. \A u \in Tasks : u # t => Outcome(t + 1, calls')[u] = Outcome(t, calls)[u]
    BY <2>1, <2>3 DEF Outcome
  <2>6. Outcome(t + 1, calls')[t] = o
    BY <1>0, <2>2, <2>4 DEF Outcome
  <2>. QED
    BY <1>0, <2>5, <2>6 DEF Outcome
<1>3. ASSUME calls' = calls
      PROVE  Outcome(t + 1, calls') = [Outcome(t, calls) EXCEPT ![t] = "pending"]
  <2>1. \A u \in Tasks : u # t => (u < t + 1 <=> u < t)
    BY <1>0 DEF Tasks
  <2>2. t < t + 1
    BY <1>0
  <2>3. \A u \in Tasks : u # t => Outcome(t + 1, calls')[u] = Outcome(t, calls)[u]
    BY <1>3, <2>1 DEF Outcome
  <2>4. Outcome(t + 1, calls')[t] = "pending"
    BY <1>0, <1>3, <2>2 DEF Outcome
  <2>. QED
    BY <1>0, <2>3, <2>4 DEF Outcome
<1>4. CASE RunRefused(call)
  <2>1. \/ pool # "open" /\ calls' = Settle(t, "refused")
        \/ pool = "open" /\ calls' = Settle(t, "full")
    BY <1>4 DEF RunRefused
  <2>. QED
    BY <1>0, <1>1, <1>2, <2>1 DEF Outcomes
<1>5. CASE RunQueued(call)
  BY <1>0, <1>1, <1>3, <1>5 DEF RunQueued
<1>6. CASE RunStarted(call)
  <2>1. pool = "open" /\ (calls' = calls \/ calls' = Settle(t, "uncloneable"))
    BY <1>6 DEF RunStarted
  <2>. QED
    BY <1>0, <1>1, <1>2, <1>3, <2>1 DEF Outcomes
<1>. QED
  BY <1>4, <1>5, <1>6

\* close() rejects all that is pending, and changes no other promise.
LEMMA CloseCloses ==
  ASSUME IInv, Close
  PROVE  Service!Close
<1>1. /\ pool = "open" /\ pool' = "closing" /\ nextTaskId' = nextTaskId
      /\ calls' = [t \in Tasks |-> IF t \in tasks \cup Range(queue)
                                   THEN Append(calls[t], "closed") ELSE calls[t]]
  BY DEF Close, OwedAtClose
<1>2. \A t \in Tasks : t < nextTaskId /\ calls[t] = <<>> => t \in tasks \cup Range(queue)
  BY <1>1 DEF IInv, Ledger, NoneForgotten
<1>3. "closed" \in Outcomes
  BY DEF Outcomes
<1>4. ASSUME NEW t \in Tasks
      PROVE  Outcome(nextTaskId', calls')[t] =
               IF Outcome(nextTaskId, calls)[t] = "pending" THEN "closed"
               ELSE Outcome(nextTaskId, calls)[t]
  <2>1. CASE ~(t < nextTaskId)
    BY <1>1, <2>1 DEF Outcome
  <2>2. CASE t < nextTaskId /\ t \in tasks \cup Range(queue)
    <3>1. calls'[t] = Append(calls[t], "closed")
      BY <1>1, <2>2
    <3>2. /\ calls'[t] # <<>>
          /\ calls'[t][1] = IF calls[t] = <<>> THEN "closed" ELSE calls[t][1]
      BY <3>1, <1>3, FirstCounts DEF IInv
    <3>3. calls[t] # <<>> => calls[t][1] # "pending"
      <4>. SUFFICES ASSUME calls[t] # <<>> PROVE calls[t][1] \in Outcomes
        BY DEF Outcomes
      <4>1. calls[t] \in Seq(Outcomes)
        BY DEF IInv, TypeOK
      <4>2. Len(calls[t]) \in Nat /\ Len(calls[t]) # 0
        BY <4>1, LenProperties, EmptySeq
      <4>. QED
        BY <4>1, <4>2, ElementOfSeq
    <3>. QED
      BY <1>1, <2>2, <3>2, <3>3 DEF Outcome
  <2>3. CASE t < nextTaskId /\ t \notin tasks \cup Range(queue)
    <3>1. calls'[t] = calls[t] /\ calls[t] # <<>>
      BY <1>1, <1>2, <2>3
    <3>3. calls[t][1] # "pending"
      <4>1. calls[t] \in Seq(Outcomes)
        BY DEF IInv, TypeOK
      <4>2. Len(calls[t]) \in Nat /\ Len(calls[t]) # 0
        BY <3>1, <4>1, LenProperties, EmptySeq
      <4>3. calls[t][1] \in Outcomes
        BY <4>1, <4>2, ElementOfSeq
      <4>. QED
        BY <4>3 DEF Outcomes
    <3>. QED
      BY <1>1, <2>3, <3>1, <3>3 DEF Outcome
  <2>. QED
    BY <2>1, <2>2, <2>3
<1>5. Outcome(nextTaskId', calls') =
        [t \in Tasks |-> IF Outcome(nextTaskId, calls)[t] = "pending" THEN "closed"
                         ELSE Outcome(nextTaskId, calls)[t]]
  BY <1>4 DEF Outcome
<1>. QED
  BY <1>1, <1>5, OutcomeIs DEF Service!Close

\* A step of a worker answers one promise at most.
LEMMA WorkerAnswers ==
  ASSUME IInv, NEW w \in Workers, WorkerStep(w)
  PROVE  Service!Next \/ UNCHANGED Service!vars
<1>s. (\E t \in Tasks : Service!Answer(t)) => Service!Next
  BY DEF Service!Next
<1>a. ASSUME NEW t \in tasks, NEW o \in {"resolved", "failed", "timeout", "exited"},
             calls' = Settle(t, o), pool' = pool, nextTaskId' = nextTaskId
      PROVE  Service!Next \/ UNCHANGED Service!vars
  <2>1. pool = "open"
    BY DEF IInv, ClosedHoldsNothing
  <2>2. t \in Tasks /\ t < nextTaskId
    BY <2>1 DEF IInv, TypeOK, Ledger, TasksHeld
  <2>. QED
    BY <1>a, <1>s, <2>1, <2>2, OneAnswer DEF IInv
<1>n. ASSUME UNCHANGED <<pool, calls, nextTaskId>> PROVE UNCHANGED Service!vars
  BY <1>n, NoAnswer
<1>1. CASE TaskMessage(w)
  BY <1>1, <1>a DEF TaskMessage, Received
<1>2. CASE WorkerExitRespawn(w) \/ WorkerExitReported(w) \/ WorkerExitClosing(w)
  <2>1. ExitSettles(w) /\ UNCHANGED <<pool, nextTaskId>>
    BY <1>2 DEF WorkerExitRespawn, WorkerExitReported, WorkerExitClosing, LeavesMap, Exited
  <2>2. CASE ExitTask(w) = {}
    BY <2>1, <2>2, <1>n, ExitWithoutTask DEF IInv
  <2>3. CASE ExitTask(w) # {}
    <3>1. active[w] \in tasks /\ ExitTask(w) = {active[w]}
      BY <2>3 DEF ExitTask
    <3>2. calls' = Settle(active[w], "exited")
      <4>1. calls \in [Tasks -> Seq(Outcomes)]
        BY DEF IInv, TypeOK
      <4>. QED
        BY <4>1, <2>1, <3>1 DEF ExitSettles, Settle
    <3>. QED
      BY <2>1, <3>1, <3>2, <1>a
  <2>. QED
    BY <2>2, <2>3
<1>3. CASE StaleMessage(w) \/ ReportedRespawn(w) \/ WorkerExitThrows(w)
           \/ ShutDown(w) \/ ThreadDies(w)
  BY <1>3, <1>n
  DEF StaleMessage, Received, ReportedRespawn, WorkerExitThrows, Exited, ShutDown,
      ThreadDies, poolVars
<1>4. ASSUME NEW t \in Tasks, TaskTimeout(w, t) \/ PostAnswer(w, t)
      PROVE  Service!Next \/ UNCHANGED Service!vars
  BY <1>4, <1>n, <1>a DEF TaskTimeout, PostAnswer, poolVars
<1>. QED
  BY <1>1, <1>2, <1>3, <1>4 DEF WorkerStep

LEMMA NextServes == IInv /\ [Next]_vars => [Service!Next]_Service!vars
<1>. SUFFICES ASSUME IInv, [Next]_vars PROVE Service!Next \/ UNCHANGED Service!vars
  OBVIOUS
<1>1. CASE UNCHANGED vars
  BY <1>1, NoAnswer DEF vars, poolVars
<1>2. CASE Run
  BY <1>2, CallSubmits DEF Run, Service!Next
<1>3. CASE Close
  BY <1>3, CloseCloses DEF Service!Next
<1>4. CASE CloseEnds
  BY <1>4, NoAnswer DEF CloseEnds
<1>5. CASE \E w \in Workers : WorkerStep(w)
  BY <1>5, WorkerAnswers
<1>. QED
  BY <1>1, <1>2, <1>3, <1>4, <1>5 DEF Next

LEMMA InitServes == Init => Service!Init
<1>. SUFFICES ASSUME Init PROVE Service!Init
  OBVIOUS
<1>1. /\ pool = "open" /\ nextTaskId = 1 /\ \A t \in Tasks : t \in Nat /\ t >= 1
  BY WorkerPoolAssumption DEF Init, FirstTaskId, Tasks
<1>2. \A t \in Tasks : Promise(t) = "uncalled"
  BY <1>1 DEF Promise, Accepted
<1>. QED
  BY <1>1, <1>2 DEF Service!Init

\* The pool implements the task service: whatever the interleaving of calls, answers,
\* timeouts, exits and close(), each promise goes from pending to one outcome.
THEOREM ServiceImplemented == Spec => ImplementsTaskService
BY InitServes, NextServes, SpecIInv, PTL DEF Spec, ImplementsTaskService, Service!Spec
=============================================================================
