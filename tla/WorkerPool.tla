----------------------------- MODULE WorkerPool -----------------------------
(***************************************************************************)
(* KenoWorkerPool (src/internal/concurrency/worker-pool.ts): a fixed set   *)
(* of worker threads, a bounded queue in front of them, a timer per task,  *)
(* and a respawn of every thread that exits.                               *)
(*                                                                         *)
(* Each action is one turn of the main thread's event loop (a call of      *)
(* run() or close(), a timer, a message, an exit event), which JavaScript  *)
(* never interrupts, or one step of a worker thread, which runs in         *)
(* parallel.  What crosses the two is in given, outbox and thread.         *)
(***************************************************************************)
EXTENDS Integers, Sequences, SequencesExt

CONSTANTS
  Size,              \* number of worker threads (options.size)
  MaxQueue,          \* options.maxQueue
  MaxTasks,          \* bound: calls of run() in one behaviour
  Calls,             \* what a call of run() may pass: is there a timeout, and
                     \* does postMessage throw a DataCloneError on the payload?
  Deaths,            \* how a thread may end on its own: the entry calls
                     \* process.exit(0) ("zero") or with another code
                     \* ("nonzero"), or throws outside of a task ("failed")
  HasErrorListener   \* may the application listen to "error" on the pool when it
                     \* is emitted, may it not?

ASSUME WorkerPoolAssumption ==
  /\ Size \in Nat \ {0}
  /\ MaxQueue \in Nat
  /\ MaxTasks \in Nat
  /\ Calls \subseteq [timeout : BOOLEAN, cloneable : BOOLEAN]
  /\ Deaths \subseteq {"zero", "nonzero", "failed"}
  /\ HasErrorListener \subseteq BOOLEAN

Workers == 0 .. Size - 1
Tasks == 1 .. MaxTasks
NoTask == 0
NoWorker == -1

VARIABLES
  pool,        \* "open"; "closing" once close() ran; "closed" when it is over
  nextTaskId,  \* id of the next call of run()
  opts,        \* what the caller passed with each task
  queue,       \* accepted tasks no worker has
  order,       \* keys of the states Map, in the Map's iteration order
  active,      \* activeTaskId of each worker: NoTask when undefined
  tasks,       \* keys of the tasks Map
  timers,      \* armed timeouts, as <<worker, task>> of the closure
  calls,       \* the resolve/reject calls made on each task's promise
  reporting,   \* the worker whose exit handler is in emit("error"), or NoWorker
  awaited,     \* workers whose exit close() waits for
  thread,      \* each worker's thread: "up", ended, or "none"
  given,       \* tasks posted to a live thread, which it has not answered
  outbox,      \* messages a thread posted, not yet delivered
  posted,      \* history: tasks ever posted to a live thread
  crashed      \* did an exception end the process?

poolVars == <<pool, nextTaskId, opts, queue, order, active, tasks, timers, calls,
              reporting, awaited>>
threadVars == <<thread, given, outbox, posted>>
vars == <<poolVars, threadVars, crashed>>

(***************************************************************************)
(* Ways a promise of run() is settled, and ways a thread has ended: with   *)
(* exit code 0 or another code, terminated by the pool (code 1), or by an  *)
(* uncaught exception (an "error" event, then code 1).  The exit event of  *)
(* an ended thread is still to be handled.                                 *)
(***************************************************************************)
Outcomes == {"resolved", "failed", "timeout", "exited", "refused",
             "full", "closed", "uncloneable"}
Ended == {"zero", "nonzero", "terminated", "failed"}

TypeOK ==
  /\ pool \in {"open", "closing", "closed"}
  /\ nextTaskId \in 1 .. MaxTasks + 1
  /\ opts \in [Tasks -> [timeout : BOOLEAN, cloneable : BOOLEAN]]
  /\ queue \in Seq(Tasks)
  /\ order \in Seq(Workers)
  /\ active \in [Workers -> Tasks \cup {NoTask}]
  /\ tasks \subseteq Tasks
  /\ timers \subseteq Workers \X Tasks
  /\ calls \in [Tasks -> Seq(Outcomes)]
  /\ reporting \in Workers \cup {NoWorker}
  /\ awaited \subseteq Workers
  /\ thread \in [Workers -> {"up", "none"} \cup Ended]
  /\ given \in [Workers -> SUBSET Tasks]
  /\ outbox \in [Workers -> Seq([type : {"result", "error"}, task : Tasks])]
  /\ posted \subseteq Tasks
  /\ crashed \in BOOLEAN

-----------------------------------------------------------------------------
\* No handler is on the stack: emit("error") in an exit handler runs the
\* application's listener, which may call run() and close(), in the middle of it.
TurnOver == reporting = NoWorker

\* A worker with no active task; in the code busy is always set with
\* activeTaskId, so one variable stands for both.
Idle(w) == active[w] = NoTask

HasIdleWorker == \E i \in DOMAIN order : Idle(order[i])

\* getIdleWorker: the first idle worker in the Map's order.
IdleWorker ==
  order[CHOOSE i \in DOMAIN order :
          /\ Idle(order[i])
          /\ \A j \in 1 .. i - 1 : ~Idle(order[j])]

QueueFull == Len(queue) >= MaxQueue

Cloneable(t) == opts[t].cloneable

Settle(t, outcome) == [calls EXCEPT ![t] = Append(@, outcome)]

\* emit("error") without a listener throws out of the event handler, and the
\* uncaught exception ends the process.
EmitErrorThrows == {~heard : heard \in HasErrorListener}
MessageThrows(m) == IF m.type = "error" THEN EmitErrorThrows ELSE {FALSE}

\* Mutant: clearTimeout is forgotten.
TimersOf_None(t) == {}

TimersOf(t) == {x \in timers : x[2] = t}

\* Mutant: handlers do not drain the queue.
Handouts_None(ord, act) == {<<>>}

(***************************************************************************)
(* The workers drainQueue hands the first queued tasks to, given the Map's *)
(* order, the active tasks and the queue: hand[i] is the place in the      *)
(* order of the worker that gets the i-th queued task.  The idle workers   *)
(* are taken in order until the workers or the tasks run out.              *)
(***************************************************************************)
Handouts(ord, act) ==
  {hand \in UNION {[1 .. n -> DOMAIN ord] : n \in 0 .. Len(queue)} :
     /\ \A i \in DOMAIN hand : act[ord[hand[i]]] = NoTask
     /\ \A i, j \in DOMAIN hand : i < j => hand[i] < hand[j]
     /\ \A k \in DOMAIN ord :
          act[ord[k]] = NoTask =>
            \/ \E i \in DOMAIN hand : hand[i] = k
            \/ /\ DOMAIN hand = DOMAIN queue
               /\ \A i \in DOMAIN hand : hand[i] < k}

(***************************************************************************)
(* drainQueue, with startTask for each task handed out, run at the end of  *)
(* a handler that left the Map's order, the active tasks, the tasks Map,   *)
(* the timers and the threads at these values.  A task posted to a         *)
(* thread that has ended is lost with it.  When postMessage throws, or the *)
(* handler does after draining, the exception ends the process.            *)
(***************************************************************************)
DrainQueue(ord, act, tks, tms, thr, throws) ==
  \E hand \in Handouts(ord, act) :
    LET n == Len(hand)
        Got(w) == {i \in 1 .. n : ord[hand[i]] = w}
        Delivered(w) ==
          {queue[i] : i \in {j \in Got(w) : thr[w] = "up" /\ Cloneable(queue[j])}}
    IN  /\ queue' = SubSeq(queue, n + 1, Len(queue))
        /\ active' = [w \in Workers |->
                        IF Got(w) = {} THEN act[w]
                        ELSE queue[CHOOSE i \in Got(w) : TRUE]]
        /\ tasks' = tks \cup {queue[i] : i \in 1 .. n}
        /\ timers' = tms \cup {<<ord[hand[i]], queue[i]>> :
                                 i \in {j \in 1 .. n : opts[queue[j]].timeout}}
        /\ given' = [w \in Workers |-> given[w] \cup Delivered(w)]
        /\ posted' = posted \cup UNION {Delivered(w) : w \in Workers}
        /\ crashed' = (throws \/ \E i \in 1 .. n : ~Cloneable(queue[i]))

-----------------------------------------------------------------------------

FirstTaskId == 1

Init ==
  /\ pool = "open"
  /\ nextTaskId = FirstTaskId
  /\ opts = [t \in Tasks |-> [timeout |-> FALSE, cloneable |-> TRUE]]
  /\ queue = <<>>
  /\ order = [i \in 1 .. Size |-> i - 1]
  /\ active = [w \in Workers |-> NoTask]
  /\ tasks = {}
  /\ timers = {}
  /\ calls = [t \in Tasks |-> <<>>]
  /\ reporting = NoWorker
  /\ awaited = {}
  /\ thread = [w \in Workers |-> "up"]
  /\ given = [w \in Workers |-> {}]
  /\ outbox = [w \in Workers |-> <<>>]
  /\ posted = {}
  /\ crashed = FALSE

-----------------------------------------------------------------------------
(* The application calls run(payload, options), between two turns or from  *)
(* an "error" listener.  The code numbers only the calls it accepts; the   *)
(* model numbers every call, so as to record what becomes of the refused   *)
(* ones too.                                                               *)

Call(call) ==
  /\ nextTaskId \in Tasks
  /\ nextTaskId' = nextTaskId + 1
  /\ opts' = [opts EXCEPT ![nextTaskId] = call]
  /\ UNCHANGED <<pool, order, reporting, awaited, thread, outbox, crashed>>

RunRefused(call) ==
  /\ Call(call)
  /\ \/ /\ pool # "open"
        /\ calls' = Settle(nextTaskId, "refused")
     \/ /\ pool = "open"
        /\ QueueFull
        /\ ~HasIdleWorker
        /\ calls' = Settle(nextTaskId, "full")
  /\ UNCHANGED <<queue, active, tasks, timers, given, posted>>

RunQueued(call) ==
  /\ Call(call)
  /\ pool = "open"
  /\ ~HasIdleWorker
  /\ ~QueueFull
  /\ queue' = Append(queue, nextTaskId)
  /\ UNCHANGED <<calls, active, tasks, timers, given, posted>>

\* run() with an idle worker: startTask.  A throw of postMessage rejects the
\* promise and leaves the worker's state as it is by then.
RunStarted(call) ==
  /\ Call(call)
  /\ pool = "open"
  /\ HasIdleWorker
  /\ LET w == IdleWorker
         t == nextTaskId
     IN  /\ active' = [active EXCEPT ![w] = t]
         /\ tasks' = tasks \cup {t}
         /\ timers' = IF call.timeout THEN timers \cup {<<w, t>>} ELSE timers
         /\ calls' = IF call.cloneable THEN calls ELSE Settle(t, "uncloneable")
         /\ IF thread[w] = "up" /\ call.cloneable
            THEN /\ given' = [given EXCEPT ![w] = @ \cup {t}]
                 /\ posted' = posted \cup {t}
            ELSE UNCHANGED <<given, posted>>
  /\ UNCHANGED queue

-----------------------------------------------------------------------------
(* handleTaskMessage: the main thread gets the next message of worker w. A *)
(* message about a task that is no longer in the Map changes nothing; an   *)
(* error message is emitted in either case.                                *)

Received(w) ==
  /\ TurnOver
  /\ outbox[w] # <<>>
  /\ outbox' = [outbox EXCEPT ![w] = Tail(@)]
  /\ UNCHANGED <<pool, nextTaskId, opts, order, reporting, awaited, thread>>

TaskMessage(w) ==
  LET m == Head(outbox[w])
  IN  /\ Received(w)
      /\ m.task \in tasks
      /\ calls' = Settle(m.task, IF m.type = "result" THEN "resolved" ELSE "failed")
      /\ \E throws \in MessageThrows(m) :
           DrainQueue(order, [active EXCEPT ![w] = NoTask], tasks \ {m.task},
                      timers \ TimersOf(m.task), thread, throws)

StaleMessage(w) ==
  LET m == Head(outbox[w])
  IN  /\ Received(w)
      /\ m.task \notin tasks
      /\ crashed' \in MessageThrows(m)
      /\ UNCHANGED <<queue, active, tasks, timers, calls, given, posted>>

-----------------------------------------------------------------------------

\* The thread of w stops running JavaScript; its exit event is on its way.
EndThread(w, how) ==
  /\ thread' = [thread EXCEPT ![w] = how]
  /\ given' = [given EXCEPT ![w] = {}]

\* handleTaskTimeout, which makes the worker idle again and terminates its
\* thread.  The queue is not drained.
TaskTimeout(w, t) ==
  /\ TurnOver
  /\ <<w, t>> \in timers
  /\ timers' = timers \ {<<w, t>>}
  /\ IF t \in tasks
     THEN /\ tasks' = tasks \ {t}
          /\ active' = [active EXCEPT ![w] = NoTask]
          /\ calls' = Settle(t, "timeout")
          /\ IF thread[w] = "up" THEN EndThread(w, "terminated")
             ELSE UNCHANGED <<thread, given>>
     ELSE UNCHANGED <<tasks, active, calls, thread, given>>
  /\ UNCHANGED <<pool, nextTaskId, opts, queue, order, reporting, awaited, outbox,
                 posted, crashed>>

(***************************************************************************)
(* The "exit" event of worker w, which node delivers after the messages    *)
(* the thread had posted.  A pool that is not closing reports a bad exit,  *)
(* puts a new worker at the end of the Map and drains the queue.  The test *)
(* of closing comes before the report: a listener that closes the pool     *)
(* then is followed by the respawn of a worker that close() does not know. *)
(***************************************************************************)
PlaceOf(w) == CHOOSE i \in DOMAIN order : order[i] = w

\* The Map without worker w.
Deleted(w) == IF w \in Range(order) THEN RemoveAt(order, PlaceOf(w)) ELSE order

ExitTask(w) == {active[w]} \cap tasks

\* Mutant: the active task is dropped without a rejection.
ExitSettles_Forgets(w) == calls' = calls

ExitSettles(w) ==
  calls' = [t \in Tasks |-> IF t \in ExitTask(w)
                            THEN Append(calls[t], "exited") ELSE calls[t]]

Exited(w) ==
  /\ TurnOver
  /\ thread[w] \in Ended
  /\ outbox[w] = <<>>
  /\ UNCHANGED <<pool, nextTaskId, opts, awaited, outbox>>

TimersAfterExit(w) == {x \in timers : x[2] \notin ExitTask(w)}

\* The worker leaves the Map, and its task is rejected.
LeavesMap(w) ==
  /\ ExitSettles(w)
  /\ order' = Deleted(w)
  /\ thread' = [thread EXCEPT ![w] = "none"]
  /\ active' = [active EXCEPT ![w] = NoTask]
  /\ tasks' = tasks \ ExitTask(w)
  /\ timers' = TimersAfterExit(w)
  /\ UNCHANGED <<queue, given, posted, crashed>>

WorkerExitRespawn(w) ==
  /\ pool = "open"
  /\ thread[w] = "zero"
  /\ Exited(w)
  /\ ExitSettles(w)
  /\ order' = Append(Deleted(w), w)
  /\ thread' = [thread EXCEPT ![w] = "up"]
  /\ DrainQueue(order', [active EXCEPT ![w] = NoTask], tasks \ ExitTask(w),
                TimersAfterExit(w), thread', FALSE)
  /\ UNCHANGED reporting

\* A bad exit, up to emit("error"), and the rest of the handler.
WorkerExitReported(w) ==
  /\ pool = "open"
  /\ thread[w] # "zero"
  /\ FALSE \in EmitErrorThrows
  /\ Exited(w)
  /\ LeavesMap(w)
  /\ reporting' = w

ReportedRespawn(w) ==
  /\ reporting = w
  /\ reporting' = NoWorker
  /\ order' = Append(order, w)
  /\ thread' = [thread EXCEPT ![w] = "up"]
  /\ DrainQueue(order', active, tasks, timers, thread', FALSE)
  /\ UNCHANGED <<pool, nextTaskId, opts, calls, awaited, outbox>>

WorkerExitThrows(w) ==
  /\ \/ pool = "open" /\ thread[w] # "zero"
     \/ thread[w] = "failed"
  /\ TRUE \in EmitErrorThrows
  /\ Exited(w)
  /\ crashed' = TRUE
  /\ UNCHANGED <<queue, order, active, tasks, timers, calls, reporting, thread,
                 given, posted>>

WorkerExitClosing(w) ==
  /\ pool # "open"
  /\ thread[w] = "failed" => FALSE \in EmitErrorThrows
  /\ Exited(w)
  /\ LeavesMap(w)
  /\ UNCHANGED reporting

-----------------------------------------------------------------------------
\* Mutant: close() forgets the queue.
OwedAtClose_TasksOnly == tasks

OwedAtClose == tasks \cup Range(queue)

\* close(), up to its await: every promise is rejected, every timer cleared,
\* and the threads in the Map are told to shut down.  The workers' states stay.
Close ==
  /\ pool = "open"
  /\ pool' = "closing"
  /\ queue' = <<>>
  /\ tasks' = {}
  /\ timers' = {x \in timers : x[2] \notin tasks}
  /\ calls' = [t \in Tasks |->
                 IF t \in OwedAtClose
                 THEN Append(calls[t], "closed") ELSE calls[t]]
  /\ awaited' = Range(order)
  /\ UNCHANGED <<nextTaskId, opts, order, active, reporting, threadVars, crashed>>

\* Mutant: a thread that is busy is not terminated after the grace period.
ShutDown_NoTerminate(w) ==
  /\ w \in awaited
  /\ thread[w] = "up"
  /\ given[w] = {}
  /\ EndThread(w, "zero")
  /\ UNCHANGED <<poolVars, outbox, posted, crashed>>

\* A thread exits on the shutdown message, or is terminated a second later.
ShutDown(w) ==
  /\ w \in awaited
  /\ thread[w] = "up"
  /\ \E how \in {"zero", "terminated"} : EndThread(w, how)
  /\ UNCHANGED <<poolVars, outbox, posted, crashed>>

\* Every worker that was told has exited: the end of close().
CloseEnds ==
  /\ TurnOver
  /\ pool = "closing"
  /\ \A w \in awaited : thread[w] = "none"
  /\ pool' = "closed"
  /\ order' = <<>>
  /\ UNCHANGED <<nextTaskId, opts, queue, active, tasks, timers, calls,
                 reporting, awaited, threadVars, crashed>>

-----------------------------------------------------------------------------
(* The worker thread: WORKER_SOURCE, and what the entry's function does.   *)

PostAnswer(w, t) ==
  /\ t \in given[w]
  /\ given' = [given EXCEPT ![w] = @ \ {t}]
  /\ \E type \in {"result", "error"} :
       outbox' = [outbox EXCEPT ![w] = Append(@, [type |-> type, task |-> t])]
  /\ UNCHANGED <<poolVars, thread, posted, crashed>>

\* The thread ends on its own, whatever it was doing.
ThreadDies(w) ==
  /\ thread[w] = "up"
  /\ \E how \in Deaths : EndThread(w, how)
  /\ UNCHANGED <<poolVars, outbox, posted, crashed>>

-----------------------------------------------------------------------------
Run ==
  \E call \in Calls :
    \/ RunRefused(call)
    \/ RunQueued(call)
    \/ RunStarted(call)

WorkerStep(w) ==
  \/ TaskMessage(w)
  \/ StaleMessage(w)
  \/ WorkerExitRespawn(w)
  \/ WorkerExitReported(w)
  \/ ReportedRespawn(w)
  \/ WorkerExitThrows(w)
  \/ WorkerExitClosing(w)
  \/ ShutDown(w)
  \/ ThreadDies(w)
  \/ \E t \in Tasks : TaskTimeout(w, t) \/ PostAnswer(w, t)

Next ==
  /\ ~crashed
  /\ Run \/ Close \/ CloseEnds \/ \E w \in Workers : WorkerStep(w)

Spec == Init /\ [][Next]_vars

-----------------------------------------------------------------------------
(* Fairness.  The event loop runs every timer and delivers every message   *)
(* and exit event, though a turn may find another worker's exit handler at *)
(* work, time and again: strong fairness.  close() is followed by the      *)
(* shutdown or, after a second, by terminate().  Nothing says that a       *)
(* task's function returns: only those of the tasks without a timeout are  *)
(* assumed to, and only if their thread got them.                          *)

EventLoop(w) ==
  \/ TaskMessage(w) \/ StaleMessage(w)
  \/ WorkerExitRespawn(w) \/ WorkerExitReported(w) \/ WorkerExitThrows(w)
  \/ WorkerExitClosing(w)

Fairness ==
  /\ WF_vars(~crashed /\ CloseEnds)
  /\ \A w \in Workers :
       /\ WF_vars(~crashed /\ ReportedRespawn(w))
       /\ SF_vars(~crashed /\ EventLoop(w))
       /\ WF_vars(~crashed /\ ShutDown(w))
       /\ \A t \in Tasks :
            /\ SF_vars(~crashed /\ TaskTimeout(w, t))
            /\ WF_vars(~crashed /\ ~opts[t].timeout /\ PostAnswer(w, t))

FairSpec == Spec /\ Fairness

-----------------------------------------------------------------------------
Accepted(t) == t < nextTaskId

\* The tasks a thread still owes an answer for.
InThread(w) == given[w] \cup {m.task : m \in Range(outbox[w])}

\* No call of run() is forgotten: a promise that is not settled is that of a
\* queued task or of the active task of a worker, and in one place only.
PendingAccounted ==
  \A t \in Tasks :
    Accepted(t) /\ calls[t] = <<>> =>
      \/ t \in Range(queue) /\ t \notin tasks
      \/ /\ t \in tasks /\ t \notin Range(queue)
         /\ \E w \in Range(order) : active[w] = t

\* A promise is settled by one call: the timeout, the answer, the exit event
\* and close() never both reach the same task.  (A payload that cannot be
\* cloned is the exception: its task stays in the Map after the rejection.)
SettledOnce ==
  \A t \in Tasks : Cloneable(t) => Len(calls[t]) <= 1

\* An armed timer is that of the task its worker is on: clearTimeout is
\* called on every path that ends a task, so a late timer never terminates a
\* worker that has moved on to another task.
TimersMatchActive ==
  \A x \in timers : x[2] \in tasks /\ active[x[1]] = x[2]

\* While a task waits, every worker that looks idle is one whose thread has
\* been stopped by a timeout and whose exit event, which drains the queue, is
\* still to come: no live worker idles beside a queued task.
WorkConserving ==
  queue # <<>> =>
    \A w \in Range(order) : Idle(w) => thread[w] \in Ended

\* maxQueue bounds the waiting tasks, through every drain and respawn.
QueueBounded == Len(queue) <= MaxQueue

\* First in, first out: no task that ever reached a live thread was submitted
\* after a task that still waits.  (run() does pass over the queue after a
\* timeout, but only to a worker whose thread has ended.)
FifoDelivery ==
  \A t \in Range(queue) : \A u \in posted : u < t

\* A pool that is closing owes nobody an answer.
ClosedOwesNothing ==
  pool # "open" => \A t \in Tasks : Accepted(t) => calls[t] # <<>>

\* The promises as their holders see them: the first settlement counts.
Promise(t) ==
  IF ~Accepted(t) THEN "uncalled"
  ELSE IF calls[t] = <<>> THEN "pending" ELSE calls[t][1]

Service == INSTANCE TaskService WITH
  accepting <- pool = "open",
  outcome <- [t \in Tasks |-> Promise(t)]

\* The pool implements the abstract task service: whatever the interleaving of
\* answers, timeouts, exits and close(), each promise moves from pending to one
\* outcome, in a step of its own or all together when the pool is closed.
ImplementsTaskService == Service!Spec

\* A worker that startTask has booked for a task whose payload postMessage then
\* threw on: the promise is rejected, the thread has nothing to answer, and
\* without a timeout nothing ever makes the worker idle again.
Stuck(w) ==
  /\ active[w] \in Tasks
  /\ ~opts[active[w]].cloneable /\ ~opts[active[w]].timeout
  /\ thread[w] = "up"

\* Every call of run() is answered, when tasks without a timeout return: no
\* sequence of timeouts, exits, respawns and late answers strands a task.  The
\* one exception is what startTask's order of steps costs: a task that waits for
\* ever in the queue of a pool whose every worker is stuck for good.
EveryTaskSettles ==
  \A t \in Tasks :
    Accepted(t) ~>
      \/ calls[t] # <<>> \/ crashed
      \/ [](t \in Range(queue) /\ \A w \in Workers : Stuck(w))

\* close() ends, whatever the threads are doing when it is called.  (It may leave
\* one thread behind: that of a worker respawned after a listener closed the pool
\* in the middle of an exit handler.)
CloseCompletes == pool = "closing" ~> pool = "closed" \/ crashed

\* tests/worker-pool-advanced.test.ts expects of a task that times out, in a
\* pool whose errors nobody listens to, that its promise is rejected: a timeout
\* alone, with no task that throws and no thread that fails, ends no process.
TimeoutOnlyRejects ==
  crashed =>
    \/ \E w \in Workers : thread[w] \in {"nonzero", "failed"}
    \/ \E t \in Tasks : "failed" \in Range(calls[t])
=============================================================================
