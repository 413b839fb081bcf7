---------------------------- MODULE MCWorkerPool ----------------------------
(* Model checking of WorkerPool: what the callers of run() pass, and how *)
(* the threads die.                                                      *)
EXTENDS WorkerPool

CloneableCalls == [timeout : BOOLEAN, cloneable : {TRUE}]
AnyCall == [timeout : BOOLEAN, cloneable : BOOLEAN]
TimedOrUncloneable ==
  {c \in [timeout : BOOLEAN, cloneable : BOOLEAN] : c.timeout = c.cloneable}

AnyDeath == {"zero", "nonzero", "failed"}
Failure == {"failed"}
=============================================================================
