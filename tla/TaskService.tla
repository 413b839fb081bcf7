----------------------------- MODULE TaskService -----------------------------
(***************************************************************************)
(* What a worker pool promises to the callers of run() and close(), in     *)
(* terms of the promises they hold: nothing of queues, workers or threads. *)
(* A call is refused at once or pending; a pending call is answered once;  *)
(* close() settles all that is pending, and nothing is accepted after it.  *)
(***************************************************************************)
CONSTANTS
  Tasks    \* the calls of run()

VARIABLES
  accepting,   \* has close() not been called yet?
  outcome      \* what the promise of each call says

vars == <<accepting, outcome>>

Answers == {"resolved", "failed", "timeout", "exited", "uncloneable"}

Init ==
  /\ accepting = TRUE
  /\ outcome = [t \in Tasks |-> "uncalled"]

Submit(t) ==
  /\ outcome[t] = "uncalled"
  /\ \E o \in IF accepting THEN {"pending", "full", "uncloneable"} ELSE {"refused"} :
       outcome' = [outcome EXCEPT ![t] = o]
  /\ UNCHANGED accepting

Answer(t) ==
  /\ accepting
  /\ outcome[t] = "pending"
  /\ \E o \in Answers : outcome' = [outcome EXCEPT ![t] = o]
  /\ UNCHANGED accepting

Close ==
  /\ accepting
  /\ accepting' = FALSE
  /\ outcome' = [t \in Tasks |->
                   IF outcome[t] = "pending" THEN "closed" ELSE outcome[t]]

Next == Close \/ \E t \in Tasks : Submit(t) \/ Answer(t)

Spec == Init /\ [][Next]_vars
=============================================================================
