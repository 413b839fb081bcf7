--------------------------- MODULE WebSocketClient ---------------------------
(***************************************************************************)
(* KenoWebSocketClient (src/internal/client/websocket.ts): one client, the *)
(* connection attempts of its connect() calls, and its reconnections.      *)
(*                                                                         *)
(* A connect() that does not return early starts a chain: a socket, its    *)
(* successors when an attempt fails or an open socket closes, and the      *)
(* delays between them.  The client's fields belong to no chain: when two  *)
(* chains live at once, both read and write them.                          *)
(*                                                                         *)
(* An action is a turn of the event loop, cut where the code emits an      *)
(* event and goes on with its fields afterwards: the listeners may call    *)
(* connect() and close() there.                                            *)
(***************************************************************************)
EXTENDS Integers, FiniteSets

CONSTANTS
  Attempts,      \* retry.attempts
  MaxConnects    \* bound: calls of connect() that start a chain

ASSUME ClientAssumption ==
  /\ Attempts \in Nat \ {0}
  /\ MaxConnects \in Nat \ {0}

Chains == 1 .. MaxConnects
None == 0

VARIABLES
  socket,          \* the chain whose socket is this.socket
  explicitClose,
  currentAttempt,
  reconnectTimer,  \* the chain whose timer is this.reconnectTimer
  connecting,      \* the chain whose promise is this.connectPromise
  phase,           \* where each chain is
  attempt,         \* the attempt each chain is at, or will make next
  closing,         \* chains whose socket is native CLOSING
  overlapped,      \* history: did connect() ever start a second live chain?
  late             \* history: attempts each chain began since close()

vars == <<socket, explicitClose, currentAttempt, reconnectTimer, connecting,
          phase, attempt, closing, overlapped, late>>

(***************************************************************************)
(* "opening": openOnce waits for the socket; "delaying": openWithRetries   *)
(* waits to try again; "opened": the listeners of open run; "open": the    *)
(* socket is attached; "closed" and "retrying": the close event is being   *)
(* handled and the listeners of close, or of retry, run; "timer": the      *)
(* reconnection waits for its setTimeout; "ended": the chain is over.      *)
(***************************************************************************)
Phases == {"none", "opening", "delaying", "opened", "open", "closed",
           "retrying", "timer", "ended"}

TypeOK ==
  /\ socket \in Chains \cup {None}
  /\ explicitClose \in BOOLEAN
  /\ currentAttempt \in 0 .. Attempts
  /\ reconnectTimer \in Chains \cup {None}
  /\ connecting \in Chains \cup {None}
  /\ phase \in [Chains -> Phases]
  /\ attempt \in [Chains -> 0 .. Attempts]
  /\ closing \subseteq Chains
  /\ overlapped \in BOOLEAN
  /\ late \in [Chains -> Nat]

Attached(c) == phase[c] \in {"opened", "open"}

Live(c) == phase[c] \notin {"none", "ended"}

ListenerRuns == \E c \in Chains : phase[c] \in {"opened", "closed", "retrying"}

Init ==
  /\ socket = None
  /\ explicitClose = FALSE
  /\ currentAttempt = 0
  /\ reconnectTimer = None
  /\ connecting = None
  /\ phase = [c \in Chains |-> "none"]
  /\ attempt = [c \in Chains |-> 0]
  /\ closing = {}
  /\ overlapped = FALSE
  /\ late = [c \in Chains |-> 0]

-----------------------------------------------------------------------------
(* Calls of the application, from a listener or not.                       *)

\* Mutant: a timer that is not cleared.
ClearReconnectTimer_Keeps == phase

\* clearReconnectTimer ends the chain that waited for the timer.
ClearReconnectTimer ==
  [c \in Chains |-> IF c = reconnectTimer THEN "ended" ELSE phase[c]]

\* connect(), when it neither finds an open socket nor a promise to share: the
\* socket of the first attempt is constructed at once.
Connect(c) ==
  /\ phase[c] = "none"
  /\ \A d \in Chains : d < c => phase[d] # "none"
  /\ socket = None \/ socket \in closing
  /\ connecting = None
  /\ explicitClose' = FALSE
  /\ reconnectTimer' = None
  /\ phase' = [ClearReconnectTimer EXCEPT ![c] = "opening"]
  /\ attempt' = [attempt EXCEPT ![c] = 1]
  /\ currentAttempt' = 1
  /\ connecting' = c
  /\ overlapped' = (overlapped \/ \E d \in Chains \ {reconnectTimer} : Live(d))
  /\ late' = [d \in Chains |-> 0]
  /\ UNCHANGED <<socket, closing>>

\* close(), which looks neither for an attempt in progress nor for a delay.
Close ==
  /\ explicitClose' = TRUE
  /\ reconnectTimer' = None
  /\ phase' = ClearReconnectTimer
  /\ closing' = closing \cup ({socket} \ {None})
  /\ late' = IF explicitClose THEN late ELSE [c \in Chains |-> 0]
  /\ UNCHANGED <<socket, currentAttempt, connecting, attempt, overlapped>>

-----------------------------------------------------------------------------
(* openWithRetries and openOnce.                                           *)

\* The promise of connect() is settled, and forgotten by the finally block.
ConnectSettled(c) == connecting' = IF connecting = c THEN None ELSE connecting

BeginAttempt(c, n) ==
  /\ phase' = [phase EXCEPT ![c] = "opening"]
  /\ attempt' = [attempt EXCEPT ![c] = n]
  /\ currentAttempt' = n
  /\ late' = [late EXCEPT ![c] = IF explicitClose THEN @ + 1 ELSE @]

\* The open event: attachSocket, up to the listeners of open.
SocketOpens(c) ==
  /\ ~ListenerRuns
  /\ phase[c] = "opening"
  /\ phase' = [phase EXCEPT ![c] = "opened"]
  /\ socket' = c
  /\ UNCHANGED <<explicitClose, currentAttempt, reconnectTimer, connecting,
                 attempt, closing, overlapped, late>>

OpenReported(c) ==
  /\ phase[c] = "opened"
  /\ phase' = [phase EXCEPT ![c] = "open"]
  /\ ConnectSettled(c)
  /\ UNCHANGED <<socket, explicitClose, currentAttempt, reconnectTimer,
                 attempt, closing, overlapped, late>>

\* Mutant: a failed attempt is retried though close() was called.
GivesUp_AttemptsOnly(c) == attempt[c] >= Attempts

GivesUp(c) == explicitClose \/ attempt[c] >= Attempts

\* The error or close event before open.
OpenFails(c) ==
  /\ ~ListenerRuns
  /\ phase[c] = "opening"
  /\ IF GivesUp(c)
     THEN /\ phase' = [phase EXCEPT ![c] = "ended"]
          /\ ConnectSettled(c)
     ELSE /\ phase' = [phase EXCEPT ![c] = "delaying"]
          /\ UNCHANGED connecting
  /\ UNCHANGED <<socket, explicitClose, currentAttempt, reconnectTimer,
                 attempt, closing, overlapped, late>>

\* Mutant: the attempt is not counted.
NextAttempt_Same(c) == attempt[c]

NextAttempt(c) == attempt[c] + 1

DelayEnds(c) ==
  /\ ~ListenerRuns
  /\ phase[c] = "delaying"
  /\ BeginAttempt(c, NextAttempt(c))
  /\ UNCHANGED <<socket, explicitClose, reconnectTimer, connecting, closing, overlapped>>

-----------------------------------------------------------------------------
(* attachSocket: the close event of an open socket.                        *)

\* The server or the network begins to close.
ServerCloses(c) ==
  /\ ~ListenerRuns
  /\ phase[c] = "open"
  /\ closing' = closing \cup {c}
  /\ UNCHANGED <<socket, explicitClose, currentAttempt, reconnectTimer,
                 connecting, phase, attempt, overlapped, late>>

\* The close event, up to the listeners of close.
SocketCloses(c) ==
  /\ ~ListenerRuns
  /\ phase[c] = "open"
  /\ c \in closing
  /\ closing' = closing \ {c}
  /\ socket' = None
  /\ phase' = [phase EXCEPT ![c] = "closed"]
  /\ UNCHANGED <<explicitClose, currentAttempt, reconnectTimer, connecting,
                 attempt, overlapped, late>>

\* The rest of the handler, up to the listeners of retry.
CloseReported(c) ==
  /\ phase[c] = "closed"
  /\ IF explicitClose \/ currentAttempt + 1 > Attempts
     THEN /\ phase' = [phase EXCEPT ![c] = "ended"]
          /\ UNCHANGED attempt
     ELSE /\ phase' = [phase EXCEPT ![c] = "retrying"]
          /\ attempt' = [attempt EXCEPT ![c] = currentAttempt + 1]
  /\ UNCHANGED <<socket, explicitClose, currentAttempt, reconnectTimer,
                 connecting, closing, overlapped, late>>

RetryReported(c) ==
  /\ phase[c] = "retrying"
  /\ phase' = [phase EXCEPT ![c] = "timer"]
  /\ reconnectTimer' = c
  /\ UNCHANGED <<socket, explicitClose, currentAttempt, connecting, attempt,
                 closing, overlapped, late>>

TimerFires(c) ==
  /\ ~ListenerRuns
  /\ phase[c] = "timer"
  /\ reconnectTimer' = None
  /\ BeginAttempt(c, attempt[c])
  /\ UNCHANGED <<socket, explicitClose, connecting, closing, overlapped>>

-----------------------------------------------------------------------------
AfterListener(c) == OpenReported(c) \/ CloseReported(c) \/ RetryReported(c)

Opening(c) == SocketOpens(c) \/ OpenFails(c)

Next ==
  \/ Close
  \/ \E c \in Chains :
       \/ Connect(c) \/ AfterListener(c) \/ Opening(c)
       \/ DelayEnds(c) \/ ServerCloses(c) \/ SocketCloses(c) \/ TimerFires(c)

Spec == Init /\ [][Next]_vars

\* Listeners return, the network answers an opening socket one way or the other
\* and ends what is closing, and timers fire.
Fairness ==
  \A c \in Chains :
    /\ WF_vars(AfterListener(c))
    /\ WF_vars(Opening(c))
    /\ WF_vars(DelayEnds(c))
    /\ WF_vars(SocketCloses(c))
    /\ WF_vars(TimerFires(c))

FairSpec == Spec /\ Fairness

-----------------------------------------------------------------------------
\* As long as no connect() found another chain still alive, the client knows what
\* it has: an open socket is this.socket, so that send() and close() reach it, a
\* reconnection that waits is the one clearReconnectTimer stops, and this.socket
\* is never a socket that has closed.
ClientKnowsItsSocket ==
  ~overlapped =>
    \A c \in Chains :
      /\ Attached(c) <=> socket = c
      /\ phase[c] = "timer" <=> reconnectTimer = c

\* close() stops no attempt or delay in progress, but it bounds them: each chain
\* begins one attempt more at most, wherever close() found it.
CloseLeavesOneAttempt ==
  explicitClose => \A c \in Chains : late[c] <= 1

\* Every series of attempts ends, with an open socket or without one, and so does
\* the promise of connect() that waits for it.
AttemptsEnd ==
  \A c \in Chains :
    /\ phase[c] \in {"opening", "delaying", "retrying", "timer"} ~> phase[c] \in {"open", "ended"}
    /\ connecting = c ~> connecting # c
=============================================================================
