------------------------ MODULE WebSocketClientProofs ------------------------
(***************************************************************************)
(* What holds of WebSocketClient for any number of attempts and of         *)
(* connect() calls.                                                        *)
(***************************************************************************)
EXTENDS WebSocketClient, TLAPS

\* Without an overlap one chain at most is alive.
OneChain == ~overlapped => \A c, d \in Chains : Live(c) /\ Live(d) => c = d

\* A chain that waits to try again has attempts left.
AttemptsLeft == \A c \in Chains : phase[c] = "delaying" => attempt[c] < Attempts

\* A chain that has an attempt to begin has begun none since close().
AttemptUnspent ==
  explicitClose =>
    \A c \in Chains : phase[c] \in {"delaying", "retrying", "timer"} => late[c] = 0

IInv ==
  /\ TypeOK
  /\ AttemptsLeft
  /\ OneChain
  /\ ClientKnowsItsSocket
  /\ AttemptUnspent
  /\ CloseLeavesOneAttempt

\* No chain is called None.
LEMMA NoneIsNoChain == None \notin Chains
BY ClientAssumption DEF None, Chains

\* The client that was constructed has no chain.
LEMMA InitIInv == Init => IInv
<1>. SUFFICES ASSUME Init PROVE IInv
  OBVIOUS
<1>1. TypeOK
  <2>1. 0 \in 0 .. Attempts /\ 0 \in Nat
    BY ClientAssumption
  <2>. QED
    BY <2>1, Zenon DEF Init, TypeOK, Phases
<1>2. AttemptsLeft /\ OneChain
  BY DEF Init, AttemptsLeft, OneChain, Live
<1>3. ClientKnowsItsSocket
  BY NoneIsNoChain DEF Init, ClientKnowsItsSocket, Attached
<1>4. AttemptUnspent /\ CloseLeavesOneAttempt
  BY DEF Init, AttemptUnspent, CloseLeavesOneAttempt
<1>. QED
  BY <1>1, <1>2, <1>3, <1>4 DEF IInv

-----------------------------------------------------------------------------
\* Every step keeps the types: an attempt is begun only below the limit.
LEMMA TypeStep == TypeOK /\ AttemptsLeft /\ [Next]_vars => TypeOK'
<1>. SUFFICES ASSUME TypeOK, AttemptsLeft, [Next]_vars PROVE TypeOK'
  OBVIOUS
<1>. USE NoneIsNoChain, ClientAssumption DEF TypeOK, Phases, AttemptsLeft
<1>1. CASE Close
  <2>1. late' \in [Chains -> Nat] /\ phase' \in [Chains -> Phases]
    BY <1>1 DEF Close, ClearReconnectTimer
  <2>2. closing' \subseteq Chains
    BY <1>1 DEF Close
  <2>3. explicitClose' \in BOOLEAN /\ overlapped' \in BOOLEAN
    BY <1>1, Zenon DEF Close
  <2>4. /\ socket' \in Chains \cup {None} /\ currentAttempt' \in 0 .. Attempts
        /\ reconnectTimer' \in Chains \cup {None} /\ connecting' \in Chains \cup {None}
        /\ attempt' \in [Chains -> 0 .. Attempts]
    BY <1>1, Zenon DEF Close
  <2>. QED
    BY <2>1, <2>2, <2>3, <2>4
<1>2. ASSUME NEW c \in Chains, Connect(c) PROVE TypeOK'
  <2>1. late' \in [Chains -> Nat] /\ phase' \in [Chains -> Phases]
    BY <1>2 DEF Connect, ClearReconnectTimer
  <2>2. /\ attempt' \in [Chains -> 0 .. Attempts] /\ currentAttempt' \in 0 .. Attempts
        /\ socket' \in Chains \cup {None} /\ closing' \subseteq Chains
        /\ reconnectTimer' \in Chains \cup {None} /\ connecting' \in Chains \cup {None}
    BY <1>2 DEF Connect
  <2>3. explicitClose' \in BOOLEAN /\ overlapped' \in BOOLEAN
    BY <1>2, Zenon DEF Connect
  <2>. QED
    BY <2>1, <2>2, <2>3
<1>3. ASSUME NEW c \in Chains, OpenReported(c) PROVE TypeOK'
  BY <1>3 DEF OpenReported, ConnectSettled
<1>4. ASSUME NEW c \in Chains, CloseReported(c) PROVE TypeOK'
  BY <1>4 DEF CloseReported
<1>5. ASSUME NEW c \in Chains, RetryReported(c) PROVE TypeOK'
  BY <1>5 DEF RetryReported
<1>6. ASSUME NEW c \in Chains, SocketOpens(c) PROVE TypeOK'
  BY <1>6 DEF SocketOpens
<1>7. ASSUME NEW c \in Chains, OpenFails(c) PROVE TypeOK'
  BY <1>7 DEF OpenFails, GivesUp, ConnectSettled
<1>8. ASSUME NEW c \in Chains, DelayEnds(c) PROVE TypeOK'
  BY <1>8 DEF DelayEnds, BeginAttempt, NextAttempt
<1>9. ASSUME NEW c \in Chains, ServerCloses(c) PROVE TypeOK'
  BY <1>9 DEF ServerCloses
<1>10. ASSUME NEW c \in Chains, SocketCloses(c) PROVE TypeOK'
  BY <1>10 DEF SocketCloses
<1>11. ASSUME NEW c \in Chains, TimerFires(c) PROVE TypeOK'
  BY <1>11 DEF TimerFires, BeginAttempt
<1>12. CASE UNCHANGED vars
  BY <1>12 DEF vars
<1>. QED
  BY <1>1, <1>2, <1>3, <1>4, <1>5, <1>6, <1>7, <1>8, <1>9, <1>10, <1>11, <1>12
  DEF Next, AfterListener, Opening

\* A failed attempt is followed by a delay only when it was not the last one.
LEMMA AttemptsLeftStep == TypeOK /\ AttemptsLeft /\ [Next]_vars => AttemptsLeft'
<1>. SUFFICES ASSUME TypeOK, AttemptsLeft, [Next]_vars PROVE AttemptsLeft'
  OBVIOUS
<1>. USE NoneIsNoChain, ClientAssumption DEF TypeOK, Phases, AttemptsLeft
<1>1. CASE Close
  BY <1>1 DEF Close, ClearReconnectTimer
<1>2. ASSUME NEW c \in Chains, Connect(c) PROVE AttemptsLeft'
  BY <1>2 DEF Connect, ClearReconnectTimer
<1>3. ASSUME NEW c \in Chains, OpenReported(c) PROVE AttemptsLeft'
  BY <1>3 DEF OpenReported, ConnectSettled
<1>4. ASSUME NEW c \in Chains, CloseReported(c) PROVE AttemptsLeft'
  BY <1>4 DEF CloseReported
<1>5. ASSUME NEW c \in Chains, RetryReported(c) PROVE AttemptsLeft'
  BY <1>5 DEF RetryReported
<1>6. ASSUME NEW c \in Chains, SocketOpens(c) PROVE AttemptsLeft'
  BY <1>6 DEF SocketOpens
<1>7. ASSUME NEW c \in Chains, OpenFails(c) PROVE AttemptsLeft'
  BY <1>7 DEF OpenFails, GivesUp, ConnectSettled
<1>8. ASSUME NEW c \in Chains, DelayEnds(c) PROVE AttemptsLeft'
  BY <1>8 DEF DelayEnds, BeginAttempt, NextAttempt
<1>9. ASSUME NEW c \in Chains, ServerCloses(c) PROVE AttemptsLeft'
  BY <1>9 DEF ServerCloses
<1>10. ASSUME NEW c \in Chains, SocketCloses(c) PROVE AttemptsLeft'
  BY <1>10 DEF SocketCloses
<1>11. ASSUME NEW c \in Chains, TimerFires(c) PROVE AttemptsLeft'
  BY <1>11 DEF TimerFires, BeginAttempt
<1>12. CASE UNCHANGED vars
  BY <1>12 DEF vars
<1>. QED
  BY <1>1, <1>2, <1>3, <1>4, <1>5, <1>6, <1>7, <1>8, <1>9, <1>10, <1>11, <1>12
  DEF Next, AfterListener, Opening

\* Only connect() brings a chain to life.
LEMMA OneChainStep == TypeOK /\ OneChain /\ [Next]_vars => OneChain'
<1>. SUFFICES ASSUME TypeOK, OneChain, [Next]_vars PROVE OneChain'
  OBVIOUS
<1>. USE NoneIsNoChain DEF TypeOK, Phases, OneChain, Live
<1>1. CASE Close
  BY <1>1 DEF Close, ClearReconnectTimer
<1>2. ASSUME NEW c \in Chains, Connect(c) PROVE OneChain'
  BY <1>2 DEF Connect, ClearReconnectTimer
<1>3. ASSUME NEW c \in Chains, OpenReported(c) PROVE OneChain'
  BY <1>3 DEF OpenReported, ConnectSettled
<1>4. ASSUME NEW c \in Chains, CloseReported(c) PROVE OneChain'
  BY <1>4 DEF CloseReported
<1>5. ASSUME NEW c \in Chains, RetryReported(c) PROVE OneChain'
  BY <1>5 DEF RetryReported
<1>6. ASSUME NEW c \in Chains, SocketOpens(c) PROVE OneChain'
  BY <1>6 DEF SocketOpens
<1>7. ASSUME NEW c \in Chains, OpenFails(c) PROVE OneChain'
  BY <1>7 DEF OpenFails, GivesUp, ConnectSettled
<1>8. ASSUME NEW c \in Chains, DelayEnds(c) PROVE OneChain'
  BY <1>8 DEF DelayEnds, BeginAttempt, NextAttempt
<1>9. ASSUME NEW c \in Chains, ServerCloses(c) PROVE OneChain'
  BY <1>9 DEF ServerCloses
<1>10. ASSUME NEW c \in Chains, SocketCloses(c) PROVE OneChain'
  BY <1>10 DEF SocketCloses
<1>11. ASSUME NEW c \in Chains, TimerFires(c) PROVE OneChain'
  BY <1>11 DEF TimerFires, BeginAttempt
<1>12. CASE UNCHANGED vars
  BY <1>12 DEF vars
<1>. QED
  BY <1>1, <1>2, <1>3, <1>4, <1>5, <1>6, <1>7, <1>8, <1>9, <1>10, <1>11, <1>12
  DEF Next, AfterListener, Opening

\* socket and reconnectTimer follow the only live chain.
LEMMA KnownStep == TypeOK /\ OneChain /\ ClientKnowsItsSocket /\ [Next]_vars => ClientKnowsItsSocket'
<1>. SUFFICES ASSUME TypeOK, OneChain, ClientKnowsItsSocket, [Next]_vars PROVE ClientKnowsItsSocket'
  OBVIOUS
<1>. USE NoneIsNoChain DEF TypeOK, Phases, OneChain, Live, ClientKnowsItsSocket, Attached
<1>1. CASE Close
  BY <1>1 DEF Close, ClearReconnectTimer
<1>2. ASSUME NEW c \in Chains, Connect(c) PROVE ClientKnowsItsSocket'
  BY <1>2 DEF Connect, ClearReconnectTimer
<1>3. ASSUME NEW c \in Chains, OpenReported(c) PROVE ClientKnowsItsSocket'
  BY <1>3 DEF OpenReported, ConnectSettled
<1>4. ASSUME NEW c \in Chains, CloseReported(c) PROVE ClientKnowsItsSocket'
  BY <1>4 DEF CloseReported
<1>5. ASSUME NEW c \in Chains, RetryReported(c) PROVE ClientKnowsItsSocket'
  BY <1>5 DEF RetryReported
<1>6. ASSUME NEW c \in Chains, SocketOpens(c) PROVE ClientKnowsItsSocket'
  BY <1>6 DEF SocketOpens
<1>7. ASSUME NEW c \in Chains, OpenFails(c) PROVE ClientKnowsItsSocket'
  BY <1>7 DEF OpenFails, GivesUp, ConnectSettled
<1>8. ASSUME NEW c \in Chains, DelayEnds(c) PROVE ClientKnowsItsSocket'
  BY <1>8 DEF DelayEnds, BeginAttempt, NextAttempt
<1>9. ASSUME NEW c \in Chains, ServerCloses(c) PROVE ClientKnowsItsSocket'
  BY <1>9 DEF ServerCloses
<1>10. ASSUME NEW c \in Chains, SocketCloses(c) PROVE ClientKnowsItsSocket'
  BY <1>10 DEF SocketCloses
<1>11. ASSUME NEW c \in Chains, TimerFires(c) PROVE ClientKnowsItsSocket'
  BY <1>11 DEF TimerFires, BeginAttempt
<1>12. CASE UNCHANGED vars
  BY <1>12 DEF vars
<1>. QED
  BY <1>1, <1>2, <1>3, <1>4, <1>5, <1>6, <1>7, <1>8, <1>9, <1>10, <1>11, <1>12
  DEF Next, AfterListener, Opening

\* After close() a chain that begins an attempt is not allowed another.
LEMMA UnspentStep == TypeOK /\ AttemptUnspent /\ [Next]_vars => AttemptUnspent'
<1>. SUFFICES ASSUME TypeOK, AttemptUnspent, [Next]_vars PROVE AttemptUnspent'
  OBVIOUS
<1>. USE NoneIsNoChain DEF TypeOK, Phases, AttemptUnspent
<1>1. CASE Close
  BY <1>1 DEF Close, ClearReconnectTimer
<1>2. ASSUME NEW c \in Chains, Connect(c) PROVE AttemptUnspent'
  BY <1>2 DEF Connect, ClearReconnectTimer
<1>3. ASSUME NEW c \in Chains, OpenReported(c) PROVE AttemptUnspent'
  BY <1>3 DEF OpenReported, ConnectSettled
<1>4. ASSUME NEW c \in Chains, CloseReported(c) PROVE AttemptUnspent'
  BY <1>4 DEF CloseReported
<1>5. ASSUME NEW c \in Chains, RetryReported(c) PROVE AttemptUnspent'
  BY <1>5 DEF RetryReported
<1>6. ASSUME NEW c \in Chains, SocketOpens(c) PROVE AttemptUnspent'
  BY <1>6 DEF SocketOpens
<1>7. ASSUME NEW c \in Chains, OpenFails(c) PROVE AttemptUnspent'
  BY <1>7 DEF OpenFails, GivesUp, ConnectSettled
<1>8. ASSUME NEW c \in Chains, DelayEnds(c) PROVE AttemptUnspent'
  BY <1>8 DEF DelayEnds, BeginAttempt, NextAttempt
<1>9. ASSUME NEW c \in Chains, ServerCloses(c) PROVE AttemptUnspent'
  BY <1>9 DEF ServerCloses
<1>10. ASSUME NEW c \in Chains, SocketCloses(c) PROVE AttemptUnspent'
  BY <1>10 DEF SocketCloses
<1>11. ASSUME NEW c \in Chains, TimerFires(c) PROVE AttemptUnspent'
  BY <1>11 DEF TimerFires, BeginAttempt
<1>12. CASE UNCHANGED vars
  BY <1>12 DEF vars
<1>. QED
  BY <1>1, <1>2, <1>3, <1>4, <1>5, <1>6, <1>7, <1>8, <1>9, <1>10, <1>11, <1>12
  DEF Next, AfterListener, Opening

\* ... so that the attempt it begins is its only one.
LEMMA OneAttemptStep == TypeOK /\ AttemptUnspent /\ CloseLeavesOneAttempt /\ [Next]_vars => CloseLeavesOneAttempt'
<1>. SUFFICES ASSUME TypeOK, AttemptUnspent, CloseLeavesOneAttempt, [Next]_vars PROVE CloseLeavesOneAttempt'
  OBVIOUS
<1>. USE NoneIsNoChain DEF TypeOK, Phases, AttemptUnspent, CloseLeavesOneAttempt
<1>1. CASE Close
  BY <1>1 DEF Close, ClearReconnectTimer
<1>2. ASSUME NEW c \in Chains, Connect(c) PROVE CloseLeavesOneAttempt'
  BY <1>2 DEF Connect, ClearReconnectTimer
<1>3. ASSUME NEW c \in Chains, OpenReported(c) PROVE CloseLeavesOneAttempt'
  BY <1>3 DEF OpenReported, ConnectSettled
<1>4. ASSUME NEW c \in Chains, CloseReported(c) PROVE CloseLeavesOneAttempt'
  BY <1>4 DEF CloseReported
<1>5. ASSUME NEW c \in Chains, RetryReported(c) PROVE CloseLeavesOneAttempt'
  BY <1>5 DEF RetryReported
<1>6. ASSUME NEW c \in Chains, SocketOpens(c) PROVE CloseLeavesOneAttempt'
  BY <1>6 DEF SocketOpens
<1>7. ASSUME NEW c \in Chains, OpenFails(c) PROVE CloseLeavesOneAttempt'
  BY <1>7 DEF OpenFails, GivesUp, ConnectSettled
<1>8. ASSUME NEW c \in Chains, DelayEnds(c) PROVE CloseLeavesOneAttempt'
  BY <1>8 DEF DelayEnds, BeginAttempt, NextAttempt
<1>9. ASSUME NEW c \in Chains, ServerCloses(c) PROVE CloseLeavesOneAttempt'
  BY <1>9 DEF ServerCloses
<1>10. ASSUME NEW c \in Chains, SocketCloses(c) PROVE CloseLeavesOneAttempt'
  BY <1>10 DEF SocketCloses
<1>11. ASSUME NEW c \in Chains, TimerFires(c) PROVE CloseLeavesOneAttempt'
  BY <1>11 DEF TimerFires, BeginAttempt
<1>12. CASE UNCHANGED vars
  BY <1>12 DEF vars
<1>. QED
  BY <1>1, <1>2, <1>3, <1>4, <1>5, <1>6, <1>7, <1>8, <1>9, <1>10, <1>11, <1>12
  DEF Next, AfterListener, Opening

\* The strengthened invariant holds in every behaviour.
LEMMA SpecIInv == Spec => []IInv
<1>1. IInv /\ [Next]_vars => IInv'
  BY TypeStep, AttemptsLeftStep, OneChainStep, KnownStep, UnspentStep, OneAttemptStep
  DEF IInv
<1>. QED
  BY <1>1, InitIInv, PTL DEF Spec

-----------------------------------------------------------------------------
\* The fields of the client keep their types, and no attempt passes the limit.
THEOREM TypeCorrect == Spec => []TypeOK
BY SpecIInv, PTL DEF IInv

\* As long as no connect() overlapped a live chain, this.socket is the socket that
\* is open and this.reconnectTimer the timer that runs.
THEOREM SocketKnown == Spec => []ClientKnowsItsSocket
BY SpecIInv, PTL DEF IInv

\* close() leaves each chain one attempt at most.
THEOREM OneAttemptAfterClose == Spec => []CloseLeavesOneAttempt
BY SpecIInv, PTL DEF IInv
=============================================================================
