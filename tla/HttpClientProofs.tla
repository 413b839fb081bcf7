--------------------------- MODULE HttpClientProofs ---------------------------
(***************************************************************************)
(* Proofs about HttpClient: what the caller is told is explained by what   *)
(* happened to the attempts, and every timer and listener is accounted     *)
(* for, for any calls, attempts, middlewares and repeated next().          *)
(*                                                                         *)
(* The argument is a ledger of the attempts' signals.  Those of attempts   *)
(* to come have not been made (Future); those of attempts that are over    *)
(* were cleaned up before their timer fired, or were left by a status that *)
(* is retried (Past); a signal is aborted only by what its name says       *)
(* (Right), and what a middleware holds is something that did happen       *)
(* (Heard).  Each step is then one of five: an attempt begins, a wait      *)
(* begins, the call settles, a dispatch returns, a callback runs.          *)
(***************************************************************************)
EXTENDS HttpClient, TLAPS

Signal == [aborted : Reasons, listener : BOOLEAN, timer : BOOLEAN, didTimeout : BOOLEAN]

Unarmed(s, a) == ~s[a].timer /\ ~s[a].listener

\* A signal is aborted with "timeout" by its timer, with "aborted" by the caller.
Right(s, abort) ==
  \A a \in Tries :
    /\ s[a].aborted = "timeout" => s[a].didTimeout
    /\ s[a].aborted = "aborted" => abort /\ request.signal

Future(s) == \A a \in Tries : a > attempt => s[a] = NoSignal

Past(s) ==
  \A a \in Tries :
    a < attempt => ended[a] = "status" \/ (Unarmed(s, a) /\ ~s[a].didTimeout)

Ledger == Right(signals, aborted) /\ Future(signals) /\ Past(signals)

\* What a dispatch of the attempt in progress may come back with.
Heard(r) ==
  /\ r \in Responses \cup {"network", "aborted", "timeout", "error"}
  /\ r = "timeout" => signals[attempt].didTimeout
  /\ r = "aborted" => aborted /\ request.signal

\* A middleware holds what was heard, and the attempt hears the caller's abort.
InProgress ==
  /\ attempt > 0
  /\ back # "none" => Heard(back)
  /\ request.signal => IF aborted THEN signals[attempt].aborted # "no"
                       ELSE signals[attempt].listener

\* What the call is settled with, by an attempt that is over.
Told(s, r, abort) ==
  /\ r = "timeout" => s[attempt].didTimeout
  /\ r = "aborted" => abort /\ request.signal
  /\ r \in MergedRetry.statuses \cup {"network"} => ~MayRetry
  /\ r = "mismatch" => ~s[attempt].didTimeout
  /\ ExpectsOk => r \notin Responses \ {"200"}

Over ==
  attempt > 0 => \/ ended[attempt] = "request" /\ result = "input"
                 \/ Unarmed(signals, attempt) /\ (result # "input" => Told(signals, result, aborted))

PhaseRight ==
  /\ phase = "idle" <=> attempt = 0 /\ phase # "settled"
  /\ phase = "dispatch" => InProgress
  /\ phase \in {"cancelling", "statusWait", "errorWait"} => MayRetry
  /\ phase = "errorWait" => Unarmed(signals, attempt) /\ ~signals[attempt].didTimeout
  /\ phase = "settled" => Over

HttpInv == TypeOK /\ Ledger /\ PhaseRight

-----------------------------------------------------------------------------
(* The signals after cleanup(), after a timer and after an abort.          *)

\* What a step of the loop may leave of the signals: other attempts' are as they
\* were, and the current one can only have been disarmed.
Calmer(s) ==
  /\ s \in [Tries -> Signal]
  /\ \A a \in Tries : /\ a # attempt => s[a] = signals[a]
                      /\ s[a].aborted = signals[a].aborted
                      /\ s[a].didTimeout = signals[a].didTimeout

\* One field of a signal is replaced: the other fields are kept.
LEMMA Disarmed ==
  ASSUME NEW x \in Signal
  PROVE  LET y == [[x EXCEPT !.timer = FALSE] EXCEPT !.listener = FALSE]
         IN  /\ y \in Signal
             /\ ~y.timer /\ ~y.listener
             /\ y.aborted = x.aborted
             /\ y.didTimeout = x.didTimeout
BY DEF Signal

\* The timer's callback, on the signal it is of.
LEMMA TimedOut ==
  ASSUME NEW x \in Signal, NEW v \in Reasons
  PROVE  LET y == [[[x EXCEPT !.timer = FALSE] EXCEPT !.didTimeout = TRUE] EXCEPT !.aborted = v]
         IN  /\ y \in Signal
             /\ ~y.timer
             /\ y.listener = x.listener
             /\ y.aborted = v
             /\ y.didTimeout
BY DEF Signal

\* The listener's callback, on the signal it is of.
LEMMA AbortHeard ==
  ASSUME NEW x \in Signal
  PROVE  LET y == [x EXCEPT !.listener = FALSE,
                            !.aborted = IF @ = "no" THEN "aborted" ELSE @]
         IN  /\ y \in Signal
             /\ ~y.listener
             /\ y.timer = x.timer
             /\ y.didTimeout = x.didTimeout
             /\ y.aborted = IF x.aborted = "no" THEN "aborted" ELSE x.aborted
<1>. DEFINE v == IF x.aborted = "no" THEN "aborted" ELSE x.aborted
            y == [[x EXCEPT !.listener = FALSE] EXCEPT !.aborted = v]
<1>1. [x EXCEPT !.listener = FALSE, !.aborted = IF @ = "no" THEN "aborted" ELSE @] = y
  OBVIOUS
<1>2. v \in Reasons
  BY DEF Signal, Reasons
<1>. HIDE DEF v
<1>3. y \in Signal /\ ~y.listener /\ y.timer = x.timer /\ y.didTimeout = x.didTimeout /\ y.aborted = v
  BY <1>2 DEF Signal
<1>. HIDE DEF y
<1>. QED
  BY <1>1, <1>3 DEF v

\* cleanup() disarms the attempt's signal and changes nothing else.
LEMMA CleanedIsCalmer ==
  ASSUME signals \in [Tries -> Signal], attempt \in Tries
  PROVE  Calmer(Cleaned) /\ Unarmed(Cleaned, attempt)
<1>. DEFINE y == [[signals[attempt] EXCEPT !.timer = FALSE] EXCEPT !.listener = FALSE]
<1>1. Cleaned = [signals EXCEPT ![attempt] = y]
  BY DEF Cleaned
<1>2. y \in Signal /\ ~y.timer /\ ~y.listener /\ y.aborted = signals[attempt].aborted
        /\ y.didTimeout = signals[attempt].didTimeout
  BY Disarmed
<1>. HIDE DEF y
<1>3. Cleaned \in [Tries -> Signal]
  BY <1>1, <1>2
<1>4. Cleaned[attempt] = y /\ \A a \in Tries : a # attempt => Cleaned[a] = signals[a]
  BY <1>1
<1>. QED
  BY <1>2, <1>3, <1>4 DEF Calmer, Unarmed

\* The signals themselves, when nothing was cleaned up.
LEMMA SameIsCalmer ==
  ASSUME signals \in [Tries -> Signal]
  PROVE  Calmer(signals)
BY DEF Calmer

\* A signal of a new attempt: nothing has happened to it but an earlier abort.
LEMMA NewSignalRight ==
  ASSUME TypeOK
  PROVE  /\ NewSignal \in Signal
         /\ ~NewSignal.didTimeout
         /\ NewSignal.aborted # "timeout"
         /\ NewSignal.aborted = "aborted" => aborted /\ request.signal
         /\ request.signal => IF aborted THEN NewSignal.aborted # "no" ELSE NewSignal.listener
<1>1. request.signal \in BOOLEAN /\ request.timed \in BOOLEAN /\ aborted \in BOOLEAN
  BY HttpClientAssumption DEF TypeOK
<1>2. (request.signal /\ ~aborted) \in BOOLEAN
  BY <1>1
<1>3. (IF request.signal /\ aborted THEN "aborted" ELSE "no") \in Reasons
  BY DEF Reasons
<1>. QED
  BY <1>1, <1>2, <1>3 DEF NewSignal, Signal

\* A signal nobody has made.
LEMMA NoSignalTyped ==
  NoSignal \in Signal /\ NoSignal.aborted = "no" /\ ~NoSignal.didTimeout
BY DEF NoSignal, Signal, Reasons

-----------------------------------------------------------------------------
(* The operators of the code, one by one.                                  *)

\* The parts of the invariant, as the leaves below use them.
LEMMA Typed ==
  ASSUME HttpInv
  PROVE  /\ signals \in [Tries -> Signal]
         /\ attempt \in 0 .. MaxAttempts
         /\ attempt # 0 => attempt \in Tries
         /\ MaxAttempts \in Nat
         /\ request \in Requests
         /\ MergedRetry.attempts \in 1 .. MaxAttempts
         /\ MergedRetry.statuses \subseteq Responses
         /\ request.middlewares \in Nat
BY HttpClientAssumption DEF HttpInv, TypeOK, Signal, Tries, MergedRetry

\* The call settles with what an attempt ended with.
LEMMA SettleKeeps ==
  ASSUME HttpInv, NEW s \in [Tries -> Signal], NEW r \in Responses \cup Errors,
         attempt \in Tries,
         request' = request, aborted' \in BOOLEAN,
         Settle(s, r, "final"),
         Right(s, aborted'), Future(s), Past(s), Unarmed(s, attempt),
         r # "input" => Told(s, r, aborted')
  PROVE  HttpInv'
<1>1. TypeOK'
  BY Typed DEF Settle, HttpInv, TypeOK, Signal
<1>2. Ledger'
  BY DEF Settle, Ledger, Right, Future, Past, Unarmed, HttpInv, TypeOK
<1>3. PhaseRight'
  BY Typed DEF Settle, PhaseRight, Over, Told, Unarmed, MayRetry, Prepared, MergedRetry, ExpectsOk, Tries
<1>. QED
  BY <1>1, <1>2, <1>3 DEF HttpInv

\* The attempt is cleaned up and the call settles.
LEMMA CleanedSettleKeeps ==
  ASSUME HttpInv, NEW r \in Responses \cup Errors, attempt \in Tries,
         UNCHANGED <<request, aborted>>,
         Settle(Cleaned, r, "final"),
         r # "input" => Told(signals, r, aborted)
  PROVE  HttpInv'
<1>1. Calmer(Cleaned) /\ Unarmed(Cleaned, attempt)
  BY Typed, CleanedIsCalmer
<1>2. Cleaned \in [Tries -> Signal] /\ aborted' \in BOOLEAN
  BY <1>1 DEF Calmer, HttpInv, TypeOK
<1>3. Right(Cleaned, aborted') /\ Future(Cleaned) /\ Past(Cleaned)
  BY <1>1, Typed DEF Calmer, HttpInv, Ledger, Right, Future, Past, Unarmed
<1>4. r # "input" => Told(Cleaned, r, aborted')
  BY <1>1 DEF Calmer, Told
<1>. QED
  BY <1>1, <1>2, <1>3, <1>4, SettleKeeps

\* The next attempt begins, or cannot make its Request: the one before it was
\* answered, or is disarmed and its timer never fired.
LEMMA BeginKeeps ==
  ASSUME HttpInv, NEW s, Calmer(s), NEW how \in {"no", "status", "network"},
         attempt = 0 \/ MayRetry,
         UNCHANGED <<request, aborted>>,
         BeginAttempt(s, how),
         \/ attempt = 0
         \/ how = "status"
         \/ Unarmed(s, attempt) /\ ~s[attempt].didTimeout
  PROVE  HttpInv'
<1>. DEFINE a == attempt + 1
<1>1. a \in Tries /\ a # attempt
  BY Typed DEF MayRetry, Tries
<1>2. attempt' = a /\ signals' = [s EXCEPT ![a] = NewSignal] /\ nexts' = 0
  BY DEF BeginAttempt
<1>3. /\ NewSignal \in Signal
      /\ ~NewSignal.didTimeout
      /\ NewSignal.aborted # "timeout"
      /\ NewSignal.aborted = "aborted" => aborted /\ request.signal
      /\ request.signal => IF aborted THEN NewSignal.aborted # "no" ELSE NewSignal.listener
  BY NewSignalRight DEF HttpInv
<1>. HIDE DEF a
<1>4. /\ signals' \in [Tries -> Signal]
      /\ signals'[a] = NewSignal
      /\ \A t \in Tries : t # a => signals'[t] = s[t]
  BY <1>1, <1>2, <1>3 DEF Calmer
<1>5. /\ phase' \in {"settled", "dispatch"}
      /\ phase' = "settled" => result' = "input" /\ UNCHANGED <<depth, back, fetches>>
      /\ phase' = "dispatch" => result' = result /\ Dispatch(0, a)
      /\ ended' \in [Tries -> {"no", "status", "network", "final", "request"}]
      /\ attempt # 0 => ended'[attempt] = how
      /\ phase' = "settled" => ended'[a] = "request"
      /\ \A t \in Tries : t < attempt => ended'[t] = ended[t]
  <2>1. CASE RequestFails
    BY <2>1, <1>1, Typed DEF BeginAttempt, HttpInv, TypeOK, a
  <2>2. CASE ~RequestFails
    BY <2>2, <1>1, Typed DEF BeginAttempt, HttpInv, TypeOK, a
  <2>. QED
    BY <2>1, <2>2
<1>6. TypeOK'
  <2>1. depth' \in 0 .. request.middlewares /\ back' \in Responses \cup Errors \cup {"none"}
    BY <1>5, Typed DEF Dispatch, HttpInv, TypeOK
  <2>2. fetches' \in [Tries -> Nat]
    <3>1. CASE phase' = "settled"
      BY <3>1, <1>5 DEF HttpInv, TypeOK
    <3>2. CASE phase' = "dispatch"
      BY <3>2, <1>1, <1>5 DEF Dispatch, HttpInv, TypeOK
    <3>. QED
      BY <3>1, <3>2, <1>5
  <2>3. result' \in Responses \cup Errors \cup {"none"}
    BY <1>5 DEF HttpInv, TypeOK, Errors
  <2>4. nexts' \in 0 .. MaxNexts /\ attempt' \in 0 .. MaxAttempts
    BY <1>1, <1>2, HttpClientAssumption DEF Tries
  <2>. QED
    BY <2>1, <2>2, <2>3, <2>4, <1>4, <1>5 DEF HttpInv, TypeOK, Signal
<1>7. Ledger'
  <2>1. Right(signals, aborted)'
    BY <1>3, <1>4 DEF HttpInv, Ledger, Right, Calmer
  <2>2. Future(signals)'
    BY <1>1, <1>2, <1>4, Typed DEF HttpInv, Ledger, Future, Calmer, Tries, a
  <2>3. Past(signals)'
    <3> SUFFICES ASSUME NEW t \in Tries, t < a
                 PROVE  ended'[t] = "status" \/ (Unarmed(signals, t)' /\ ~signals'[t].didTimeout)
      BY <1>2 DEF Past
    <3>1. CASE t = attempt
      BY <3>1, <1>1, <1>4, <1>5, Typed DEF Unarmed, Tries
    <3>2. CASE t # attempt
      <4>1. t < attempt
        BY <3>2, Typed DEF a, Tries
      <4>2. t # a
        BY Typed DEF a, Tries
      <4>. QED
        BY <3>2, <4>1, <4>2, <1>4, <1>5 DEF HttpInv, Ledger, Past, Calmer, Unarmed
    <3>. QED
      BY <3>1, <3>2
  <2>. QED
    BY <2>1, <2>2, <2>3 DEF Ledger
<1>8. PhaseRight'
  <2>1. a > 0
    BY <1>1 DEF Tries
  <2>2. phase' = "dispatch" => InProgress'
    BY <2>1, <1>2, <1>3, <1>4, <1>5 DEF InProgress, Dispatch
  <2>3. phase' = "settled" => Over'
    BY <1>2, <1>5 DEF Over
  <2>. QED
    BY <2>1, <2>2, <2>3, <1>2, <1>5 DEF PhaseRight
<1>. QED
  BY <1>6, <1>7, <1>8 DEF HttpInv
\* waitForRetry begins the next attempt, rejects, or waits.
LEMMA WaitForRetryKeeps ==
  ASSUME HttpInv, NEW s, Calmer(s), NEW wait \in {"statusWait", "errorWait"},
         attempt \in Tries, MayRetry,
         UNCHANGED <<request, aborted>>,
         WaitForRetry(s, wait),
         wait = "errorWait" => Unarmed(s, attempt) /\ ~s[attempt].didTimeout
  PROVE  HttpInv'
<1>. DEFINE how == IF wait = "statusWait" THEN "status" ELSE "network"
            told == IF wait = "statusWait" /\ s[attempt].didTimeout THEN "timeout" ELSE "aborted"
            stays == /\ phase' = wait
                     /\ signals' = s
                     /\ UNCHANGED <<attempt, depth, back, nexts, fetches, ended, result>>
<1>1. \/ BeginAttempt(s, how)
      \/ request.signal /\ aborted /\ Settle(Cleaned, told, "final")
      \/ stays
  BY DEF WaitForRetry
<1>2. CASE BeginAttempt(s, how)
  <2>1. how \in {"no", "status", "network"} /\ (how = "status" \/ wait = "errorWait")
    OBVIOUS
  <2>. HIDE DEF how
  <2>. QED
    BY <1>2, <2>1, BeginKeeps
<1>3. CASE request.signal /\ aborted /\ Settle(Cleaned, told, "final")
  <2>1. told \in Responses \cup Errors /\ Told(signals, told, aborted)
    BY <1>3, Typed DEF Errors, Calmer, Told, Responses
  <2>. HIDE DEF told
  <2>. QED
    BY <1>3, <2>1, CleanedSettleKeeps
<1>4. CASE stays
  <2>1. TypeOK'
    BY <1>4 DEF HttpInv, TypeOK, Calmer, Signal
  <2>2. Ledger'
    <3>1. Right(signals, aborted)'
      BY <1>4 DEF HttpInv, Ledger, Right, Calmer
    <3>2. Future(signals)'
      BY <1>4, Typed DEF HttpInv, Ledger, Future, Calmer, Tries
    <3>3. Past(signals)'
      BY <1>4, Typed DEF HttpInv, Ledger, Past, Calmer, Unarmed, Tries
    <3>. QED
      BY <3>1, <3>2, <3>3 DEF Ledger
  <2>3. PhaseRight'
    <3>1. MayRetry' /\ attempt' # 0
      BY <1>4 DEF MayRetry, Prepared, MergedRetry, Tries
    <3>. QED
      BY <1>4, <3>1 DEF PhaseRight, Unarmed
  <2>. QED
    BY <2>1, <2>2, <2>3 DEF HttpInv
<1>. QED
  BY <1>1, <1>2, <1>3, <1>4

\* The catch block waits for the next attempt, or rethrows.
LEMMA CaughtKeeps ==
  ASSUME HttpInv, attempt \in Tries,
         NEW e \in Errors \ {"input"}, Heard(e) \/ e = "mismatch",
         UNCHANGED <<request, aborted>>,
         Caught(e)
  PROVE  HttpInv'
<1>1. Calmer(Cleaned) /\ Unarmed(Cleaned, attempt)
  BY Typed, CleanedIsCalmer
<1>2. Resolved(e) \in Errors \ {"input"}
  BY DEF Resolved, Errors
<1>3. CASE MayRetry /\ Resolved(e) = "network"
  <2>1. ~Cleaned[attempt].didTimeout
    BY <1>1, <1>3 DEF Resolved, Calmer
  <2>. QED
    BY <1>1, <1>3, <2>1, WaitForRetryKeeps DEF Caught
<1>4. CASE ~(MayRetry /\ Resolved(e) = "network")
  <2>1. Resolved(e) \notin Responses
    BY <1>2 DEF Errors, Responses
  <2>2. Told(signals, Resolved(e), aborted)
    BY <1>4, <2>1, Typed DEF Told, Resolved, Heard
  <2>. QED
    BY <1>2, <1>4, <2>2, CleanedSettleKeeps DEF Caught
<1>. QED
  BY <1>3, <1>4

\* What runMiddlewares settles with is retried, handed over or caught.
LEMMA AttemptEndsKeeps ==
  ASSUME HttpInv, attempt \in Tries, NEW r, Heard(r),
         UNCHANGED <<request, aborted>>,
         AttemptEnds(r)
  PROVE  HttpInv'
<1>1. r \in Responses \cup {"network", "aborted", "timeout", "error"}
  BY DEF Heard
<1>2. r \in Responses \cup Errors
  BY <1>1 DEF Errors
<1>3. CASE Prepared
  <2>1. Told(signals, r, aborted)
    BY <1>1, <1>3 DEF Told, Heard, MayRetry, ExpectsOk, Prepared, Responses
  <2>. QED
    BY <1>2, <1>3, <2>1, CleanedSettleKeeps DEF AttemptEnds
<1>4. CASE ~Prepared /\ r \notin Responses
  <2>1. r \in Errors \ {"input"}
    BY <1>1, <1>4 DEF Errors
  <2>. QED
    BY <1>4, <2>1, CaughtKeeps DEF AttemptEnds
<1>5. CASE ~Prepared /\ r \in Responses /\ MayRetry /\ r \in MergedRetry.statuses
  <2>1. /\ phase' = "cancelling"
        /\ UNCHANGED <<attempt, depth, back, nexts, fetches, signals, ended, result>>
    BY <1>5 DEF AttemptEnds
  <2>2. TypeOK'
    BY <2>1 DEF HttpInv, TypeOK
  <2>3. Ledger'
    BY <2>1 DEF HttpInv, Ledger, Right, Future, Past, Unarmed
  <2>4. PhaseRight'
    <3>1. MayRetry' /\ attempt' # 0
      BY <1>5, <2>1 DEF MayRetry, Prepared, MergedRetry, Tries
    <3>. QED
      BY <2>1, <3>1 DEF PhaseRight
  <2>. QED
    BY <2>2, <2>3, <2>4 DEF HttpInv
<1>6. CASE ~Prepared /\ r \in Responses /\ ~(MayRetry /\ r \in MergedRetry.statuses)
  <2>1. CASE Unexpected(r)
    <3>1. "mismatch" \in Errors \ {"input"}
      BY DEF Errors
    <3>. QED
      BY <1>6, <2>1, <3>1, CaughtKeeps DEF AttemptEnds
  <2>2. CASE ~Unexpected(r)
    <3>1. Told(signals, r, aborted)
      BY <1>6, <2>2 DEF Told, Heard, Unexpected, Responses
    <3>. QED
      BY <1>2, <1>6, <2>2, <3>1, CleanedSettleKeeps DEF AttemptEnds
  <2>. QED
    BY <2>1, <2>2
<1>. QED
  BY <1>3, <1>4, <1>5, <1>6

\* Steps that leave the loop, its signals and its history alone.
LEMMA SamePhaseKeeps ==
  ASSUME HttpInv, phase = "dispatch",
         UNCHANGED <<request, phase, attempt, signals, ended, aborted, result>>,
         TypeOK', back' # "none" => Heard(back')
  PROVE  HttpInv'
<1>1. Ledger'
  BY DEF HttpInv, Ledger, Right, Future, Past, Unarmed
<1>2. InProgress'
  BY DEF HttpInv, PhaseRight, InProgress, Heard
<1>3. PhaseRight'
  BY <1>2 DEF HttpInv, PhaseRight
<1>. QED
  BY <1>1, <1>3 DEF HttpInv

\* A dispatch settles: to the middleware before it, or to the loop.
LEMMA ReturnedKeeps ==
  ASSUME HttpInv, phase = "dispatch", NEW r, Heard(r),
         UNCHANGED <<request, aborted>>,
         Returned(r)
  PROVE  HttpInv'
<1>1. attempt \in Tries
  BY Typed DEF HttpInv, PhaseRight, InProgress
<1>2. CASE depth = 0
  BY <1>1, <1>2, AttemptEndsKeeps DEF Returned
<1>3. CASE depth # 0
  <2>1. /\ depth' = depth - 1
        /\ back' = r
        /\ UNCHANGED <<phase, attempt, nexts, fetches, signals, ended, result>>
    BY <1>3 DEF Returned
  <2>2. depth' \in 0 .. request.middlewares
    BY <1>3, <2>1, Typed DEF HttpInv, TypeOK
  <2>3. r \in Responses \cup Errors
    BY DEF Heard, Errors
  <2>4. TypeOK'
    BY <2>1, <2>2, <2>3 DEF HttpInv, TypeOK
  <2>5. Heard(back')
    BY <2>1
  <2>. QED
    BY <2>1, <2>4, <2>5, SamePhaseKeeps
<1>. QED
  BY <1>2, <1>3

-----------------------------------------------------------------------------
(* The actions.                                                            *)

\* Nothing has been made before the call.
LEMMA InitHttpInv == Init => HttpInv
<1>. SUFFICES ASSUME Init PROVE HttpInv
  OBVIOUS
<1>1. TypeOK
  <2>1. signals \in [Tries -> Signal]
    BY NoSignalTyped DEF Init
  <2>2. fetches \in [Tries -> Nat]
    BY DEF Init
  <2>3. ended \in [Tries -> {"no", "status", "network", "final", "request"}]
    BY DEF Init
  <2>4. depth \in 0 .. request.middlewares /\ nexts \in 0 .. MaxNexts /\ attempt \in 0 .. MaxAttempts
    BY HttpClientAssumption DEF Init
  <2>. QED
    BY <2>1, <2>2, <2>3, <2>4 DEF Init, TypeOK, Signal
<1>2. Ledger
  BY NoSignalTyped, HttpClientAssumption DEF Init, Ledger, Right, Future, Past, Tries
<1>3. PhaseRight
  BY DEF Init, PhaseRight
<1>. QED
  BY <1>1, <1>2, <1>3 DEF HttpInv

\* The call begins its first attempt, or fails before any.
LEMMA CallKeeps ==
  ASSUME HttpInv, Call
  PROVE  HttpInv'
<1>1. phase = "idle" /\ attempt = 0 /\ UNCHANGED <<request, aborted>>
  BY DEF Call, HttpInv, PhaseRight
<1>2. CASE UrlFails \/ BodyInit = "throws"
  <2>1. /\ phase' = "settled"
        /\ result' = "input"
        /\ UNCHANGED <<attempt, depth, back, nexts, fetches, signals, ended>>
    BY <1>2 DEF Call
  <2>2. TypeOK'
    BY <1>1, <2>1 DEF HttpInv, TypeOK, Errors
  <2>3. Ledger'
    BY <1>1, <2>1 DEF HttpInv, Ledger, Right, Future, Past, Unarmed
  <2>4. PhaseRight'
    BY <1>1, <2>1 DEF PhaseRight, Over
  <2>. QED
    BY <2>2, <2>3, <2>4 DEF HttpInv
<1>3. CASE ~(UrlFails \/ BodyInit = "throws")
  <2>1. BeginAttempt(signals, "no")
    BY <1>3 DEF Call
  <2>. QED
    BY <1>1, <2>1, Typed, SameIsCalmer, BeginKeeps
<1>. QED
  BY <1>2, <1>3

\* next() goes one middleware further, or to fetch.
LEMMA NextCalledKeeps ==
  ASSUME HttpInv, NextCalled
  PROVE  HttpInv'
<1>1. /\ phase = "dispatch"
      /\ depth < request.middlewares
      /\ Dispatch(depth + 1, attempt)
      /\ UNCHANGED <<request, phase, attempt, signals, ended, aborted, result>>
  BY DEF NextCalled, InMiddleware
<1>2. nexts' \in 0 .. MaxNexts
  BY HttpClientAssumption DEF NextCalled, HttpInv, TypeOK
<1>3. depth' \in 0 .. request.middlewares /\ back' = "none"
  BY <1>1, Typed DEF Dispatch, HttpInv, TypeOK
<1>4. fetches' \in [Tries -> Nat]
  <2>1. attempt \in Tries
    BY <1>1, Typed DEF HttpInv, PhaseRight, InProgress
  <2>. QED
    BY <1>1, <2>1 DEF Dispatch, HttpInv, TypeOK
<1>5. TypeOK'
  BY <1>1, <1>2, <1>3, <1>4 DEF HttpInv, TypeOK
<1>. QED
  BY <1>1, <1>3, <1>5, SamePhaseKeeps

\* A middleware returns what it was given, or something of its own.
LEMMA MiddlewareEndsKeeps ==
  ASSUME HttpInv, MiddlewareEnds
  PROVE  HttpInv'
<1>1. phase = "dispatch" /\ UNCHANGED <<request, aborted>>
  BY DEF MiddlewareEnds, InMiddleware
<1>2. PICK r \in ({back} \ {"none"}) \cup {"200", "error", "network"} : Returned(r)
  BY DEF MiddlewareEnds
<1>3. Heard(r)
  BY <1>1 DEF HttpInv, PhaseRight, InProgress, Heard, Responses
<1>. QED
  BY <1>1, <1>2, <1>3, ReturnedKeeps

\* fetch rejects with what aborted its signal, which did happen.
LEMMA FetchSettlesKeeps ==
  ASSUME HttpInv, FetchSettles
  PROVE  HttpInv'
<1>1. phase = "dispatch" /\ UNCHANGED <<request, aborted>>
  BY DEF FetchSettles, InFetch
<1>2. PICK r \in Responses \cup {"network", "aborted", "timeout"} :
        /\ IF signals[attempt].aborted # "no" THEN r = signals[attempt].aborted
           ELSE IF fetches[attempt] > 1 /\ BodyInit # "none" THEN r = "network"
           ELSE r \notin {"aborted", "timeout"}
        /\ Returned(r)
  BY DEF FetchSettles
<1>3. attempt \in Tries
  BY <1>1, Typed DEF HttpInv, PhaseRight, InProgress
<1>4. Heard(r)
  BY <1>2, <1>3 DEF HttpInv, Ledger, Right, Heard
<1>. QED
  BY <1>1, <1>2, <1>4, ReturnedKeeps

\* The waits that follow a status.
LEMMA BodyCancelledKeeps ==
  ASSUME HttpInv, BodyCancelled
  PROVE  HttpInv'
<1>1. phase = "cancelling" /\ WaitForRetry(signals, "statusWait") /\ UNCHANGED <<request, aborted>>
  BY DEF BodyCancelled
<1>2. MayRetry /\ attempt \in Tries
  BY <1>1, Typed DEF HttpInv, PhaseRight
<1>. QED
  BY <1>1, <1>2, Typed, SameIsCalmer, WaitForRetryKeeps

\* A wait ends: the attempt before it was answered, or never timed out.
LEMMA RetryTimerKeeps ==
  ASSUME HttpInv, RetryTimer
  PROVE  HttpInv'
<1>. DEFINE how == IF phase = "statusWait" THEN "status" ELSE "network"
<1>1. /\ phase \in {"statusWait", "errorWait"}
      /\ BeginAttempt(signals, how)
      /\ UNCHANGED <<request, aborted>>
  BY DEF RetryTimer
<1>2. /\ MayRetry
      /\ how \in {"no", "status", "network"}
      /\ how = "status" \/ (Unarmed(signals, attempt) /\ ~signals[attempt].didTimeout)
  BY <1>1 DEF HttpInv, PhaseRight
<1>3. Calmer(signals)
  BY Typed, SameIsCalmer
<1>. HIDE DEF how
<1>. QED
  BY <1>1, <1>2, <1>3, BeginKeeps

\* The timer of a signal: one that was left by a status, or that of the attempt.
LEMMA AttemptTimeoutKeeps ==
  ASSUME HttpInv, NEW a \in Tries, AttemptTimeout(a)
  PROVE  HttpInv'
<1>. DEFINE v == IF signals[a].aborted = "no" THEN "timeout" ELSE signals[a].aborted
            y == [[[signals[a] EXCEPT !.timer = FALSE] EXCEPT !.didTimeout = TRUE] EXCEPT !.aborted = v]
<1>1. /\ signals[a].timer
      /\ UNCHANGED <<request, phase, attempt, depth, back, nexts, fetches, ended, aborted, result>>
  BY DEF AttemptTimeout
<1>2. signals[a] \in Signal
  BY Typed
<1>3. v \in Reasons
  BY <1>2 DEF Signal, Reasons
<1>4. signals' = [signals EXCEPT ![a] = y]
  BY Typed DEF AttemptTimeout, Signal
<1>. HIDE DEF v
<1>5. y \in Signal /\ ~y.timer /\ y.listener = signals[a].listener /\ y.aborted = v /\ y.didTimeout
  BY <1>2, <1>3, TimedOut
<1>. HIDE DEF y
<1>6. /\ signals' \in [Tries -> Signal]
      /\ signals'[a] = y
      /\ \A t \in Tries : t # a => signals'[t] = signals[t]
  BY <1>4, <1>5, Typed
<1>7. TypeOK'
  BY <1>1, <1>6 DEF HttpInv, TypeOK, Signal
<1>8. Ledger'
  <2>1. Right(signals, aborted)'
    BY <1>1, <1>5, <1>6 DEF HttpInv, Ledger, Right, v
  <2>2. Future(signals)'
    BY <1>1, <1>6 DEF HttpInv, Ledger, Future, NoSignal
  <2>3. Past(signals)'
    BY <1>1, <1>6 DEF HttpInv, Ledger, Past, Unarmed
  <2>. QED
    BY <2>1, <2>2, <2>3 DEF Ledger
<1>9. PhaseRight'
  <2>1. MayRetry' = MayRetry /\ ExpectsOk' = ExpectsOk /\ MergedRetry' = MergedRetry
    BY <1>1 DEF MayRetry, Prepared, MergedRetry, ExpectsOk
  <2>2. attempt # 0 => attempt \in Tries
    BY Typed
  <2>3. InProgress => InProgress'
    BY <1>1, <1>5, <1>6, <2>2, Typed DEF InProgress, Heard, v
  <2>4. phase = "errorWait" => /\ Unarmed(signals, attempt)'
                              /\ ~signals'[attempt].didTimeout
    BY <1>1, <1>6, <2>2 DEF HttpInv, PhaseRight, Unarmed
  <2>5. phase = "settled" /\ Over => Over'
    BY <1>1, <1>6, <2>1, <2>2 DEF Over, Unarmed, Told
  <2>. QED
    BY <1>1, <2>1, <2>3, <2>4, <2>5 DEF HttpInv, PhaseRight
<1>. QED
  BY <1>7, <1>8, <1>9 DEF HttpInv

\* The caller aborts: listeners that were armed have run, waits have rejected.
LEMMA AbortKeeps ==
  ASSUME HttpInv, Abort
  PROVE  HttpInv'
<1>. DEFINE Aborts(x) == [x EXCEPT !.listener = FALSE,
                                   !.aborted = IF @ = "no" THEN "aborted" ELSE @]
            heard == [a \in Tries |-> IF signals[a].listener THEN Aborts(signals[a])
                                      ELSE signals[a]]
            waits == phase \in {"statusWait", "errorWait"}
<1>1. /\ request.signal
      /\ ~aborted
      /\ aborted' = TRUE
      /\ request' = request
  BY DEF Abort
<1>2. signals \in [Tries -> Signal]
  BY Typed
<1>3. \A x \in Signal : /\ Aborts(x) \in Signal
                         /\ ~Aborts(x).listener
                         /\ Aborts(x).timer = x.timer
                         /\ Aborts(x).didTimeout = x.didTimeout
                         /\ Aborts(x).aborted = IF x.aborted = "no" THEN "aborted" ELSE x.aborted
  BY AbortHeard
<1>4. IF waits
      THEN Settle([heard EXCEPT ![attempt].timer = FALSE],
                  IF phase = "statusWait" THEN Resolved("aborted") ELSE "aborted", "final")
      ELSE /\ signals' = heard
           /\ UNCHANGED <<phase, attempt, depth, back, nexts, fetches, ended, result>>
  BY DEF Abort
<1>. HIDE DEF Aborts
<1>5. /\ heard \in [Tries -> Signal]
      /\ \A a \in Tries :
           /\ ~heard[a].listener
           /\ heard[a].timer = signals[a].timer
           /\ heard[a].didTimeout = signals[a].didTimeout
           /\ signals[a].listener => heard[a].aborted # "no"
           /\ signals[a].aborted # "no" => heard[a].aborted = signals[a].aborted
           /\ heard[a].aborted \in {signals[a].aborted, "aborted"}
           /\ ~signals[a].listener => heard[a] = signals[a]
  BY <1>2, <1>3 DEF Signal
<1>. HIDE DEF heard
<1>6. /\ Right(heard, TRUE)
      /\ Future(heard)
      /\ Past(heard)
  <2>1. Right(heard, TRUE)
    BY <1>1, <1>5 DEF HttpInv, Ledger, Right
  <2>2. Future(heard)
    BY <1>5 DEF HttpInv, Ledger, Future, NoSignal
  <2>3. Past(heard)
    BY <1>5 DEF HttpInv, Ledger, Past, Unarmed
  <2>. QED
    BY <2>1, <2>2, <2>3
<1>7. CASE waits
  <2>. DEFINE z == [heard[attempt] EXCEPT !.timer = FALSE]
              s == [heard EXCEPT ![attempt] = z]
              r == IF phase = "statusWait" THEN Resolved("aborted") ELSE "aborted"
  <2>1. attempt \in Tries /\ MayRetry
    BY <1>7, Typed DEF HttpInv, PhaseRight
  <2>2. Settle(s, r, "final")
    BY <1>4, <1>7
  <2>3. heard[attempt] \in Signal
    BY <1>5, <2>1
  <2>4. /\ z \in Signal
        /\ ~z.timer
        /\ z.listener = heard[attempt].listener
        /\ z.aborted = heard[attempt].aborted
        /\ z.didTimeout = heard[attempt].didTimeout
    BY <2>3 DEF Signal
  <2>. HIDE DEF z
  <2>5. /\ s \in [Tries -> Signal]
        /\ s[attempt] = z
        /\ \A a \in Tries : a # attempt => s[a] = heard[a]
    BY <1>5, <2>1, <2>4
  <2>6. r \in Responses \cup Errors
    BY DEF Resolved, Errors
  <2>7. Told(s, r, TRUE)
    BY <1>1, <1>5, <2>1, <2>4, <2>5, Typed DEF Told, Resolved, Responses
  <2>. HIDE DEF s, r
  <2>8. Right(s, TRUE) /\ Future(s) /\ Past(s) /\ Unarmed(s, attempt)
    <3>1. Right(s, TRUE)
      BY <1>6, <2>4, <2>5 DEF Right
    <3>2. Future(s)
      BY <1>6, <2>1, <2>5 DEF Future, Tries
    <3>3. Past(s)
      BY <1>6, <2>1, <2>5 DEF Past, Unarmed, Tries
    <3>4. Unarmed(s, attempt)
      BY <1>5, <2>1, <2>4, <2>5 DEF Unarmed
    <3>. QED
      BY <3>1, <3>2, <3>3, <3>4
  <2>. QED
    BY <1>1, <2>1, <2>2, <2>5, <2>6, <2>7, <2>8, SettleKeeps
<1>8. CASE ~waits
  <2>1. /\ signals' = heard
        /\ UNCHANGED <<phase, attempt, depth, back, nexts, fetches, ended, result>>
    BY <1>4, <1>8
  <2>2. TypeOK'
    BY <1>1, <1>5, <2>1 DEF HttpInv, TypeOK, Signal
  <2>3. Ledger'
    BY <1>1, <1>6, <2>1 DEF Ledger, Right, Future, Past, Unarmed
  <2>4. PhaseRight'
    <3>1. MayRetry' = MayRetry /\ ExpectsOk' = ExpectsOk /\ MergedRetry' = MergedRetry
      BY <1>1, <2>1 DEF MayRetry, Prepared, MergedRetry, ExpectsOk
    <3>2. attempt # 0 => attempt \in Tries
      BY Typed
    <3>3. InProgress => InProgress'
      BY <1>1, <1>5, <2>1, <3>2, Typed DEF InProgress, Heard
    <3>4. phase = "settled" /\ Over => Over'
      BY <1>1, <1>5, <2>1, <3>1, <3>2, Typed DEF Over, Unarmed, Told
    <3>. QED
      BY <1>8, <2>1, <3>1, <3>3, <3>4 DEF HttpInv, PhaseRight
  <2>. QED
    BY <2>2, <2>3, <2>4 DEF HttpInv
<1>. QED
  BY <1>7, <1>8

\* No step breaks the ledger.
LEMMA HttpInvStep == HttpInv /\ [Next]_vars => HttpInv'
<1>. SUFFICES ASSUME HttpInv, [Next]_vars
              PROVE  HttpInv'
  OBVIOUS
<1>1. CASE UNCHANGED vars
  <2>1. TypeOK'
    BY <1>1 DEF HttpInv, TypeOK, vars
  <2>2. Ledger'
    BY <1>1 DEF HttpInv, Ledger, Right, Future, Past, Unarmed, vars
  <2>3. PhaseRight'
    <3>1. MayRetry' = MayRetry /\ ExpectsOk' = ExpectsOk /\ MergedRetry' = MergedRetry
      BY <1>1 DEF MayRetry, Prepared, MergedRetry, ExpectsOk, vars
    <3>. QED
      BY <1>1, <3>1 DEF HttpInv, PhaseRight, InProgress, Heard, Over, Told, Unarmed, vars
  <2>. QED
    BY <2>1, <2>2, <2>3 DEF HttpInv
<1>2. CASE Next
  BY <1>2, CallKeeps, NextCalledKeeps, MiddlewareEndsKeeps, FetchSettlesKeeps,
     BodyCancelledKeeps, RetryTimerKeeps, AbortKeeps, AttemptTimeoutKeeps DEF Next
<1>. QED
  BY <1>1, <1>2

LEMMA HttpInvAlways == Spec => []HttpInv
BY InitHttpInv, HttpInvStep, PTL DEF Spec

-----------------------------------------------------------------------------
\* Every variable of a call keeps its type: the attempts stay below their bound, and
\* no dispatch goes past fetch or before the first middleware.
THEOREM HttpTyped == Spec => []TypeOK
<1>1. HttpInv => TypeOK
  BY DEF HttpInv
<1>. QED
  BY <1>1, HttpInvAlways, PTL

\* The caller is told what happened: a timeout of the attempt that failed, its own
\* abort, a status or a network error only when no attempt is left; and an attempt
\* whose timer fired is followed by another only if the server had answered it.
THEOREM OutcomesExplained == Spec => []OutcomeExplained
<1>1. HttpInv => OutcomeExplained
  <2>. SUFFICES ASSUME HttpInv PROVE OutcomeExplained
    OBVIOUS
  <2>1. phase = "settled" /\ attempt > 0 /\ result # "input" => Told(signals, result, aborted)
    BY DEF HttpInv, PhaseRight, Over
  <2>2. \A a \in Tries : a < attempt /\ signals[a].didTimeout => ended[a] = "status"
    BY DEF HttpInv, Ledger, Past
  <2>. QED
    BY <2>1, <2>2 DEF OutcomeExplained, Told
<1>. QED
  BY <1>1, HttpInvAlways, PTL

\* The attempt in progress hears the caller's abort, and nothing stays armed after
\* an attempt but what a retried answer and a Request that failed leave behind.
THEOREM SignalsAreAccounted == Spec => []SignalsAccounted
<1>1. HttpInv => SignalsAccounted
  <2>. SUFFICES ASSUME HttpInv PROVE SignalsAccounted
    OBVIOUS
  <2>1. phase = "dispatch" /\ request.signal /\ aborted => signals[attempt].aborted # "no"
    BY DEF HttpInv, PhaseRight, InProgress
  <2>2. ASSUME NEW a \in Tries, signals[a].timer \/ signals[a].listener
        PROVE  \/ ended[a] \in {"status", "request"}
               \/ a = attempt /\ phase \in {"dispatch", "cancelling", "statusWait"}
    <3>1. CASE a > attempt
      BY <2>2, <3>1 DEF HttpInv, Ledger, Future, NoSignal
    <3>2. CASE a < attempt
      BY <2>2, <3>2 DEF HttpInv, Ledger, Past, Unarmed
    <3>3. CASE a = attempt
      BY <2>2, <3>3, Typed DEF HttpInv, TypeOK, PhaseRight, Over, Unarmed, Tries
    <3>. QED
      BY <3>1, <3>2, <3>3, Typed DEF Tries
  <2>. QED
    BY <2>1, <2>2 DEF SignalsAccounted
<1>. QED
  BY <1>1, HttpInvAlways, PTL
=============================================================================
