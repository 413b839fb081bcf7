------------------------------ MODULE HttpClient ------------------------------
(***************************************************************************)
(* One call of the HTTP client (src/internal/client/http.ts): execute(),   *)
(* its attempts, the middlewares each attempt goes through, the signal     *)
(* each attempt owns, and the waits between them; or the fetch() of a      *)
(* prepared request, which is one attempt of its own.                      *)
(*                                                                         *)
(* The caller's AbortSignal, the timer of an attempt, the timer of a wait  *)
(* and the settling of fetch are callbacks that come in any order; what    *)
(* follows one of them up to the next await is a single step.              *)
(***************************************************************************)
EXTENDS Integers

CONSTANTS
  Requests,      \* the calls made: records of the fields named below
  MaxAttempts,   \* bound: the largest number of attempts a call asks for
  MaxNexts       \* bound: next() calls in one attempt after the first of each middleware

Responses == {"200", "404", "503"}

\* "error": what a middleware throws; "mismatch": HttpClientError; "network": a
\* TypeError; "input": one thrown before fetch is reached.
Errors == {"network", "aborted", "timeout", "error", "mismatch", "input"}

VARIABLES
  request,   \* the call and the client it is made on
  phase,     \* where execute() is
  attempt,
  depth,     \* the middleware that runs; past the last one, fetch
  back,      \* what the next() of that middleware came back with
  nexts,     \* next() calls repeated in this attempt
  fetches,   \* per attempt, how often its Request went to fetch
  signals,   \* per attempt, the signal createRequestSignal returned
  ended,     \* history: how each attempt ended
  aborted,   \* has the caller aborted its signal?
  result     \* what the promise of the call is settled with

vars == <<request, phase, attempt, depth, back, nexts, fetches, signals, ended,
          aborted, result>>

Tries == 1 .. MaxAttempts

Reasons == {"no", "aborted", "timeout"}

TypeOK ==
  /\ request \in Requests
  /\ phase \in {"idle", "dispatch", "cancelling", "statusWait", "errorWait", "settled"}
  /\ attempt \in 0 .. MaxAttempts
  /\ depth \in 0 .. request.middlewares
  /\ back \in Responses \cup Errors \cup {"none"}
  /\ nexts \in 0 .. MaxNexts
  /\ fetches \in [Tries -> Nat]
  /\ signals \in [Tries -> [aborted : Reasons, listener : BOOLEAN,
                            timer : BOOLEAN, didTimeout : BOOLEAN]]
  /\ ended \in [Tries -> {"no", "status", "network", "final", "request"}]
  /\ aborted \in BOOLEAN
  /\ result \in Responses \cup Errors \cup {"none"}

-----------------------------------------------------------------------------
(* What the call asks for.                                                 *)

AtLeast(low, n) == IF n < low THEN low ELSE n

\* resolveRetryOptions, of the options a client is given.
ResolveRetryOptions(o) ==
  [o EXCEPT !.attempts = AtLeast(1, @), !.delay = AtLeast(0, @)]

\* mergeRetryOptions: the options overridden; resolved again.
MergeRetryOptions(base, over) ==
  ResolveRetryOptions(
    [f \in DOMAIN base |-> IF f \in DOMAIN over THEN over[f] ELSE base[f]])

\* The retry options of a client, of the client extend() made of it, and of the
\* call; retry: false is a single attempt.
RetryOf(r) ==
  IF r.noRetry
  THEN [attempts |-> 1, delay |-> 200, methods |-> {"GET"}, statuses |-> {"503"}]
  ELSE MergeRetryOptions(
         MergeRetryOptions(ResolveRetryOptions(r.retry), r.extended), r.override)

\* What the calls are, and that MaxAttempts bounds the attempts they ask for.
ASSUME HttpClientAssumption ==
  /\ MaxAttempts \in Nat
  /\ MaxNexts \in Nat
  /\ \A r \in Requests :
       /\ r.middlewares \in Nat
       /\ r.signal \in BOOLEAN
       /\ r.timed \in BOOLEAN
       /\ RetryOf(r).attempts \in 1 .. MaxAttempts
       /\ RetryOf(r).statuses \subseteq Responses

MergedRetry == RetryOf(request)

\* A prepared request: one attempt, no middleware, no expectation.
Prepared == request.kind = "prepared"

\* The verb methods build a request with no expectation until expect() or ok()
\* is called on it; the typed ones call expectOk() themselves.
ExpectsOk == request.kind \in {"typed", "expectOk"}

\* enforceExpectation throws.
Unexpected(r) == ExpectsOk /\ r # "200"

MayRetry ==
  ~Prepared /\ request.method \in MergedRetry.methods /\ attempt < MergedRetry.attempts

\* serializeRequestBody: what JSON has no text for is no body.
BodyInit ==
  CASE request.body \in {"none", "function"} -> "none"
    [] request.body \in {"text", "json"}     -> "text"
    [] request.body = "stream"               -> "stream"
    [] request.body = "cyclic"               -> "throws"

\* resolveRequestUrl and applyPathParams: a parameter that is missing, a
\* relative path with no base.
UrlFails ==
  \/ request.url = "missingParam"
  \/ request.url = "relative" /\ ~request.base

\* createRequest: the Request constructor takes no body for GET, and no stream
\* that has been read.
RequestFails ==
  \/ request.method = "GET" /\ BodyInit # "none"
  \/ BodyInit = "stream" /\ \E a \in Tries : fetches[a] > 0

-----------------------------------------------------------------------------
(* createRequestSignal.                                                    *)

NoSignal == [aborted |-> "no", listener |-> FALSE, timer |-> FALSE, didTimeout |-> FALSE]

\* Mutant: one timer for the whole call.
NewSignal_FirstOnly ==
  [aborted |-> IF request.signal /\ aborted THEN "aborted" ELSE "no",
   listener |-> request.signal /\ ~aborted,
   timer |-> request.timed /\ attempt = 0, didTimeout |-> FALSE]

NewSignal ==
  [aborted |-> IF request.signal /\ aborted THEN "aborted" ELSE "no",
   listener |-> request.signal /\ ~aborted,
   timer |-> request.timed, didTimeout |-> FALSE]

\* Mutant: cleanup() clears the timer and forgets the listener.
Cleaned_TimerOnly == [signals EXCEPT ![attempt].timer = FALSE]

\* cleanup() of the attempt's signal.
Cleaned == [signals EXCEPT ![attempt].timer = FALSE, ![attempt].listener = FALSE]

-----------------------------------------------------------------------------
(* Operators from the signals to the next state: the code up to its await. *)

Settle(s, r, how) ==
  /\ phase' = "settled"
  /\ result' = r
  /\ signals' = s
  /\ ended' = [ended EXCEPT ![attempt] = how]
  /\ UNCHANGED <<attempt, depth, back, nexts, fetches>>

\* dispatch(d): the middleware d runs, or fetch does.
Dispatch(d, tries) ==
  /\ depth' = d
  /\ back' = "none"
  /\ fetches' = [fetches EXCEPT ![tries] = IF d = request.middlewares THEN @ + 1 ELSE @]

\* The loop's next turn: a signal, a Request, and the middlewares.
BeginAttempt(s, how) ==
  LET a == attempt + 1
  IN  /\ attempt' = a
      /\ signals' = [s EXCEPT ![a] = NewSignal]
      /\ nexts' = 0
      /\ IF RequestFails
         THEN /\ phase' = "settled"
              /\ result' = "input"
              /\ ended' = [t \in Tries |-> IF t = a THEN "request"
                                           ELSE IF t = attempt THEN how ELSE ended[t]]
              /\ UNCHANGED <<depth, back, fetches>>
         ELSE /\ phase' = "dispatch"
              /\ Dispatch(0, a)
              /\ ended' = [t \in Tries |-> IF t = attempt THEN how ELSE ended[t]]
              /\ UNCHANGED result

\* waitForRetry: no wait and no look at the signal without a delay.
WaitForRetry(s, wait) ==
  LET how == IF wait = "statusWait" THEN "status" ELSE "network"
  IN  \/ /\ MergedRetry.delay = 0
         /\ BeginAttempt(s, how)
      \/ /\ MergedRetry.delay > 0
         /\ request.signal /\ aborted
         /\ Settle(Cleaned, IF wait = "statusWait" /\ s[attempt].didTimeout
                            THEN "timeout" ELSE "aborted", "final")
      \/ /\ MergedRetry.delay > 0
         /\ ~(request.signal /\ aborted)
         /\ phase' = wait
         /\ signals' = s
         /\ UNCHANGED <<attempt, depth, back, nexts, fetches, ended, result>>

\* Mutant: the error is looked at as it came.
Resolved_AsIs(e) == e

\* An error that reaches the catch block after the timer is the timeout's.
Resolved(e) == IF signals[attempt].didTimeout THEN "timeout" ELSE e

\* The catch block of the loop.
Caught(e) ==
  IF MayRetry /\ Resolved(e) = "network"
  THEN WaitForRetry(Cleaned, "errorWait")
  ELSE Settle(Cleaned, Resolved(e), "final")

\* What runMiddlewares settles with: retried, handed over, or caught.
AttemptEnds(r) ==
  IF Prepared THEN Settle(Cleaned, r, "final")
  ELSE IF r \notin Responses THEN Caught(r)
  ELSE IF MayRetry /\ r \in MergedRetry.statuses
  THEN /\ phase' = "cancelling"
       /\ UNCHANGED <<attempt, depth, back, nexts, fetches, signals, ended, result>>
  ELSE IF Unexpected(r) THEN Caught("mismatch")
  ELSE Settle(Cleaned, r, "final")

\* A dispatch(depth) settles: its caller is the middleware before it.
Returned(r) ==
  IF depth = 0 THEN AttemptEnds(r)
  ELSE /\ depth' = depth - 1
       /\ back' = r
       /\ UNCHANGED <<phase, attempt, nexts, fetches, signals, ended, result>>

-----------------------------------------------------------------------------
Init ==
  /\ request \in Requests
  /\ phase = "idle"
  /\ attempt = 0
  /\ depth = 0
  /\ back = "none"
  /\ nexts = 0
  /\ fetches = [a \in Tries |-> 0]
  /\ signals = [a \in Tries |-> NoSignal]
  /\ ended = [a \in Tries |-> "no"]
  /\ aborted = FALSE
  /\ result = "none"

\* The first consumer of the builder calls execute(), and the others share its
\* promise.  URL and body are made before any signal is.
Call ==
  /\ phase = "idle"
  /\ IF UrlFails \/ BodyInit = "throws"
     THEN /\ phase' = "settled"
          /\ result' = "input"
          /\ UNCHANGED <<attempt, depth, back, nexts, fetches, signals, ended>>
     ELSE BeginAttempt(signals, "no")
  /\ UNCHANGED <<request, aborted>>

InMiddleware == phase = "dispatch" /\ depth < request.middlewares

InFetch == phase = "dispatch" /\ depth = request.middlewares

\* next() of the middleware that runs, for the first time or again.
NextCalled ==
  /\ InMiddleware
  /\ \/ back = "none" /\ nexts' = nexts
     \/ back # "none" /\ nexts < MaxNexts /\ nexts' = nexts + 1
  /\ Dispatch(depth + 1, attempt)
  /\ UNCHANGED <<request, phase, attempt, signals, ended, aborted, result>>

\* The middleware returns what next() gave it, or an answer or error of its own.
MiddlewareEnds ==
  /\ InMiddleware
  /\ \E r \in ({back} \ {"none"}) \cup {"200", "error", "network"} : Returned(r)
  /\ UNCHANGED <<request, aborted>>

\* fetch rejects with the reason of an aborted signal; a Request with a body
\* serves one fetch.
FetchSettles ==
  /\ InFetch
  /\ \E r \in Responses \cup {"network", "aborted", "timeout"} :
       /\ IF signals[attempt].aborted # "no" THEN r = signals[attempt].aborted
          ELSE IF fetches[attempt] > 1 /\ BodyInit # "none" THEN r = "network"
          ELSE r \notin {"aborted", "timeout"}
       /\ Returned(r)
  /\ UNCHANGED <<request, aborted>>

\* cancelResponseBody returns, whether the body could be cancelled or not.
BodyCancelled ==
  /\ phase = "cancelling"
  /\ WaitForRetry(signals, "statusWait")
  /\ UNCHANGED <<request, aborted>>

RetryTimer ==
  /\ phase \in {"statusWait", "errorWait"}
  /\ BeginAttempt(signals, IF phase = "statusWait" THEN "status" ELSE "network")
  /\ UNCHANGED <<request, aborted>>

\* The setTimeout of an attempt's signal.
AttemptTimeout(a) ==
  /\ signals[a].timer
  /\ signals' = [signals EXCEPT ![a].timer = FALSE, ![a].didTimeout = TRUE,
                   ![a].aborted = IF @ = "no" THEN "timeout" ELSE @]
  /\ UNCHANGED <<request, phase, attempt, depth, back, nexts, fetches, ended, aborted, result>>

\* The caller aborts: every listener on its signal runs, that of a wait too.
\* A wait after a status is inside the try block, and its rejection is caught.
Abort ==
  LET heard == [a \in Tries |->
        IF signals[a].listener
        THEN [signals[a] EXCEPT !.listener = FALSE,
                                !.aborted = IF @ = "no" THEN "aborted" ELSE @]
        ELSE signals[a]]
  IN  /\ request.signal
      /\ ~aborted
      /\ aborted' = TRUE
      /\ IF phase \in {"statusWait", "errorWait"}
         THEN Settle([heard EXCEPT ![attempt].timer = FALSE],
                     IF phase = "statusWait" THEN Resolved("aborted") ELSE "aborted", "final")
         ELSE /\ signals' = heard
              /\ UNCHANGED <<phase, attempt, depth, back, nexts, fetches, ended, result>>
      /\ UNCHANGED request

Next ==
  \/ Call \/ NextCalled \/ MiddlewareEnds \/ FetchSettles \/ BodyCancelled
  \/ RetryTimer \/ Abort
  \/ \E a \in Tries : AttemptTimeout(a)

Spec == Init /\ [][Next]_vars

-----------------------------------------------------------------------------
(* Fairness: timers fire, a middleware goes on, a body is cancelled, and   *)
(* fetch rejects once its signal is aborted.  Nothing says that a server   *)
(* answers.                                                                *)
Fairness ==
  /\ WF_vars(NextCalled \/ MiddlewareEnds)
  /\ WF_vars(FetchSettles /\ signals[attempt].aborted # "no")
  /\ WF_vars(BodyCancelled)
  /\ WF_vars(RetryTimer)
  /\ \A a \in Tries : WF_vars(AttemptTimeout(a))

FairSpec == Spec /\ Fairness

-----------------------------------------------------------------------------
\* What the caller is told is what happened: a timeout is that of the attempt
\* that failed, an abort is the caller's, a status that asks for a retry or a
\* network error is handed over only when the attempts are used up, and an
\* attempt whose timer fired is followed by another only if the server had
\* answered it.
OutcomeExplained ==
  /\ phase = "settled" /\ attempt > 0 /\ result # "input" =>
       /\ result = "timeout" => signals[attempt].didTimeout
       /\ result = "aborted" => aborted /\ request.signal
       /\ result \in MergedRetry.statuses \cup {"network"} => ~MayRetry
       /\ result = "mismatch" => ~signals[attempt].didTimeout
       /\ ExpectsOk => result \notin Responses \ {"200"}
  /\ \A a \in Tries : a < attempt /\ signals[a].didTimeout => ended[a] = "status"

\* The signal of the attempt in progress hears the caller's abort, however early
\* it came.  Nothing stays armed after an attempt: neither its timer nor its
\* listener, but for an attempt whose answer is retried and for one whose
\* Request could not be made, which are left to the timer and to the caller.
SignalsAccounted ==
  /\ phase = "dispatch" /\ request.signal /\ aborted => signals[attempt].aborted # "no"
  /\ \A a \in Tries :
       (signals[a].timer \/ signals[a].listener) =>
         \/ ended[a] \in {"status", "request"}
         \/ a = attempt /\ phase \in {"dispatch", "cancelling", "statusWait"}

\* A call with a timeout settles, and so does one that is aborted, whatever the
\* server does and however the attempts, the waits and the middlewares follow
\* one another.
CallSettles ==
  phase # "idle" /\ (request.timed \/ (request.signal /\ aborted)) ~> phase = "settled"
=============================================================================
