---------------------------- MODULE RequestPipeline ----------------------------
(***************************************************************************)
(* client.go requestWithOptions with the middlewares NewClient installs:    *)
(* retry around auth, idempotency and events, around the circuit breaker,   *)
(* around the HTTP transport.  Every request is one call of the SDK by a    *)
(* goroutine of its own; all of them share the breaker, which is the        *)
(* CircuitBreaker module.                                                   *)
(*                                                                         *)
(* External: the token source (AuthManager models it), which hands out a    *)
(* token or fails in one of two ways, and the server, which executes a      *)
(* mutating call once per Idempotency-Key and answers, maybe through a      *)
(* gateway that loses the answer or replaces it by a 5xx.  An attempt the   *)
(* SDK has given up on may still reach the server, at any later time.  The  *)
(* delays of the retry are not timed here: a backoff ends at some point.    *)
(***************************************************************************)
EXTENDS Integers, FiniteSets

CONSTANTS Requests,          \* calls of the SDK, each with its goroutine
          Mutating,          \* those that are POST, PUT or PATCH
          SecretOnly,        \* those that need no transaction token
          SharedCtx,         \* those made with one ctx of WithIdempotencyKey
          MaxRetries,        \* Config.MaxRetries
          WireOutcomes,      \* what network and server may do: see Outcomes
          TokenErrors,       \* how the token source may fail
          Cancellable,       \* a caller may cancel its context
          ConfigThreshold, ConfigTimeout, CountCap      \* of the breaker

Statuses   == {"2xx", "4xx", "429", "5xx"}   \* 5xx: 500, 502, 503, 504; 4xx: any other
WireErrors == {"refused", "reset", "eof", "deadline"}
Outcomes   == Statuses \union WireErrors
AuthErrors == {"authNetwork", "authStatus"}

VARIABLES
  state, failureCount, sinceFailure, call,    \* the breaker
  pc,          \* where each request is
  attempt,     \* attempt of the retry middleware
  key,         \* the Idempotency-Key header, {} when absent
  response,    \* mctx.Response, "none" for nil
  err,         \* what next returned to the retry middleware, "none" for nil
  cancelled,   \* the caller's context is cancelled
  result,      \* what the call returned
  executedKeys,\* server: keys whose operation was executed
  effects,     \* server: how often each call's operation was executed
  inFlight,    \* network: attempts given up on that the server may yet receive
  outage       \* history: attempts in a row lost to the network or the server

breakerVars == <<state, failureCount, sinceFailure, call>>
serverVars == <<executedKeys, effects, inFlight>>
pipelineVars == <<breakerVars, pc, attempt, key, response, err, cancelled,
                  result, serverVars, outage>>

Breaker == INSTANCE CircuitBreaker WITH Callers <- Requests

ASSUME PipelineAssumption ==
  /\ Mutating \subseteq Requests /\ SecretOnly \subseteq Requests
  /\ SharedCtx \subseteq Requests
  /\ MaxRetries \in Int
  /\ WireOutcomes \subseteq Outcomes /\ TokenErrors \subseteq AuthErrors
  /\ Cancellable \in BOOLEAN
  /\ ConfigThreshold \in Int /\ ConfigTimeout \in Int
  /\ CountCap \in Nat /\ CountCap >= Breaker!FailureThreshold

\* The attempts of a call are 0..LastAttempt.
LastAttempt == IF MaxRetries > 0 THEN MaxRetries ELSE 0

\* A header is absent or holds one key: the caller's, or a UUID drawn by a
\* request on one of its attempts.
Keys == {{}, {<<"ctx">>}} \union {{<<r, n>>} : r \in Requests, n \in 0..LastAttempt}

PipelineTypeOK ==
  /\ Breaker!BreakerTypeOK
  /\ pc \in [Requests -> {"idle", "attempt", "gate", "wire", "executed",
                       "judge", "backoff", "done"}]
  /\ attempt \in [Requests -> 0..LastAttempt]
  /\ key \in [Requests -> Keys]
  /\ response \in [Requests -> Statuses \union {"none"}]
  /\ err \in [Requests -> WireErrors \union AuthErrors \union {"none", "open", "canceled"}]
  /\ cancelled \in [Requests -> BOOLEAN]
  /\ result \in [Requests -> {"none", "success", "ApiError", "NetworkError",
                              "TimeoutError", "CircuitBreakerOpenError", "UnknownError"}]
  /\ executedKeys \subseteq UNION Keys
  /\ effects \in [Requests -> Nat]
  /\ inFlight \subseteq Mutating \X UNION Keys
  /\ outage \in 0..CountCap

PipelineInit ==
  /\ Breaker!BreakerInit
  /\ pc = [r \in Requests |-> "idle"]
  /\ attempt = [r \in Requests |-> 0]
  /\ key = [r \in Requests |-> {}]
  /\ response = [r \in Requests |-> "none"]
  /\ err = [r \in Requests |-> "none"]
  /\ cancelled = [r \in Requests |-> FALSE]
  /\ result = [r \in Requests |-> "none"]
  /\ executedKeys = {}
  /\ effects = [r \in Requests |-> 0]
  /\ inFlight = {}
  /\ outage = 0

------------------------------------------------------------------------------

Goto(r, from, to) == pc[r] = from /\ pc' = [pc EXCEPT ![r] = to]

\* Mutant: a refused connection is no system failure.
LaxIsSystemFailure(e) == e = "reset"

\* Substrings of the error text decide: "connection", "refused", "dial" or
\* "timeout" make a system failure.  The text of the SDK's own timeout is
\* "context deadline exceeded", that of a connection closed early "EOF": they
\* hold none of them.
IsSystemFailure(e) == e \in {"refused", "reset"}

\* "connection refused", "no such host", "dial"; and "fetch", which is in the
\* message of a token exchange that met a network error.
IsRetryableError(e) == e \in {"refused", "authNetwork"}

IsRetryableStatus(s) == s \in {"429", "5xx"}

\* Mutant: a table shorter than the retries asked for.
OneRetryDelay == 1

RetryDelays == 4        \* length of retryDelays

Start(r) ==
  /\ Goto(r, "idle", "attempt")
  /\ UNCHANGED <<breakerVars, attempt, key, response, err, cancelled, result, serverVars, outage>>

Cancel(r) ==
  /\ Cancellable
  /\ pc[r] \notin {"idle", "done"}
  /\ ~cancelled[r]
  /\ cancelled' = [cancelled EXCEPT ![r] = TRUE]
  /\ UNCHANGED <<breakerVars, pc, attempt, key, response, err, result, serverVars, outage>>

\* GetToken fails: auth returns before the idempotency and event middlewares.
TokenFails(r) ==
  /\ Goto(r, "attempt", "judge")
  /\ r \notin SecretOnly
  /\ \E e \in TokenErrors : err' = [err EXCEPT ![r] = e]
  /\ UNCHANGED <<breakerVars, attempt, key, response, cancelled, result, serverVars, outage>>

\* Mutant: one key for all calls of a client.
ClientKey(r) == {<<"ctx">>}

\* A fresh UUID: no two requests and no two attempts draw the same.
NewKey(r) == {<<r, attempt[r]>>}

\* Mutant: the key is drawn again on every attempt.
AttemptKeyHeader(r) == IF r \in Mutating THEN NewKey(r) ELSE {}

\* The header that reaches the server; headers live as long as the call.
KeyHeader(r) ==
  IF r \notin Mutating THEN {}
  ELSE IF key[r] # {} THEN key[r]
  ELSE IF r \in SharedCtx THEN {<<"ctx">>}
  ELSE NewKey(r)

\* Auth, idempotency and event middlewares let the attempt through.
PassMiddlewares(r) ==
  /\ Goto(r, "attempt", "gate")
  /\ key' = [key EXCEPT ![r] = KeyHeader(r)]
  /\ UNCHANGED <<breakerVars, attempt, response, err, cancelled, result, serverVars, outage>>

EnterBreaker(r) ==
  /\ Goto(r, "gate", "wire")
  /\ Breaker!Admit(r)
  /\ UNCHANGED <<attempt, key, response, err, cancelled, result,
                 serverVars, outage>>

StopAtBreaker(r) ==
  /\ pc[r] = "gate"
  /\ Breaker!Reject(r)
  /\ UNCHANGED <<pc, attempt, key, response, err, cancelled, result,
                 serverVars, outage>>

ReportOpen(r) ==
  /\ Goto(r, "gate", "judge")
  /\ Breaker!ReturnRejected(r)
  /\ err' = [err EXCEPT ![r] = "open"]
  /\ UNCHANGED <<attempt, key, response, cancelled, result, serverVars, outage>>

\* The server executes the operation unless it already did for this key.
ServerExecutes(r) ==
  /\ Goto(r, "wire", "executed")
  /\ r \in Mutating
  /\ ~(key[r] \subseteq executedKeys)
  /\ executedKeys' = executedKeys \union key[r]
  /\ effects' = [effects EXCEPT ![r] = @ + 1]
  /\ UNCHANGED <<inFlight, breakerVars, attempt, key, response, err, cancelled, result, outage>>

\* An attempt that timed out, was cut off or was answered by a gateway reaches
\* the server after all, maybe when the call has long returned.
ArrivesLate(r) ==
  \E k \in UNION Keys :
    /\ <<r, k>> \in inFlight
    /\ inFlight' = inFlight \ {<<r, k>>}
    /\ executedKeys' = executedKeys \union {k}
    /\ effects' = [effects EXCEPT ![r] = IF k \in executedKeys THEN @ ELSE @ + 1]
    /\ UNCHANGED <<breakerVars, pc, attempt, key, response, err, cancelled, result, outage>>

\* What the network and the server can make of an attempt.  2xx comes with an
\* execution, now or by an earlier attempt with the same key; a refused
\* connection and a 4xx or 429 come without one.
PossibleStatuses(r) ==
  {s \in WireOutcomes \intersect Statuses :
     /\ s = "2xx" /\ r \in Mutating => key[r] \subseteq executedKeys
     /\ s \in {"4xx", "429"} => pc[r] = "wire"}

PossibleErrors(r) ==
  {e \in WireOutcomes \intersect WireErrors : e = "refused" => pc[r] = "wire"}
    \union (IF cancelled[r] THEN {"canceled"} ELSE {})

\* Lost to the network or the server: what client.go:234-241 calls a failure.
Longer == IF outage < CountCap THEN outage + 1 ELSE outage

\* The attempt of r, when its end leaves it on the way to the server.
Underway(r) == IF pc[r] = "wire" /\ r \in Mutating THEN {r} \X key[r] ELSE {}

EndAttempt(r) == Goto(r, "wire", "judge") \/ Goto(r, "executed", "judge")

\* Any response, whatever its status, is a nil error for the breaker.
Answer(r) ==
  /\ EndAttempt(r)
  /\ \E s \in PossibleStatuses(r) :
       /\ response' = [response EXCEPT ![r] = s]
       /\ outage' = IF s = "5xx" THEN Longer ELSE 0
       /\ inFlight' = inFlight \union IF s = "5xx" THEN Underway(r) ELSE {}
  /\ Breaker!Succeed(r)
  /\ UNCHANGED <<attempt, key, err, cancelled, result, executedKeys, effects>>

TransportFails(r) ==
  /\ EndAttempt(r)
  /\ \E e \in PossibleErrors(r) :
       /\ err' = [err EXCEPT ![r] = e]
       /\ IF IsSystemFailure(e) THEN Breaker!Fail(r) ELSE Breaker!Abandon(r)
       /\ outage' = IF e = "canceled" THEN outage ELSE Longer
       /\ inFlight' = inFlight \union IF e = "refused" THEN {} ELSE Underway(r)
  /\ UNCHANGED <<attempt, key, response, cancelled, result, executedKeys, effects>>

\* Mutants: one retry too many, one too few.
EagerWantsRetry(r) ==
  /\ IsRetryableStatus(response[r]) \/ IsRetryableError(err[r])
  /\ attempt[r] <= MaxRetries

StingyWantsRetry(r) ==
  /\ IsRetryableStatus(response[r]) \/ IsRetryableError(err[r])
  /\ attempt[r] + 1 < MaxRetries

WantsRetry(r) ==
  /\ IsRetryableStatus(response[r]) \/ IsRetryableError(err[r])
  /\ attempt[r] < MaxRetries

BeginBackoff(r) ==
  /\ Goto(r, "judge", "backoff")
  /\ WantsRetry(r)
  /\ attempt[r] < RetryDelays
  /\ UNCHANGED <<breakerVars, attempt, key, response, err, cancelled, result, serverVars, outage>>

\* retryDelays[attempt] is evaluated before the bound check below it; the panic
\* is recovered by requestWithOptions.
BackoffPanics(r) ==
  /\ Goto(r, "judge", "done")
  /\ WantsRetry(r)
  /\ attempt[r] >= RetryDelays
  /\ result' = [result EXCEPT ![r] = "UnknownError"]
  /\ UNCHANGED <<breakerVars, attempt, key, response, err, cancelled,
                 serverVars, outage>>

\* Mutant: the response of the attempt is not cleared.
StaleNextAttempt(r) ==
  /\ Goto(r, "backoff", "attempt")
  /\ err' = [err EXCEPT ![r] = "none"]
  /\ attempt' = [attempt EXCEPT ![r] = @ + 1]
  /\ UNCHANGED <<breakerVars, key, response, cancelled, result, serverVars, outage>>

\* Mutant: the attempt is not counted.
UncountedNextAttempt(r) ==
  /\ Goto(r, "backoff", "attempt")
  /\ response' = [response EXCEPT ![r] = "none"]
  /\ err' = [err EXCEPT ![r] = "none"]
  /\ UNCHANGED <<breakerVars, attempt, key, cancelled, result, serverVars, outage>>

NextAttempt(r) ==
  /\ Goto(r, "backoff", "attempt")
  /\ response' = [response EXCEPT ![r] = "none"]
  /\ err' = [err EXCEPT ![r] = "none"]
  /\ attempt' = [attempt EXCEPT ![r] = @ + 1]
  /\ UNCHANGED <<breakerVars, key, cancelled, result, serverVars, outage>>

CancelBackoff(r) ==
  /\ Goto(r, "backoff", "done")
  /\ cancelled[r]
  /\ err' = [err EXCEPT ![r] = "canceled"]
  /\ result' = [result EXCEPT ![r] = "NetworkError"]
  /\ UNCHANGED <<breakerVars, attempt, key, response, cancelled,
                 serverVars, outage>>

\* client.go:251-275: the error first, then the status.
Surface(e, s) ==
  CASE e = "open"                    -> "CircuitBreakerOpenError"
    [] e = "deadline"                -> "TimeoutError"
    [] e \notin {"none", "open", "deadline"} -> "NetworkError"
    [] e = "none" /\ s = "none"      -> "UnknownError"
    [] e = "none" /\ s = "2xx"       -> "success"
    [] e = "none" /\ s \in {"4xx", "429", "5xx"} -> "ApiError"

GiveUp(r) ==
  /\ Goto(r, "judge", "done")
  /\ ~WantsRetry(r)
  /\ result' = [result EXCEPT ![r] = Surface(err[r], response[r])]
  /\ UNCHANGED <<breakerVars, attempt, key, response, err, cancelled,
                 serverVars, outage>>

\* Time, for the breaker.
Tick ==
  /\ Breaker!Tick
  /\ UNCHANGED <<pc, attempt, key, response, err, cancelled, result,
                 serverVars, outage>>

Progress(r) ==
  \/ TokenFails(r) \/ PassMiddlewares(r)
  \/ EnterBreaker(r) \/ StopAtBreaker(r) \/ ReportOpen(r)
  \/ Answer(r) \/ TransportFails(r)
  \/ BeginBackoff(r) \/ BackoffPanics(r) \/ NextAttempt(r) \/ CancelBackoff(r) \/ GiveUp(r)

PipelineNext ==
  \/ Tick
  \/ \E r \in Requests :
       Start(r) \/ Cancel(r) \/ ServerExecutes(r) \/ ArrivesLate(r) \/ Progress(r)

PipelineSpec == PipelineInit /\ [][PipelineNext]_pipelineVars

\* A started request goes on: the transport's timeout ends every attempt and
\* time.After every backoff.
FairPipelineSpec == PipelineSpec /\ \A r \in Requests : WF_pipelineVars(Progress(r))

------------------------------------------------------------------------------

\* What the application sees of a call: that it was made, and how it returned.
Outcome(r) == IF result[r] = "none" THEN "pending"
              ELSE IF result[r] = "success" THEN "success" ELSE "error"

Call == INSTANCE PaymentCall WITH
          Calls   <- Requests,
          called  <- {r \in Requests : pc[r] # "idle"},
          effects <- effects,
          outcome <- [r \in Requests |-> Outcome(r)]

\* The pipeline is a PaymentCall per request: executed at most once, before or
\* after its return; no success without an execution of its own; one result,
\* which never changes (client.go:161-276, middleware.go:158-272).
ImplementsCall == Call!CallSpec

\* However often a call is retried, and whatever answers are lost on the way,
\* the server executes its operation at most once: the key drawn on the first
\* attempt that gets past auth is the key of them all (middleware.go:262-268).
EffectAtMostOnce == \A r \in Requests : effects[r] <= 1

\* A mutating call that succeeds had its own operation executed, not that of
\* another call (idempotency.go:7-13, client.go:275).
SuccessMeansExecuted ==
  \A r \in Mutating : result[r] = "success" => effects[r] = 1

\* No attempt sees the response of an earlier one: an error never comes with a
\* response, so a stale status decides neither a retry nor the breaker's
\* isSystemFailure (middleware.go:177-208, client.go:242).
NoStaleResponse ==
  \A r \in Requests : pc[r] # "done" => err[r] = "none" \/ response[r] = "none"

\* The delay table covers every retry: the retry middleware does not panic
\* (middleware.go:187, README.md:1108 "hrpay.WithMaxRetries(5)").
RetryNeverPanics == \A r \in Requests : result[r] # "UnknownError"

\* A call gives up on a retryable answer only when its retries are used up or
\* its context is cancelled (README.md:1125).
GivesUpExhausted ==
  \A r \in Requests :
    pc[r] = "done" /\ err[r] # "canceled"
      /\ (IsRetryableStatus(response[r]) \/ IsRetryableError(err[r]))
      => attempt[r] = LastAttempt

\* Every call of the SDK returns: retries, backoffs and rejections by the
\* breaker add up to no endless loop (middleware.go:174-214).
EveryRequestReturns == \A r \in Requests : (pc[r] = "attempt") ~> (pc[r] = "done")

\* README.md:1126 "ouvre apres 5 echecs", failures being what client.go:234 and
\* 241 say, network, timeout and 5xx: so many attempts lost in a row leave no
\* CLOSED breaker.
OutageOpensBreaker == outage >= Breaker!FailureThreshold => state # "CLOSED"

================================================================================
