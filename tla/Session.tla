-------------------------------- MODULE Session --------------------------------
(***************************************************************************)
(* A client at work: the calls of RequestPipeline get their tokens from the *)
(* AuthManager they share, and time passes for both.  createAuthMiddleware  *)
(* asks for a token on every attempt; the attempt then goes through the     *)
(* breaker to the wire, where the transport's timeout ends it; a retryable  *)
(* answer is followed by the delay of the table or by what Retry-After asks.*)
(*                                                                         *)
(* One Config.Timeout bounds the exchange and the attempt (client.go:76,    *)
(* 216).  Goroutines are prompt: no unit of time passes while one of them   *)
(* carries a token from its exchange or its cache to the wire.  Beyond      *)
(* MaxTime, the bound on the token clock, only the backoffs go on.          *)
(***************************************************************************)
EXTENDS RequestPipeline

CONSTANTS Tokens, NoCaller, NoToken, ExpiresIn, TokenTTL, Margin, Timeout,
          CacheFaults, MaxTime,       \* of the token manager
          RetryDelay,   \* the delay table, in units of time
          Second,       \* units in a second
          RetryAfter,   \* numbers the header may hold
          NoHeader,     \* stands for a header that is absent or no number
          HalfRange     \* a time.Duration is in -HalfRange .. HalfRange-1

VARIABLES
  now, cache, mutex, meta, place, entry, sentAt, token, issued, dies, ttl, dropped,
  carried,   \* the X-Transaction-Token header, NoToken when absent
  wireAge,   \* how long the attempt has been on the wire
  header,    \* Retry-After of the response
  timer,     \* what is left of a backoff
  asked      \* history: what is left of the wait a 429 asked for

tokenVars == <<now, cache, mutex, meta, place, entry, sentAt, token, ttl,
               issued, dies, dropped>>
headerVars == <<carried, wireAge, header, timer, asked>>
sessionVars == <<pipelineVars, tokenVars, headerVars>>

\* Panics of the HTTP client, restarts, Refresh and ClearCache are checked there.
Auth == INSTANCE AuthManager WITH
          Callers <- Requests, pc <- place,
          ClientPanics <- FALSE, Persistent <- FALSE, Restarts <- FALSE

ASSUME SessionAssumption ==
  /\ NoCaller \notin Requests /\ NoToken \notin Tokens
  /\ ExpiresIn \subseteq Int
  /\ TokenTTL \in Nat \ {0} /\ Margin \in Nat /\ Timeout \in Nat \ {0}
  /\ CacheFaults \subseteq {"get", "set", "delete"}
  /\ MaxTime \in Nat
  /\ RetryDelay \in [0..RetryDelays - 1 -> Nat]
  /\ Second \in Nat \ {0} /\ HalfRange \in Nat \ {0}
  /\ RetryAfter \subseteq Int /\ NoHeader \notin Int

Headers == RetryAfter \union {NoHeader}

SessionTypeOK ==
  /\ PipelineTypeOK /\ Auth!AuthTypeOK
  /\ carried \in [Requests -> Tokens \union {NoToken}]
  /\ wireAge \in [Requests -> 0..Timeout]
  /\ header \in [Requests -> Headers]
  /\ timer \in [Requests -> Nat]
  /\ asked \in [Requests -> Nat]

SessionInit ==
  /\ PipelineInit
  /\ Auth!AuthInit
  /\ carried = [r \in Requests |-> NoToken]
  /\ wireAge = [r \in Requests |-> 0]
  /\ header = [r \in Requests |-> NoHeader]
  /\ timer = [r \in Requests |-> 0]
  /\ asked = [r \in Requests |-> 0]

------------------------------------------------------------------------------

\* The attempt asks for a token.
AskToken(r) ==
  /\ pc[r] = "attempt" /\ r \notin SecretOnly
  /\ Auth!CallGetToken(r)
  /\ UNCHANGED <<pipelineVars, headerVars>>

\* GetToken at work, up to its return; the token server answers.
GetToken(r) ==
  /\ place[r] # "done"
  /\ Auth!GoOn(r)
  /\ UNCHANGED <<pipelineVars, headerVars>>

AwaitLock(r) == Auth!Lock(r) /\ UNCHANGED <<pipelineVars, headerVars>>

IssueToken(r) == Auth!ServerIssues(r) /\ UNCHANGED <<pipelineVars, headerVars>>

\* Mutant: a token header that is there is kept, like the Idempotency-Key.
StickyCarry(r) ==
  /\ PassMiddlewares(r)
  /\ IF r \in SecretOnly
       THEN UNCHANGED <<tokenVars, carried>>
       ELSE /\ token[r] # NoToken
            /\ Auth!Return(r)
            /\ carried' = [carried EXCEPT ![r] = IF @ = NoToken THEN token[r] ELSE @]
  /\ UNCHANGED <<wireAge, header, timer, asked>>

\* The token GetToken returned replaces the header of the attempt before.
Carry(r) ==
  /\ PassMiddlewares(r)
  /\ IF r \in SecretOnly
       THEN UNCHANGED <<tokenVars, carried>>
       ELSE /\ token[r] # NoToken
            /\ Auth!Return(r)
            /\ carried' = [carried EXCEPT ![r] = token[r]]
  /\ UNCHANGED <<wireAge, header, timer, asked>>

GetTokenFails(r) ==
  /\ token[r] = NoToken
  /\ Auth!Return(r)
  /\ TokenFails(r)
  /\ UNCHANGED headerVars

\* The breaker admits the attempt to the wire or stops it.
MeetBreaker(r) ==
  /\ EnterBreaker(r) \/ StopAtBreaker(r) \/ ReportOpen(r)
  /\ UNCHANGED <<tokenVars, headerVars>>

\* A number of seconds that makes a Duration, and is one to wait for.
InRange(h) == h # NoHeader /\ h >= 0 /\ h * Second < HalfRange

\* The answer of the server, with its Retry-After.
Respond(r) ==
  /\ Answer(r)
  /\ \E h \in Headers :
       /\ response'[r] # "429" => h = NoHeader
       /\ header' = [header EXCEPT ![r] = h]
       /\ asked' = [asked EXCEPT ![r] = IF InRange(h) THEN h * Second ELSE 0]
  /\ wireAge' = [wireAge EXCEPT ![r] = 0]
  /\ UNCHANGED <<tokenVars, carried, timer>>

LoseAnswer(r) ==
  /\ TransportFails(r)
  /\ wireAge' = [wireAge EXCEPT ![r] = 0]
  /\ UNCHANGED <<tokenVars, carried, header, timer, asked>>

\* A Duration is a signed integer; time.After fires at once for a negative one.
Wrap(d) == ((d + HalfRange) % (2 * HalfRange)) - HalfRange
AtLeastZero(d) == IF d > 0 THEN d ELSE 0

\* Mutant: the table is used whatever the answer asks for.
DeafDelay(r) == RetryDelay[attempt[r]]

\* Retry-After counts on a 429 only, and only if strconv.Atoi can read it.
Delay(r) ==
  IF response[r] = "429" /\ header[r] # NoHeader
    THEN AtLeastZero(Wrap(header[r] * Second))
    ELSE RetryDelay[attempt[r]]

FallAsleep(r) ==
  /\ BeginBackoff(r)
  /\ timer' = [timer EXCEPT ![r] = Delay(r)]
  /\ UNCHANGED <<tokenVars, carried, wireAge, header, asked>>

WakeUp(r) ==
  /\ timer[r] = 0
  /\ NextAttempt(r)
  /\ header' = [header EXCEPT ![r] = NoHeader]
  /\ asked' = [asked EXCEPT ![r] = 0]
  /\ UNCHANGED <<tokenVars, carried, wireAge, timer>>

\* The call returns; its headers die with it.
Finish(r) ==
  /\ GiveUp(r) \/ BackoffPanics(r) \/ CancelBackoff(r)
  /\ carried' = [carried EXCEPT ![r] = NoToken]
  /\ header' = [header EXCEPT ![r] = NoHeader]
  /\ timer' = [timer EXCEPT ![r] = 0]
  /\ asked' = [asked EXCEPT ![r] = 0]
  /\ UNCHANGED <<tokenVars, wireAge>>

\* What the application and the server do in the pipeline.
Outside(r) ==
  /\ Start(r) \/ Cancel(r) \/ ServerExecutes(r) \/ ArrivesLate(r)
  /\ UNCHANGED <<tokenVars, headerVars>>

OnWire(r) == pc[r] \in {"wire", "executed"}

\* Between its exchange or the comparison with the clock and the wire.
Prompt(r) == place[r] \in {"store", "unlock", "done"} \/ pc[r] = "gate"

\* Time passes for tokens, attempts, backoffs and the breaker at once.
SessionTick ==
  /\ \A r \in Requests : ~Prompt(r) /\ (OnWire(r) => wireAge[r] < Timeout)
  /\ \/ Auth!Tick
     \/ now = MaxTime /\ (\E r \in Requests : timer[r] > 0) /\ UNCHANGED tokenVars
  /\ IF sinceFailure < Breaker!Aged
       THEN Tick ELSE UNCHANGED pipelineVars
  /\ wireAge' = [r \in Requests |-> IF OnWire(r) THEN wireAge[r] + 1 ELSE wireAge[r]]
  /\ timer' = [r \in Requests |-> AtLeastZero(timer[r] - 1)]
  /\ asked' = [r \in Requests |-> AtLeastZero(asked[r] - 1)]
  /\ UNCHANGED <<carried, header>>

CallStep(r) ==
  \/ AskToken(r) \/ GetToken(r) \/ Carry(r) \/ GetTokenFails(r)
  \/ MeetBreaker(r) \/ Respond(r) \/ LoseAnswer(r) \/ FallAsleep(r) \/ WakeUp(r) \/ Finish(r)

SessionNext ==
  \/ SessionTick
  \/ \E r \in Requests : CallStep(r) \/ AwaitLock(r) \/ IssueToken(r) \/ Outside(r)

SessionSpec == SessionInit /\ [][SessionNext]_sessionVars

\* Time passes, goroutines run, and sync.Mutex hands the lock on in the end.
\* Strong fairness is for that lock: any other step of a call, once enabled,
\* stays so until the call takes a step.
SessionFairness ==
  /\ WF_sessionVars(SessionTick)
  /\ \A r \in Requests : SF_sessionVars(CallStep(r) \/ AwaitLock(r))

FairSessionSpec == SessionSpec /\ SessionFairness

------------------------------------------------------------------------------

\* A token is alive at the server for as long as the attempt that carries it may
\* take to arrive: the margin of auth.go:342 outlasts the timeouts of the exchange
\* (client.go:76) and of the request (client.go:216) together, also after a backoff
\* (middleware.go:244-248).
TokenAliveOnArrival ==
  \A r \in Requests : pc[r] = "wire" /\ r \notin SecretOnly => now < dies[carried[r]]

\* No retry before the time a 429 asked for, however other calls, timeouts and the
\* table interleave (middleware.go:193-205, README.md:1125 "respect de `Retry-After`").
RetryAfterRespected ==
  [][\A r \in Requests : pc[r] = "backoff" /\ pc'[r] = "attempt" => asked[r] = 0]_sessionVars

\* am.mu is held just between Lock and Unlock, whatever the calls, their retries
\* and the cache go through (auth.go:218-234).
LockDiscipline == Auth!LockDiscipline

\* Every call returns, though its attempts wait for am.mu behind the exchanges of
\* other calls, for the wire and in backoffs (middleware.go:174-214, auth.go:218).
EveryRequestReturnsInTime ==
  \A r \in Requests : (pc[r] = "attempt") ~> (pc[r] = "done")

================================================================================
