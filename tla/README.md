# TLA+ specification of the hrpay Go SDK

hrpay (`src/`) is a client library for a payment API: an application's
goroutines share one `Client` and call its services. The SDK keeps a token,
retries, throttles, breaks the circuit, attaches idempotency keys and polls. All
the difficulty is in what the goroutines share and in what the network does
between two steps of a call; that is what is modelled here, model-checked with
TLC and, for every value of the constants, proved with TLAPS.

Contents: [Inventory](#inventory), [Modules](#modules), [Runs](#runs),
[Bounds](#bounds), [Fairness](#fairness), [Proofs](#proofs),
[Findings](#findings), [Disagreements](#disagreements-seen-not-run),
[Not modelled](#not-modelled), [Plan](#plan).

## Inventory

| component | state it keeps | operations | what makes it correct |
|---|---|---|---|
| Circuit breaker, `internal/breaker/breaker.go` | `state`, `failureCount`, `lastFailureTime` under `cb.mu` | `Execute` (`checkState`, the request without the lock, `onSuccess`/`onFailure`), `Reset`, `GetState` | the state agrees with the failures since the last success and with the clock, in every interleaving of late results; it does not stay open while calls go on |
| Token manager, `auth.go` | token metadata under `metaMu`; `am.mu` guards the exchange; the token is in the cache | `GetToken`, `Refresh`, `ClearCache`, `IsTokenValid`, getters | no refresh storm, one exchange at a time, no dead token called valid, a refresh replaces the token, the lock is given back |
| Token caches, `auth.go` | a map (memory) or a JSON file, each with an RWMutex | `Get`, `Set`, `Delete` | an atomic map; a write of one key keeps the others; what a crash costs |
| Request pipeline, `client.go`, `middleware.go`, `idempotency.go`, `internal/transport` | per call: headers, response, attempt; shared: breaker, cache, throttle | `requestWithOptions` through throttle, retry, auth, idempotency, events, breaker, HTTP | an operation is executed at most once over retries; success means executed; the token an attempt carries is alive when it arrives; Retry-After is waited for; retries are neither cut short nor endless |
| Throttle, `middleware.go` | `lastRequestTime` under a mutex | the throttle middleware | spacing of requests |
| Polling, `transactions.go`, `card_customers.go` | attempt, deadline | `Poll`, `PollEnrollment` | what is returned is a verdict; a timeout hides none; it ends in time |
| Services, `cashin.go` ... `payroll.go` | none | one request per method, its check and its decoder | an order with a key happens once; "done" is reported only when done; a refusal is an error |
| Error model, `errors.go` | none | `ParseApiError`, `Is`, `normalizeCode`, code tables | `errors.Is` tells an application truly what became of its order, under every code and spelling |
| Webhooks, HMAC, `webhooks.go`, `internal/crypto` | none | `VerifySignature`, `ConstructEvent` | an event is decoded only from the bytes that were signed; both forms of the header are accepted |
| Logger, configuration, examples | none | - | - |

How they interact. A service method makes parameters into one request and hands
it to `requestWithOptions`. That runs the middleware chain: logger, throttle
(once per call), retry (a loop of attempts), auth (asks the token manager for a
token), idempotency (draws or takes the key), events, then middlewares added
by `Use`, and the handler, in which the breaker admits or rejects the attempt and
the transport sends it. The token
manager goes to the network through the transport alone: not through the breaker,
the retry or the throttle. Errors travel back outwards, through the retry's
classification, and are turned into the SDK's error types at the end, where
panics are recovered too. `Poll` is a loop around one of these calls.

What is hard. Many goroutines share the breaker, the token, the mutexes and the
throttle, and all of these are read in one critical section and used in another.
Answers are lost, late, or replaced by a 5xx after the server has done the work.
Tokens expire while they are read; the process stops between a truncation and a
write; a callback or an injected HTTP client may panic with a lock held. The list
with lines is under `hazards` in `PROJECT.json`, each with the properties that
cover it or the reason why none does.

## Modules

| module | models | composes |
|---|---|---|
| `CircuitBreaker` | `breaker.go` | refines `FailureGate` |
| `FailureGate` | what a breaker promises: a gate that knows a streak and an age | - |
| `AuthManager` | `auth.go`, `AuthManager` | the cache as one entry with faults |
| `FileTokenCache` | `auth.go`, the file cache | refines `TokenStore` |
| `TokenStore` | what any `TokenCache` promises, and what the in-memory one does | - |
| `RequestPipeline` | retry, auth, idempotency, handler, surfacing of errors | instantiates `CircuitBreaker`, refines `PaymentCall` |
| `PaymentCall` | what a call promises: at most one execution, no success without it, an error leaves it open | - |
| `Session` | a client at work: tokens, backoffs, `Retry-After` and timeouts on one clock | `RequestPipeline`, `AuthManager`, the breaker; refines `RequestPipeline` |
| `ErrorModel` | `errors.go`: statuses, codes, aliases, sentinels, `Is` | - |
| `Throttle` | `createThrottleMiddleware` | - |
| `Poll` | `Poll` and `PollEnrollment` | a fetch is a whole pipeline call |
| `Operations` | every service method | the pipeline as its outcomes, `ErrorModel`; refines `OrderLedger` |
| `OrderLedger` | what the methods promise about orders: executed once, settled for good, truly reported | - |
| `MC*` | values of the constants, symmetry | the module after `MC` |
| `*Proofs` | theorems and proofs | the module before `Proofs` |

Definitions named `Lax...`, `Late...`, `Stale...` and so on that follow the comment
"Mutant" are plausible wrong versions of the definition after them. Nothing in the
specifications uses them: they show that each property can fail.

**CircuitBreaker.** `Admit`/`Reject` are `checkState`, one critical section, with the
step from OPEN to HALF_OPEN in it; `Succeed` and `Fail` are `onSuccess` and
`onFailure`; `Abandon` is an error that is no system failure, for which the code
does nothing at all. The request runs between them without the lock, so `call`
says which goroutines are inside. `lastFailureTime` is kept as its age: the code
only ever compares it with `resetTimeout`, and the age saturates one unit above.

**FailureGate** has no automaton: a call is denied when the failures since the
last success reach the threshold and the last is not older than the window.
`ImplementsGate` says that the three states add nothing to this. One consequence
worth knowing: HALF_OPEN admits every caller, not one probe.

**AuthManager.** `GetToken` is a program counter through: read the cache without the
lock, decide, `Lock`, read again, exchange (`Send`, the server's `ServerIssues`,
`Receive`), `Store`, `Unlock`. `Refresh` deletes first. `ClearCache` happens at any
moment. The cache may fail in the ways `CacheFaults` lists, the HTTP client may
panic (`ClientPanics`), the process may restart (`Restarts`) with a cache that
survives (`Persistent`). The server is external: it issues every token once and
knows when it dies (`dies`), which the SDK does not. `dropped` is a history
variable: the token a `Refresh` found.

**FileTokenCache.** `Set` and `Delete` are three steps under the lock (lock and read,
truncate, write and unlock); `os.WriteFile` truncates before it writes, so a crash
or a full disk leaves `Torn`, which is no JSON. A `Set` that cannot read the file goes
on with an empty map (`BeginBlindSet`), and so loses the other keys. `Get` holds the
read lock, during which no writer moves, and is one step. The refinement mapping to
`TokenStore` shows the map that was read until the truncated file is written.

**RequestPipeline.** One request per goroutine, the breaker shared. `pc` is the place
in the chain: `attempt` (retry's loop body), `gate` (breaker), `wire`, `executed` (the
server has done the work and the answer is outstanding), `judge` (back in the
retry middleware), `backoff`, `done`. The two variables `response` and `err` are
`mctx.Response` and the error `next` returned. `Surface` is the order in which
`requestWithOptions` maps them to what the caller gets. `IsSystemFailure` and
`IsRetryableError` are the code's searches for substrings in error texts, by what
they yield for the errors the transport really makes. The server is external, and
executes a mutating call once per Idempotency-Key. `outage` is history: attempts in
a row that the network or the server lost.

A request may also arrive late: after its attempt's timeout, or after the whole call
has returned an error (`inFlight`, `ArrivesLate`).

**PaymentCall** is the promise of one mutating call. `Execute` is enabled at any time after
the call was made, also after it returned an error: an application must not take an
error for "not executed". `ImplementsCall` maps a request in any place of the chain
to "called", and its result to success or error. It needs that no context with a key serves
two mutating calls (`OneCallPerContext` in the proofs), as idempotency.go asks.

**Session** puts `AuthManager` and `RequestPipeline` on one clock. An attempt
asks for a token (`AskToken`, then the steps of `GetToken`), carries it (`Carry`, the header
is set anew on every attempt), passes the breaker and is on the wire for at most
`Timeout` (`wireAge`). `FallAsleep` starts the timer with the delay of the table or with
what `Retry-After` asks for, in the arithmetic of a `time.Duration` (`Wrap`), and `WakeUp` needs it
to have run out. `asked` is history: the wait that a 429 asked for, 0 where the header is no
number of seconds to wait for. Time does not pass while a goroutine is between its exchange,
or its comparison with the clock, and the wire (`Prompt`): the margin is for the network, not
for a process that is stopped in between. Restarts, panics of the client, `Refresh` and
`ClearCache` stay in `AuthManager`'s own run.

**ErrorModel.** Codes are words in lower case, for the code compares them with `EqualFold` and
`ToLower`. `ParseApiError` is what an answer becomes, `Learns` what an application
that asks `errors.Is`, and where two wallets share a sentinel the type of the error, makes of it.

**Throttle.** Comparing the stamp and waking up are two critical sections; a sleeper
reserves nothing, and overwrites the stamp on waking without comparing again. So the spacing is each goroutine's own.

**Poll.** One loop with two tables of statuses. The server moves at any moment
through `Moves`. The deadline is compared before the sleep (`now + interval >
deadline`), a fetch takes up to `FetchMax`, and `settledAt` is history: when the
payment reached its verdict.

**Operations.** A table with one row per service method: HTTP method, whether the SDK
checks parameters, which decoder reads the body, whether the server may answer
"pending". One order is submitted by several goroutines, with one key
(`WithIdempotencyKey`) or a fresh one each; a caller may give up while its request
is on the way. Fields and parameters are abstracted; the decoders are modelled by
what they make of a body with the result, of one without and of a refusal in a 2xx.
The server answers a refusal with any sentinel that means one, in any of its spellings, or
with a status and no code; `fate` keeps the reason, so that `ErrorTellsFate` can compare it
with what the caller learns. A retry of the SDK may meet its own first attempt at work
(`RetryConflicts`).

**OrderLedger** knows orders, what became of them and what each goroutine was told: no
keys, requests, stored answers, bodies or decoders. An order is executed only while it is
open or was refused with an error status; one declined in a 2xx stays declined, for
its key replays that answer. What was executed only settles; a goroutine is told once, and
nothing that the ledger does not say at that moment. An error, or a zero value, says nothing of the order.
`ImplementsLedger` maps the server's memory of a key to the order's fate, and a report to what it
says (`Says`, `InLedger`): a read asks for nothing to be done, so its result says nothing.

## Runs

| run | bounds | question | result |
|---|---|---|---|
| `breaker` | 3 goroutines, threshold 5, timeout 15 (the client's own settings) | does the automaton agree with the streak and the clock; is it the gate; does it get out of OPEN | holds |
| `auth` | 2 goroutines, 2 tokens, clock to 4, failing `Set`, panics, restarts, memory cache | one exchange at a time, no redundant one, no dead token, refresh replaces, metadata known | holds |
| `auth_panic` | a client that panics | does every call return | violated |
| `pipeline` | 2 mutating calls, one with a key in its context, 3 retries, all outcomes, failing token source, late arrivals | at most once; is it a `PaymentCall`; fresh responses; retries used up; no panic | holds |
| `pipeline_cancel` | a mutating and a secret-only call, 5 retries, cancellation, connections refused or 429 | an outage opens the breaker; every call returns | holds |
| `pipeline_panic` | 1 call, 5 retries, only 5xx | does the delay table suffice | violated |
| `pipeline_5xx` | 1 call, only 5xx, threshold 3 | does an outage open the breaker | violated |
| `session` | 2 calls, 1 retry, 2 tokens, clock to 3, 429s with and without `Retry-After`, timeouts, refused exchanges | tokens alive on arrival; `Retry-After` respected; `am.mu` given back; every call returns | holds |
| `throttle` | 3 goroutines, delay 2, clock to 6 | own spacing | holds |
| `file_cache` | 3 goroutines, 2 keys, 2 entries, crashes, disk errors | exclusive updates; is it a `TokenStore` | holds |
| `poll` | options absent or given, fetch up to 2, cancellation | verdicts, honest timeouts, bounded overrun, termination | holds |
| `operations` | every method, 3 goroutines | an order once, done means done, a refusal is an error, `errors.Is` tells the fate; is it an `OrderLedger` | holds |

What they show, property by property:

- `ClosedIffShortStreak`, `HalfOpenIsAged`: results of requests that were admitted
  before the breaker opened arrive after it did; none leaves it open with a short
  streak or closed with a long one.
- `NoRedundantFetch`, `OneExchangeAtATime`: the double check under the lock works
  although the first read, deletions and expiry interleave with it, and when `Set`
  fails the next exchange waits for the one before.
- `ValidMeansAlive`: `expiresAt` is computed when the answer arrives, later than the
  server's own clock started; the margin covers the difference as long as it is not
  smaller than the exchange's timeout.
- `EffectAtMostOnce`, `ImplementsCall`: the key drawn on the first attempt that gets past auth
  is the key of them all, also when the first attempts failed before it was drawn, and
  no two calls share one; so an operation is executed once, whenever its requests arrive,
  and success is never reported without it.
- `TokenAliveOnArrival`: between `GetToken`'s comparison and the arrival lie a timeout of
  the exchange and one of the request; the default margin, 60 s, is exactly twice the default
  timeout, 30 s. With `WithTimeout(45 * time.Second)` it no longer covers both.
- `RetryAfterRespected`: whatever other calls, expiring tokens and the breaker do between a 429 and
  its retry. `LockDiscipline`, `EveryRequestReturnsInTime`: no path through exchange, retry and
  timeout leaves `am.mu` held, and a call queueing for it gets through.
- `NoStaleResponse`: the retry resets the response, so no status of an earlier
  attempt decides anything about a later one.
- `GivesUpExhausted`, `EveryRequestReturns`: neither too few nor endless retries.
- `TimeoutMeansUnsettled`, `EndsInTime`: a `POLL_TIMEOUT` hides no verdict that came
  one interval and one fetch before the deadline, and overruns it by one fetch.
- `OrderOnce`: also when a timed-out request arrives after the order was submitted
  again. `DoneMeansDone`: also for the answers that say 202.
- `ErrorTellsFate`: a refusal is reported with its reason, or as a refusal, under every alias and
  for every status without a code; a conflict is reported only while the order is at work.
- `ImplementsLedger`: also for a goroutine that gave up, which is told nothing more when the
  answer comes; for an order that was refused, submitted again and executed; and for the replay of a
  pending answer after the order has settled or failed: "pending" then says that it was executed.

Deadlock is switched off (`CHECK_DEADLOCK FALSE`) in `auth_panic`, in the `pipeline`
runs, `session`, `throttle`, `poll` and `operations`: there a finite set of calls returns, or
the clock reaches its bound, and the system stops.

## Bounds

- **Goroutines.** Two or three. The shared state (a mutex, a stamp, a breaker) gives
  one goroutine no way to tell two others apart, and the theorems hold for any set.
- **Breaker.** 5 and 15 units, the values `client.go` uses, in `breaker`; 2 (or 3) and 1
  in the pipeline runs, where the breaker has to open and half-open within a few
  attempts. `CountCap` is one above the threshold there or equal to it: the count is
  only compared with the threshold.
- **Clock.** `MaxTime` 4 with a lifetime of 3 (or 1, or absent), a margin of 1 and a
  timeout of 1 lets a token be issued, kept, expire and be replaced. Throttle: 6, three
  delays of 2. `session`: `MaxTime` 3 bounds the token clock, the backoffs go on beyond it.
- **Session.** Timeout 1, margin 2 and lifetime 3 are the smallest numbers in the ratio of the
  defaults (30 s, 60 s) under which a token can be used at all; the margin is tight, so one
  unit more anywhere breaks `TokenAliveOnArrival`. A second is a unit, and `HalfRange` 4 makes a
  `Retry-After` of 5 overflow a Duration and 2 fit. The breaker opens on the first failure.
- **Retries.** 3, the default, with every outcome; 5, more than the four delays of the table,
  with three outcomes; 1 in `session`.
- **Poll.** Options are zero (defaults apply) or 2, 4 and 2: a given interval is longer
  than the default of payments and shorter than that of customers; with a fetch of
  up to 2 a poll makes up to six attempts. `LatestStart` 1 keeps deadlines apart from
  timeouts.
- **Cache file.** Two keys, so that a write can lose the other one; two entries, so
  that an overwrite differs from a write.

## Fairness

- `AuthFairness` (in `auth_panic`): goroutines run (weak fairness of their steps; the exchange
  ends because the transport puts a timeout on its context), and `Lock` is strongly fair
  for each caller, which is what the starvation mode of `sync.Mutex` gives.
- `SessionFairness`: time passes, and each call takes its steps. Its fairness is strong because
  of the mutex; every other step, once enabled, stays so. `IssueToken`, an answer of
  the token server, is not forced: the exchange then ends by its timeout.
- `BreakerFairness`: time passes, a request ends by the transport's timeout, and
  somebody goes on calling the SDK. Without the last OPEN would stay: it is left
  only by a call.
- `FairPipelineSpec`: an attempt ends by the transport's timeout, a backoff by
  `time.After`; nothing forces a call to be started, cancelled or executed.
- `FairPollSpec`: time passes and the poll takes its steps; the server need never
  settle a payment.

No fairness is assumed of the server, the cache or the application's calls except
as said.

## Proofs

The `*Proofs` modules prove, for every value of the constants that satisfies the named
assumptions (`BreakerAssumption`, `AuthAssumption`, `PipelineAssumption`, `FileAssumption`,
`PollAssumption`, `ThrottleAssumption`, `SessionAssumption`, `OperationsAssumption`; types, and `CountCap` not below the threshold):

| theorem | says | the invariant behind it |
|---|---|---|
| `BreakerTypeCorrect`, `StateFollowsStreak`, `HalfOpenFollowsClock` | types; the state follows the streak and the clock | `BreakerInv`, their conjunction: HALF_OPEN must be known to be aged for a failure in it to reopen the breaker |
| `BreakerImplementsGate` | every behaviour is one of `FailureGate` | `BreakerInv`, with `DeniesAgree`: the guard of `Reject` is the gate's `Denies` |
| `OpenBreakerCountsDown` | assuming finitely many callers: while the breaker stays open, `OpenRank` never rises, and falls with each unit of time and each request that ends | `BreakerInv`; in OPEN nothing enters, so each request under way restarts the timeout at most once |
| `AuthTypeCorrect` | types | itself |
| `OneExchange` | exchanges exclude each other, even with panics | `Owner`: whoever is between Lock and Unlock owns the mutex |
| `MutexIsReleased` | assuming a client that does not panic, the mutex is held exactly there | `LockDiscipline` |
| `NoRefreshStorm` | assuming a cache that can be read, no exchange beside a valid token | `FetchInv`: what the lock holder read is still in the cache, or deleted, and during the exchange the cache holds nothing valid; `ExpiryIsFinal`: an invalid entry stays so |
| `ValidTokensAreAlive` | assuming the timeout is not above the margin | `ExpiryInv`: every entry expires no later than its token dies, and the stages of an exchange know how old the answer can be |
| `RefreshReplacesToken` | assuming a cache that can delete | `PlacesInv` and `ReplaceInv`: where a token can be, and that a dropped one is in no place its dropper will read |
| `MetadataComesWithToken` | assuming that no token survives its process | `MetaInv`: before the first answer of an exchange there is no token anywhere |
| `PipelineTypeCorrect` | types, the breaker's by the breaker's own lemmas | `SoundInv`: the breaker's invariant and the types, and that a backoff has a retry left |
| `AtMostOnce` | a call is executed at most once | `KeyInv`: a call that was executed has a key, which is among the executed ones |
| `ResponseIsFresh` | no error beside a response | `ResponseInv`: which places of the chain have which of the two |
| `NoPanicUpToFourRetries` | assuming `MaxRetries <= 4` | `EndInv`: how a call that ended ended |
| `RetriesAreUsedUp` | a call gives up only when its retries are used up | `EndInv` |
| `NetworkOutageOpensBreaker` | assuming no 5xx, early close or timeout | `CountInv`: the outage is the breaker's count |
| `SuccessIsExecuted`, `PipelineImplementsCall` | assuming one mutating call per context with a key: success means executed; every behaviour is one of `PaymentCall` | `OwnInv`, `ExecutedInv`: calls send keys of their own only, and an executed key is that of an executed call |
| `PipelineImplementsGate` | through all calls the shared breaker is a `FailureGate` | the lemmas of `CircuitBreakerProofs`, instantiated, for each step of the pipeline that moves the breaker |
| `EveryStepCountsDown` | a call takes at most eight steps per attempt: `Rank` is a natural number of that size, falls with each step of its call and is raised by none | `SoundInv` |
| `SessionImplementsPipeline` | every behaviour of a session is one of the pipeline, so all that is proved of that holds with timed tokens and backoffs | one step or a stutter per action |
| `SessionTypeCorrect`, `SessionLockDiscipline` | types; the mutex | those of `AuthManagerProofs` and `RequestPipelineProofs`, whose lemmas are instantiated |
| `TokensOutliveAttempts` | assuming `RoomyMargin`: 2 timeouts fit in the margin, and lifetimes exceed 2 timeouts | `FreshInv`: a token handed out outlives one more timeout, and one on the wire what is left of its attempt's; from `AuthManagerProofs`' `ExpiryInv` |
| `RetryWaits` | no retry before the time a 429 asked for, in the arithmetic of a Duration | `AskedInv`: what is left of that time is at most what is left of the backoff |
| `SessionImplementsTokenManager` | every behaviour of a session is one of `AuthManager` with the calls for callers, no restart and no panic | one step or a stutter per action |
| `SessionHasNoRefreshStorm`, `SessionExchangesInTurn` | in a session, assuming a cache that can be read: no exchange beside a valid token; exchanges exclude each other and metadata comes with the token | `AuthManagerProofs`' theorems, through the refinement |
| `SessionImplementsCall` | assuming one mutating call per context with a key: a session's calls are `PaymentCall`s and executed at most once | `RequestPipelineProofs`' theorems, through the refinement |
| `SessionStepsCountDown` | `SessionRank` is natural, falls with each step of a call, of the lock and of the exchange, and rises with none | `EveryStepCountsDown`'s lemmas, and `GetToken` has no loop (`TokenWayDrops`) |
| `OperationsTypeCorrect`, `OrdersHappenOnce`, `DoneIsDone`, `RefusalsAreErrors` | the four invariants of orders, for any operation and any number of goroutines | `OrderInv`: one request works under a key, a busy key has one, what is stored under it agrees with the fate, and a call returned what is stored |
| `NormalizeOnce` | an alias stands for a code that is no alias | the table, alias by alias |
| `ErrorsTellTheTruth` | `ErrorTellsFate`, for every sentinel, alias and bare status | the table lemmas (what `ParseApiError` and `Learns` make of each family of answers), and `BusyInv`: somebody works on an order whose key is busy, so a conflict is true |
| `OperationsImplementLedger` | every behaviour is one of `OrderLedger` | `OrderInv`, with `FinalInv`: an order executed or declined has its answer under its key or is about to, so nobody is let in for it again; `SilentInv`: who has not returned has reported nothing |
| `EffectsCountOrders` | there were as many executions as orders were executed | `FinalInv` |
| `ThrottleTypeCorrect` | types | `StampInv`, for the sleep's length |
| `ThrottleSpacesEachCaller` | own spacing, an action property | `StampInv`: the stamp is no older than any goroutine's last request, a sleeper wakes a delay after its own |
| `FileTypeCorrect`, `UpdatesAreExclusive` | types; the writer alone updates, from the map it read or from none | `FileInv` |
| `FileCacheIsStore` | the cache file is a `TokenStore` under crashes and disk errors | `FileInv`; one lemma of a step or a stutter per action |
| `PollTypeCorrect`, `PollReturnsVerdict`, `TimeoutIsHonest`, `PollEndsInTime` | the four safety properties of polling | `PollInv`: counts, results, times (`TimeInv`), what was seen (`SeenInv`: a terminal status seen is still the server's, but for a refund) and what was unsettled when seen (`UnsettledInv`) |
| `EveryPollCountsDown` | while a poll runs, `PollRank` is natural, falls with each unit of time and each step, and neither the server nor a cancellation raises it | `PollInv`, for its times: a sleep costs time that is left before the deadline |

Every invariant and every action property of the runs is proved. Only model-checked is
liveness: `OpenIsNotForever`, `EveryRequestReturns`, `EveryRequestReturnsInTime` and
`EveryPollReturns` need fairness and `ENABLED`, out of the prover's reach. Of each the half that is
safety is proved, for every value of the constants: `OpenBreakerCountsDown`,
`EveryStepCountsDown`, `SessionStepsCountDown` and `EveryPollCountsDown` give a natural number that
every step towards the end lowers and no other step raises, so nothing goes round for ever. What
they do not say is that such a step is always possible and taken (that no call waits
for a lock nobody gives back, say); that is what the liveness runs check.

## Findings

1. **A panic in the exchange leaves `am.mu` locked** (`auth_panic`). `GetToken` locks
   without a deferred unlock (auth.go:218-234). A panic of the injected HTTP client
   unwinds past it and is recovered at client.go:166, and every later `GetToken` that
   needs an exchange waits for ever. README.md:1128 offers the recovery of panics.
2. **The fifth retry panics** (`pipeline_panic`). middleware.go:187 indexes
   `retryDelays`, four long, before the bound is compared. README.md:1108 offers
   `WithMaxRetries(5)`. The call returns an `UnknownError`.
3. **5xx answers never open the breaker** (`pipeline_5xx`). client.go:234-241 says they
   should; a response is a nil error for the breaker, so `isSystemFailure` is not even
   asked and each 5xx counts as a success.

## Disagreements seen, not run

Met while reading; no run states them.

- README.md:1126: the breaker closes after 15 s. It goes to HALF_OPEN on the next
  call after them and closes on a success only (breaker.go:83).
- README.md:221: `Refresh` forces a new token. If another goroutine's exchange is under
  way, `Refresh` returns the token of that one, which may have been issued before
  `Refresh` was called (auth.go:239); when the cache's `Delete` fails it returns the old
  one (auth.go:238). `RefreshReplaces` is the part that holds.
- README.md:214: the token is renewed 60 s before it expires. That covers an exchange and a
  request only while the timeout is at most 30 s (`TokenAliveOnArrival`, `RoomyMargin`).
- README.md:1125: `Retry-After` is respected. Its form with a date is not: it is no number, and the
  table is used; a negative number retries at once, one past the width of a Duration
  too (middleware.go:194-196).
- A 401 for a token the server revoked neither clears the cache nor fetches another: every
  call fails until the token's own expiry, or until `Refresh` (middleware.go:244).
- README.md:525: a 503 `provider_not_configured` is to be tried again later. A gateway's 503 without
  a code reads the same (errors.go:394), though the order may have been executed.
- A retry after a gateway's 5xx may meet its own first attempt at work; the 409 it gets is
  reported as a conflict, which reads as if the application had sent the key twice (middleware.go:183).
- Retries do not pass the throttle (client.go:104-109): `MinDelay` spaces calls, not requests.
- README.md:103: the environment is known after the first call. With a persistent cache
  and a restart it is not: only an exchange delivers it (auth.go:331).
- Timeouts do not open the breaker either: the text "context deadline exceeded" holds
  none of the words searched for (client.go:234-235).
- config.go:110: `OnError` is called on failures. It is not for an error status, nor for a
  failing token exchange (middleware.go:283).
- errors.go:251: an open circuit says "Request blocked". An earlier attempt of the same
  call may have been executed when a retry meets the open breaker (client.go:253).
- errors.go:162: refused keys are an authentication error. When the exchange is refused
  the call returns a `NetworkError` (client.go:263).
- idempotency.go:7: a key belongs to one order. Two mutating calls made with one context
  send the same key (middleware.go:264) and the server answers the second with the first.
- config.go:17 and README.md:1109 call the throttle a maximal rate. Goroutines that sleep
  at the same time wake together (middleware.go:145).
- transactions.go:81 and its likes: a 2xx with `success:false` is returned by `Refund`, the
  bill, airtime, data and payroll methods as a zero value without an error, while
  cash-in, cash-out and card creation check for it.

## Not modelled

- **Webhooks and HMAC**: `VerifySignature` compares two strings, `ConstructEvent` decodes one; there is
  no state, and over an abstract HMAC a model would only restate their lines.
- **Two processes, or two `FileTokenCache` values, on one file**: nothing is locked between them and
  no document promises anything of it, so there is no property to state.
- **A revoked token**: the server of `Session` lets tokens die of age only.
- **Logger**: output. **Configuration**: options are the constants of the modules.
- **Custom middlewares and callbacks**: application code, which may do anything to a
  call; `Compose` is modelled by the fixed chain `NewClient` builds.
- **The throttle in `Session`**: it is passed once per call, before its first attempt, and has its own run.
- **URL building, JSON fields, wording of errors**: abstracted.
- **Examples and tests**: callers, read as documentation.

## Plan

Done, in this order: breaker, token manager, pipeline, throttle, file cache, polling, services;
then the abstract payment call and its refinement, the composition of tokens and calls with
timed backoffs, the error model, the proofs about sessions and orders, and then the order ledger
with its refinement, the proof of the error model, the refinements of a session, and the
countdowns under the liveness properties.

Left, each of less weight than what is there:

1. Callbacks and custom middlewares in the pipeline: which failures `OnError` is told of.
2. Several processes on one cache file, if the project decides to promise something there.
3. Revoked tokens, if a 401 is ever made to refresh the token.
4. The other half of liveness without `ENABLED`: in every reachable state some guard of a step
   that counts down holds (for a call waiting for `am.mu`, one of the lock's owner).
