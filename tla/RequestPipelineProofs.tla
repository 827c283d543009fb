------------------------ MODULE RequestPipelineProofs ------------------------
(***************************************************************************)
(* Theorems about RequestPipeline, for any set of calls, any number of      *)
(* retries, any setting of the breaker and any behaviour of the network.    *)
(***************************************************************************)
EXTENDS RequestPipeline, TLAPS

BP == INSTANCE CircuitBreakerProofs WITH Callers <- Requests

\* The actions of the pipeline that are no step of the breaker leave it alone;
\* the others take one step of it (client.go:219-246).
LEMMA BreakerStep == [PipelineNext]_pipelineVars => [Breaker!BreakerNext]_(Breaker!breakerVars)
<1> SUFFICES ASSUME [PipelineNext]_pipelineVars
             PROVE  [Breaker!BreakerNext]_(Breaker!breakerVars)
  OBVIOUS
<1> USE DEF Breaker!BreakerNext, Breaker!breakerVars, Breaker!Complete, breakerVars
<1>1. CASE Tick
  BY <1>1 DEF Tick
<1>2. ASSUME NEW r \in Requests, EnterBreaker(r) \/ StopAtBreaker(r) \/ ReportOpen(r)
      PROVE  Breaker!BreakerNext
  BY <1>2 DEF EnterBreaker, StopAtBreaker, ReportOpen
<1>3. ASSUME NEW r \in Requests, Answer(r) \/ TransportFails(r)
      PROVE  Breaker!BreakerNext
  BY <1>3 DEF Answer, TransportFails
<1>4. ASSUME NEW r \in Requests,
             \/ Start(r) \/ Cancel(r) \/ ServerExecutes(r) \/ ArrivesLate(r) \/ TokenFails(r) \/ PassMiddlewares(r)
             \/ BeginBackoff(r) \/ BackoffPanics(r) \/ NextAttempt(r) \/ CancelBackoff(r) \/ GiveUp(r)
      PROVE  UNCHANGED breakerVars
  BY <1>4 DEF Start, Cancel, ServerExecutes, ArrivesLate, TokenFails, PassMiddlewares,
              BeginBackoff, BackoffPanics, NextAttempt, CancelBackoff, GiveUp
<1>5. CASE UNCHANGED pipelineVars
  BY <1>5 DEF pipelineVars
<1> QED
  BY <1>1, <1>2, <1>3, <1>4, <1>5 DEF PipelineNext, Progress

\* The pipeline's breaker satisfies the assumption of CircuitBreaker.
LEMMA BreakerSettings ==
  /\ ConfigThreshold \in Int /\ ConfigTimeout \in Int
  /\ CountCap \in Nat /\ CountCap >= Breaker!FailureThreshold
BY PipelineAssumption

\* BP!InvInit, about the pipeline's breaker (client.go:81-84).
LEMMA BreakerStartsSound == Breaker!BreakerInit => Breaker!BreakerInv
BY BreakerSettings, BP!InvInit
DEF BP!BreakerAssumption, Breaker!BreakerInit, BP!BreakerInit,
    Breaker!BreakerInv, BP!BreakerInv, Breaker!BreakerTypeOK, BP!BreakerTypeOK,
    Breaker!ClosedIffShortStreak, BP!ClosedIffShortStreak,
    Breaker!HalfOpenIsAged, BP!HalfOpenIsAged, Breaker!ResetDue, BP!ResetDue,
    Breaker!Aged, BP!Aged, Breaker!FailureThreshold, BP!FailureThreshold,
    Breaker!ResetTimeout, BP!ResetTimeout

\* BP!InvNext, about the steps the pipeline takes of its breaker.
LEMMA BreakerKeepsSound ==
  Breaker!BreakerInv /\ [PipelineNext]_pipelineVars => Breaker!BreakerInv'
BY BreakerSettings, BP!InvNext, BreakerStep
DEF BP!BreakerAssumption, Breaker!BreakerInv, BP!BreakerInv,
    Breaker!BreakerTypeOK, BP!BreakerTypeOK,
    Breaker!ClosedIffShortStreak, BP!ClosedIffShortStreak,
    Breaker!HalfOpenIsAged, BP!HalfOpenIsAged, Breaker!ResetDue, BP!ResetDue,
    Breaker!Aged, BP!Aged, Breaker!FailureThreshold, BP!FailureThreshold,
    Breaker!ResetTimeout, BP!ResetTimeout, Breaker!BreakerNext, BP!BreakerNext,
    Breaker!breakerVars, BP!breakerVars, Breaker!Tick, BP!Tick, Breaker!Reset, BP!Reset,
    Breaker!Admit, BP!Admit, Breaker!Reject, BP!Reject, Breaker!Succeed, BP!Succeed,
    Breaker!Fail, BP!Fail, Breaker!Abandon, BP!Abandon, Breaker!Complete, BP!Complete,
    Breaker!ReturnRejected, BP!ReturnRejected

--------------------------------------------------------------------------------

\* A call in backoff has a retry left.
RetryLeft == \A r \in Requests : pc[r] = "backoff" => attempt[r] < MaxRetries

\* Any header the idempotency middleware sets is one key or none
\* (middleware.go:262-269).
LEMMA HeaderTyped ==
  ASSUME PipelineTypeOK, NEW r \in Requests
  PROVE  KeyHeader(r) \in Keys
BY PipelineAssumption DEF PipelineTypeOK, KeyHeader, NewKey, Keys

\* An attempt on its way to the server is one of a mutating call, under its key
\* (client.go:220-225).
LEMMA UnderwayTyped ==
  ASSUME PipelineTypeOK, NEW r \in Requests
  PROVE  Underway(r) \subseteq Mutating \X UNION Keys
BY DEF PipelineTypeOK, Underway

\* The steps of a call keep the types, given that the breaker's are kept.
LEMMA PipelineTypeNext ==
  PipelineTypeOK /\ RetryLeft /\ Breaker!BreakerTypeOK' /\ [PipelineNext]_pipelineVars
    => PipelineTypeOK' /\ RetryLeft'
<1> SUFFICES ASSUME PipelineTypeOK, RetryLeft, Breaker!BreakerTypeOK',
                    [PipelineNext]_pipelineVars
             PROVE  PipelineTypeOK' /\ RetryLeft'
  OBVIOUS
<1> USE PipelineAssumption
    DEF PipelineTypeOK, RetryLeft, Goto, serverVars, WireErrors, AuthErrors, Statuses, LastAttempt
<1>1. CASE Tick
  BY <1>1 DEF Tick
<1>2. ASSUME NEW r \in Requests, Start(r) \/ Cancel(r)
      PROVE  PipelineTypeOK' /\ RetryLeft'
  <2>1. CASE Start(r)
    BY <2>1 DEF Start
  <2>2. CASE Cancel(r)
    <3>1. cancelled' \in [Requests -> BOOLEAN]
      BY <2>2 DEF Cancel
    <3> QED
      BY <2>2, <3>1 DEF Cancel
  <2> QED
    BY <1>2, <2>1, <2>2
<1>3. ASSUME NEW r \in Requests, TokenFails(r)
      PROVE  PipelineTypeOK' /\ RetryLeft'
  BY <1>3 DEF TokenFails
<1>4. ASSUME NEW r \in Requests, PassMiddlewares(r)
      PROVE  PipelineTypeOK' /\ RetryLeft'
  <2>1. KeyHeader(r) \in Keys
    BY HeaderTyped
  <2> QED
    BY <1>4, <2>1 DEF PassMiddlewares
<1>5. ASSUME NEW r \in Requests, EnterBreaker(r) \/ StopAtBreaker(r) \/ ReportOpen(r)
      PROVE  PipelineTypeOK' /\ RetryLeft'
  <2>1. CASE EnterBreaker(r) \/ StopAtBreaker(r)
    BY <2>1 DEF EnterBreaker, StopAtBreaker
  <2>2. CASE ReportOpen(r)
    BY <2>2 DEF ReportOpen
  <2> QED
    BY <1>5, <2>1, <2>2
<1>6. ASSUME NEW r \in Requests, ServerExecutes(r)
      PROVE  PipelineTypeOK' /\ RetryLeft'
  <2>1. key[r] \subseteq UNION Keys /\ effects[r] + 1 \in Nat
    OBVIOUS
  <2>2. executedKeys' \subseteq UNION Keys /\ effects' \in [Requests -> Nat]
    BY <1>6, <2>1 DEF ServerExecutes
  <2> QED
    BY <1>6, <2>2 DEF ServerExecutes
<1>7. ASSUME NEW r \in Requests, Answer(r)
      PROVE  PipelineTypeOK' /\ RetryLeft'
  <2>1. inFlight' \subseteq Mutating \X UNION Keys
    BY <1>7, UnderwayTyped DEF Answer
  <2> QED
    BY <1>7, <2>1 DEF Answer, EndAttempt, PossibleStatuses, Longer
<1>8. ASSUME NEW r \in Requests, TransportFails(r)
      PROVE  PipelineTypeOK' /\ RetryLeft'
  <2>1. inFlight' \subseteq Mutating \X UNION Keys
    BY <1>8, UnderwayTyped DEF TransportFails
  <2> QED
    BY <1>8, <2>1 DEF TransportFails, EndAttempt, PossibleErrors, Longer
<1>9. ASSUME NEW r \in Requests, BeginBackoff(r) \/ BackoffPanics(r)
      PROVE  PipelineTypeOK' /\ RetryLeft'
  BY <1>9 DEF BeginBackoff, BackoffPanics, WantsRetry
<1>10. ASSUME NEW r \in Requests, NextAttempt(r)
       PROVE  PipelineTypeOK' /\ RetryLeft'
  BY <1>10 DEF NextAttempt
<1>11. ASSUME NEW r \in Requests, CancelBackoff(r)
       PROVE  PipelineTypeOK' /\ RetryLeft'
  BY <1>11 DEF CancelBackoff
<1>12. ASSUME NEW r \in Requests, GiveUp(r)
       PROVE  PipelineTypeOK' /\ RetryLeft'
  BY <1>12 DEF GiveUp, Surface
<1>13. ASSUME NEW r \in Requests, ArrivesLate(r)
       PROVE  PipelineTypeOK' /\ RetryLeft'
  <2>1. effects' \in [Requests -> Nat]
    BY <1>13 DEF ArrivesLate
  <2>2. executedKeys' \subseteq UNION Keys /\ inFlight' \subseteq Mutating \X UNION Keys
    BY <1>13 DEF ArrivesLate
  <2> QED
    BY <1>13, <2>1, <2>2 DEF ArrivesLate
<1>14. CASE UNCHANGED pipelineVars
  BY <1>14 DEF pipelineVars, breakerVars
<1> QED
  BY <1>1, <1>2, <1>3, <1>4, <1>5, <1>6, <1>7, <1>8, <1>9, <1>10, <1>11, <1>12, <1>13, <1>14
  DEF PipelineNext, Progress

\* The breaker's invariant, the types and the retries left, together.
SoundInv == Breaker!BreakerInv /\ PipelineTypeOK /\ RetryLeft

\* A client starts sound (client.go:44-147).
LEMMA SoundInit == PipelineInit => SoundInv
<1> SUFFICES ASSUME PipelineInit PROVE SoundInv
  OBVIOUS
<1>1. Breaker!BreakerInv
  BY BreakerStartsSound DEF PipelineInit
<1>2. PipelineTypeOK /\ RetryLeft
  BY <1>1, PipelineAssumption
  DEF PipelineInit, PipelineTypeOK, RetryLeft, Breaker!BreakerInv, Keys, WireErrors,
      AuthErrors, Statuses, LastAttempt
<1> QED
  BY <1>1, <1>2 DEF SoundInv

\* Every step keeps it.
LEMMA SoundNext == SoundInv /\ [PipelineNext]_pipelineVars => SoundInv'
<1> SUFFICES ASSUME SoundInv, [PipelineNext]_pipelineVars
             PROVE  SoundInv'
  OBVIOUS
<1>1. Breaker!BreakerInv'
  BY BreakerKeepsSound DEF SoundInv
<1>2. Breaker!BreakerTypeOK'
  BY <1>1 DEF Breaker!BreakerInv
<1> QED
  BY <1>1, <1>2, PipelineTypeNext DEF SoundInv

\* The breaker and the calls of a client keep their types, and a call makes at
\* most MaxRetries retries (middleware.go:171-216).
THEOREM PipelineTypeCorrect == PipelineSpec => []PipelineTypeOK
<1>1. SoundInv => PipelineTypeOK
  BY DEF SoundInv
<1> QED
  BY <1>1, SoundInit, SoundNext, PTL DEF PipelineSpec

--------------------------------------------------------------------------------

\* A call whose operation was executed still carries the key it was executed
\* under, and so does every attempt of it that is still on its way.
KeyInv ==
  /\ \A r \in Requests :
       effects[r] # 0 => /\ effects[r] = 1 /\ r \in Mutating
                         /\ key[r] # {} /\ key[r] \subseteq executedKeys
  /\ \A r \in Mutating, k \in UNION Keys : <<r, k>> \in inFlight => key[r] = {k}

\* The middleware replaces no key that is set (middleware.go:263).
LEMMA KeySticks ==
  ASSUME NEW r \in Mutating, key[r] # {}
  PROVE  KeyHeader(r) = key[r]
BY DEF KeyHeader

\* A header holds one key (middleware.go:262-269).
LEMMA OneKey ==
  ASSUME PipelineTypeOK, NEW r \in Requests, NEW k \in key[r]
  PROVE  key[r] = {k}
BY DEF PipelineTypeOK, Keys

\* The end of an attempt leaves nothing on its way but that attempt.
LEMMA UnderwayKeyed ==
  ASSUME PipelineTypeOK, NEW r \in Requests, NEW q \in Mutating, NEW k \in UNION Keys,
         <<q, k>> \in Underway(r)
  PROVE  key[q] = {k}
<1>1. q = r /\ k \in key[r]
  BY DEF Underway
<1> QED
  BY <1>1, OneKey

\* Every step keeps executed calls bound to their keys.
LEMMA KeyNext == PipelineTypeOK /\ KeyInv /\ [PipelineNext]_pipelineVars => KeyInv'
<1> SUFFICES ASSUME PipelineTypeOK, KeyInv, [PipelineNext]_pipelineVars
             PROVE  KeyInv'
  OBVIOUS
<1> USE PipelineAssumption DEF KeyInv, PipelineTypeOK, serverVars
<1>1. ASSUME NEW r \in Requests, PassMiddlewares(r)
      PROVE  KeyInv'
  BY <1>1, KeySticks DEF PassMiddlewares
<1>2. ASSUME NEW r \in Requests, ServerExecutes(r)
      PROVE  KeyInv'
  <2>1. key[r] # {} /\ effects[r] = 0
    BY <1>2 DEF ServerExecutes
  <2> QED
    BY <1>2, <2>1 DEF ServerExecutes
<1>3. ASSUME NEW r \in Requests, ArrivesLate(r)
      PROVE  KeyInv'
  <2>1. PICK k \in UNION Keys :
          /\ <<r, k>> \in inFlight
          /\ inFlight' = inFlight \ {<<r, k>>}
          /\ executedKeys' = executedKeys \union {k}
          /\ effects' = [effects EXCEPT ![r] = IF k \in executedKeys THEN @ ELSE @ + 1]
          /\ key' = key
    BY <1>3 DEF ArrivesLate
  <2>2. r \in Mutating /\ key[r] = {k}
    BY <2>1
  <2>3. k \notin executedKeys => effects[r] = 0
    BY <2>2
  <2> QED
    BY <2>1, <2>2, <2>3
<1>4. ASSUME NEW r \in Requests,
             \/ Start(r) \/ Cancel(r) \/ TokenFails(r)
             \/ EnterBreaker(r) \/ StopAtBreaker(r) \/ ReportOpen(r)
      PROVE  KeyInv'
  BY <1>4 DEF Start, Cancel, TokenFails, EnterBreaker, StopAtBreaker, ReportOpen
<1>5. ASSUME NEW r \in Requests, Answer(r) \/ TransportFails(r)
      PROVE  KeyInv'
  <2>1. /\ inFlight' \subseteq inFlight \union Underway(r)
        /\ UNCHANGED <<key, executedKeys, effects>>
    BY <1>5 DEF Answer, TransportFails
  <2> QED
    BY <2>1, UnderwayKeyed
<1>6. ASSUME NEW r \in Requests,
             BeginBackoff(r) \/ BackoffPanics(r) \/ NextAttempt(r) \/ CancelBackoff(r) \/ GiveUp(r)
      PROVE  KeyInv'
  BY <1>6 DEF BeginBackoff, BackoffPanics, NextAttempt, CancelBackoff, GiveUp
<1>7. CASE Tick
  BY <1>7 DEF Tick
<1>8. CASE UNCHANGED pipelineVars
  BY <1>8 DEF pipelineVars
<1> QED
  BY <1>1, <1>2, <1>3, <1>4, <1>5, <1>6, <1>7, <1>8 DEF PipelineNext, Progress

\* At most one execution per call, for every number of calls and retries, every
\* loss of answers and every cancellation, given a server that executes a key
\* once (middleware.go:253-273, 171-216).
THEOREM AtMostOnce == PipelineSpec => []EffectAtMostOnce
<1>1. PipelineInit => KeyInv
  BY DEF PipelineInit, KeyInv
<1>2. KeyInv => EffectAtMostOnce
  <2> SUFFICES ASSUME KeyInv, NEW r \in Requests
               PROVE  effects[r] <= 1
    BY DEF EffectAtMostOnce
  <2>1. effects[r] = 0 \/ effects[r] = 1
    BY DEF KeyInv
  <2> QED
    BY <2>1
<1>3. SoundInv => PipelineTypeOK
  BY DEF SoundInv
<1> QED
  BY <1>1, <1>2, <1>3, SoundInit, SoundNext, KeyNext, PTL DEF PipelineSpec

--------------------------------------------------------------------------------

\* The keys a call may send: its context's, or those it draws itself.
OwnKeys(r) == IF r \in SharedCtx THEN {<<"ctx">>} ELSE {<<r, n>> : n \in 0..LastAttempt}

\* A call sends only keys of its own; it has one from the breaker on.
OwnInv ==
  \A r \in Requests :
    /\ key[r] \subseteq OwnKeys(r)
    /\ key[r] # {} => pc[r] # "idle"
    /\ r \in Mutating /\ pc[r] \in {"gate", "wire", "executed"} => key[r] # {}

\* What the idempotency middleware sets is the call's own (middleware.go:262-269).
LEMMA HeaderOwned ==
  ASSUME PipelineTypeOK, OwnInv, NEW r \in Requests
  PROVE  KeyHeader(r) \subseteq OwnKeys(r) /\ (r \in Mutating => KeyHeader(r) # {})
<1>1. CASE r \notin Mutating \/ key[r] # {}
  BY <1>1 DEF OwnInv, KeyHeader
<1>2. CASE r \in Mutating /\ key[r] = {} /\ r \in SharedCtx
  BY <1>2 DEF KeyHeader, OwnKeys
<1>3. CASE r \in Mutating /\ key[r] = {} /\ r \notin SharedCtx
  BY <1>3 DEF KeyHeader, OwnKeys, NewKey, PipelineTypeOK
<1> QED
  BY <1>1, <1>2, <1>3

\* Every step keeps a call with its own keys.
LEMMA OwnNext == PipelineTypeOK /\ OwnInv /\ [PipelineNext]_pipelineVars => OwnInv'
<1> SUFFICES ASSUME PipelineTypeOK, OwnInv, [PipelineNext]_pipelineVars
             PROVE  OwnInv'
  OBVIOUS
<1> USE DEF OwnInv, PipelineTypeOK, Goto
<1>1. ASSUME NEW r \in Requests, PassMiddlewares(r)
      PROVE  OwnInv'
  <2>1. KeyHeader(r) \subseteq OwnKeys(r) /\ (r \in Mutating => KeyHeader(r) # {})
    BY HeaderOwned
  <2>2. /\ key' = [key EXCEPT ![r] = KeyHeader(r)]
        /\ pc' = [pc EXCEPT ![r] = "gate"]
    BY <1>1 DEF PassMiddlewares
  <2> QED
    BY <2>1, <2>2 DEF OwnKeys
<1>2. ASSUME NEW r \in Requests,
             \/ Start(r) \/ Cancel(r) \/ TokenFails(r) \/ ServerExecutes(r) \/ ArrivesLate(r)
             \/ EnterBreaker(r) \/ StopAtBreaker(r) \/ ReportOpen(r)
      PROVE  OwnInv'
  BY <1>2 DEF Start, Cancel, TokenFails, ServerExecutes, ArrivesLate,
              EnterBreaker, StopAtBreaker, ReportOpen, OwnKeys
<1>3. ASSUME NEW r \in Requests, Answer(r) \/ TransportFails(r)
      PROVE  OwnInv'
  BY <1>3 DEF Answer, TransportFails, EndAttempt, OwnKeys
<1>4. ASSUME NEW r \in Requests,
             BeginBackoff(r) \/ BackoffPanics(r) \/ NextAttempt(r) \/ CancelBackoff(r) \/ GiveUp(r)
      PROVE  OwnInv'
  BY <1>4 DEF BeginBackoff, BackoffPanics, NextAttempt, CancelBackoff, GiveUp, OwnKeys
<1>5. CASE Tick \/ UNCHANGED pipelineVars
  BY <1>5 DEF Tick, pipelineVars, OwnKeys
<1> QED
  BY <1>1, <1>2, <1>3, <1>4, <1>5 DEF PipelineNext, Progress

\* Every key the server executed is the key of a call whose operation it
\* executed, and a 2xx, or a success, comes with an executed key.
ExecutedInv ==
  /\ \A k \in executedKeys : \E q \in Mutating : k \in key[q] /\ effects[q] = 1
  /\ \A r \in Mutating :
       response[r] = "2xx" \/ result[r] = "success" =>
         key[r] # {} /\ key[r] \subseteq executedKeys

\* Every step keeps executed keys with their calls.
LEMMA ExecutedNext ==
  PipelineTypeOK /\ KeyInv /\ OwnInv /\ ExecutedInv /\ [PipelineNext]_pipelineVars
    => ExecutedInv'
<1> SUFFICES ASSUME PipelineTypeOK, KeyInv, OwnInv, ExecutedInv, [PipelineNext]_pipelineVars
             PROVE  ExecutedInv'
  OBVIOUS
<1> USE PipelineAssumption DEF ExecutedInv, PipelineTypeOK, Goto, serverVars
<1>1. ASSUME NEW r \in Requests, PassMiddlewares(r)
      PROVE  ExecutedInv'
  <2>1. \A q \in Mutating : key[q] # {} => key'[q] = key[q]
    BY <1>1, KeySticks DEF PassMiddlewares
  <2>2. UNCHANGED <<executedKeys, effects, response, result>>
    BY <1>1 DEF PassMiddlewares
  <2> QED
    BY <2>1, <2>2
<1>2. ASSUME NEW r \in Requests, ServerExecutes(r)
      PROVE  ExecutedInv'
  <2>1. r \in Mutating /\ effects[r] = 0 /\ key[r] # {}
    BY <1>2 DEF ServerExecutes, KeyInv
  <2>2. /\ executedKeys' = executedKeys \union key[r]
        /\ effects' = [effects EXCEPT ![r] = 1]
        /\ UNCHANGED <<key, response, result>>
    BY <1>2, <2>1 DEF ServerExecutes
  <2> QED
    BY <2>1, <2>2
<1>3. ASSUME NEW r \in Requests, ArrivesLate(r)
      PROVE  ExecutedInv'
  <2>1. PICK k \in UNION Keys :
          /\ <<r, k>> \in inFlight
          /\ executedKeys' = executedKeys \union {k}
          /\ effects' = [effects EXCEPT ![r] = IF k \in executedKeys THEN @ ELSE @ + 1]
          /\ UNCHANGED <<key, response, result>>
    BY <1>3 DEF ArrivesLate
  <2>2. r \in Mutating /\ key[r] = {k}
    BY <2>1 DEF KeyInv
  <2>3. k \notin executedKeys => effects[r] = 0
    BY <2>2 DEF KeyInv
  <2> QED
    BY <2>1, <2>2, <2>3
<1>4. ASSUME NEW r \in Requests, Answer(r)
      PROVE  ExecutedInv'
  <2>1. PICK s \in PossibleStatuses(r) : response' = [response EXCEPT ![r] = s]
    BY <1>4 DEF Answer
  <2>2. r \in Mutating => key[r] # {}
    BY <1>4 DEF Answer, EndAttempt, OwnInv
  <2>3. s = "2xx" /\ r \in Mutating => key[r] \subseteq executedKeys
    BY DEF PossibleStatuses
  <2> QED
    BY <1>4, <2>1, <2>2, <2>3 DEF Answer
<1>5. ASSUME NEW r \in Requests, TransportFails(r)
      PROVE  ExecutedInv'
  BY <1>5 DEF TransportFails
<1>6. ASSUME NEW r \in Requests, GiveUp(r)
      PROVE  ExecutedInv'
  <2>1. Surface(err[r], response[r]) = "success" => response[r] = "2xx"
    BY DEF Surface, Statuses, WireErrors, AuthErrors
  <2> QED
    BY <1>6, <2>1 DEF GiveUp
<1>7. ASSUME NEW r \in Requests,
             \/ Start(r) \/ Cancel(r) \/ TokenFails(r)
             \/ EnterBreaker(r) \/ StopAtBreaker(r) \/ ReportOpen(r)
             \/ BeginBackoff(r) \/ BackoffPanics(r) \/ NextAttempt(r) \/ CancelBackoff(r)
      PROVE  ExecutedInv'
  BY <1>7 DEF Start, Cancel, TokenFails, EnterBreaker, StopAtBreaker, ReportOpen,
              BeginBackoff, BackoffPanics, NextAttempt, CancelBackoff
<1>8. CASE Tick \/ UNCHANGED pipelineVars
  BY <1>8 DEF Tick, pipelineVars
<1> QED
  BY <1>1, <1>2, <1>3, <1>4, <1>5, <1>6, <1>7, <1>8 DEF PipelineNext, Progress

\* A context with a key serves one mutating call: idempotency.go:7-13 says so,
\* the code does not enforce it.
OneCallPerContext == \A a, b \in SharedCtx \intersect Mutating : a = b

\* Two calls share no key (middleware.go:264-268).
LEMMA OwnersDiffer ==
  ASSUME OneCallPerContext, NEW a \in Mutating, NEW b \in Mutating,
         NEW k, k \in OwnKeys(a), k \in OwnKeys(b)
  PROVE  a = b
<1>1. CASE a \in SharedCtx /\ b \in SharedCtx
  BY <1>1 DEF OneCallPerContext
<1>2. CASE a \notin SharedCtx /\ b \notin SharedCtx
  BY <1>2 DEF OwnKeys
<1>3. \A c \in Requests, n \in Int : <<c, n>> # <<"ctx">>
  OBVIOUS
<1>4. CASE a \in SharedCtx /\ b \notin SharedCtx
  BY <1>3, <1>4, PipelineAssumption DEF OwnKeys, LastAttempt
<1>5. CASE a \notin SharedCtx /\ b \in SharedCtx
  BY <1>3, <1>5, PipelineAssumption DEF OwnKeys, LastAttempt
<1> QED
  BY <1>1, <1>2, <1>4, <1>5

\* A call whose key the server executed had its own operation executed.
LEMMA ExecutedMeansDone ==
  ASSUME OneCallPerContext, OwnInv, ExecutedInv,
         NEW r \in Mutating, key[r] # {}, key[r] \subseteq executedKeys
  PROVE  effects[r] = 1
<1>1. PICK k \in key[r] : TRUE
  OBVIOUS
<1>2. PICK q \in Mutating : k \in key[q] /\ effects[q] = 1
  BY <1>1 DEF ExecutedInv
<1>3. q = r
  BY <1>1, <1>2, OwnersDiffer, PipelineAssumption DEF OwnInv
<1> QED
  BY <1>2, <1>3

\* All that is known of keys, at the start and after every step.
CallInv == SoundInv /\ KeyInv /\ OwnInv /\ ExecutedInv

LEMMA CallInvInit == PipelineInit => CallInv
<1>1. PipelineInit => KeyInv /\ OwnInv /\ ExecutedInv
  BY PipelineAssumption DEF PipelineInit, KeyInv, OwnInv, ExecutedInv
<1> QED
  BY <1>1, SoundInit DEF CallInv

LEMMA CallInvNext == CallInv /\ [PipelineNext]_pipelineVars => CallInv'
BY SoundNext, KeyNext, OwnNext, ExecutedNext DEF CallInv, SoundInv

\* A mutating call that returns without an error had its own operation executed,
\* over all retries, lost answers and late arrivals, if no context with a key
\* serves two calls (middleware.go:264, client.go:275).
THEOREM SuccessIsExecuted ==
  ASSUME OneCallPerContext
  PROVE  PipelineSpec => []SuccessMeansExecuted
<1>1. CallInv => SuccessMeansExecuted
  BY ExecutedMeansDone DEF CallInv, ExecutedInv, SuccessMeansExecuted
<1> QED
  BY <1>1, CallInvInit, CallInvNext, PTL DEF PipelineSpec

--------------------------------------------------------------------------------

\* A call has a result exactly when it has returned.
ReturnInv == \A r \in Requests : (result[r] = "none") <=> (pc[r] # "done")

LEMMA ReturnNext ==
  PipelineTypeOK /\ ReturnInv /\ [PipelineNext]_pipelineVars => ReturnInv'
<1> SUFFICES ASSUME PipelineTypeOK, ReturnInv, [PipelineNext]_pipelineVars
             PROVE  ReturnInv'
  OBVIOUS
<1> USE DEF ReturnInv, PipelineTypeOK, Goto
<1>1. ASSUME NEW r \in Requests,
             \/ Start(r) \/ Cancel(r) \/ TokenFails(r) \/ PassMiddlewares(r)
             \/ EnterBreaker(r) \/ StopAtBreaker(r) \/ ReportOpen(r)
             \/ ServerExecutes(r) \/ ArrivesLate(r)
      PROVE  ReturnInv'
  BY <1>1 DEF Start, Cancel, TokenFails, PassMiddlewares, EnterBreaker, StopAtBreaker,
              ReportOpen, ServerExecutes, ArrivesLate
<1>2. ASSUME NEW r \in Requests, Answer(r) \/ TransportFails(r)
      PROVE  ReturnInv'
  BY <1>2 DEF Answer, TransportFails, EndAttempt
<1>3. ASSUME NEW r \in Requests, BeginBackoff(r) \/ BackoffPanics(r) \/ NextAttempt(r) \/ CancelBackoff(r)
      PROVE  ReturnInv'
  BY <1>3 DEF BeginBackoff, BackoffPanics, NextAttempt, CancelBackoff
<1>4. ASSUME NEW r \in Requests, GiveUp(r)
      PROVE  ReturnInv'
  <2>1. Surface(err[r], response[r]) # "none"
    BY DEF Surface, Statuses, WireErrors, AuthErrors
  <2> QED
    BY <1>4, <2>1 DEF GiveUp
<1>5. CASE Tick \/ UNCHANGED pipelineVars
  BY <1>5 DEF Tick, pipelineVars
<1> QED
  BY <1>1, <1>2, <1>3, <1>4, <1>5 DEF PipelineNext, Progress

\* The server's work on a call is the abstract call's execution.
LEMMA ExecutionMaps ==
  ASSUME CallInv, NEW r \in Requests, ServerExecutes(r) \/ ArrivesLate(r)
  PROVE  Call!Execute(r) \/ UNCHANGED Call!callVars
<1> USE DEF CallInv, SoundInv, PipelineTypeOK, Goto, Call!Execute, Call!callVars
<1>1. CASE ServerExecutes(r)
  <2>1. effects[r] = 0 /\ pc[r] = "wire" /\ r \in Mutating
    BY <1>1 DEF ServerExecutes, KeyInv
  <2>2. effects' = [effects EXCEPT ![r] = 1]
    BY <1>1, <2>1 DEF ServerExecutes
  <2>3. {q \in Requests : pc'[q] # "idle"} = {q \in Requests : pc[q] # "idle"}
    BY <1>1 DEF ServerExecutes
  <2>4. UNCHANGED result
    BY <1>1 DEF ServerExecutes
  <2> QED
    BY <2>1, <2>2, <2>3, <2>4 DEF Outcome
<1>2. CASE ArrivesLate(r)
  <2>1. PICK k \in UNION Keys :
          /\ <<r, k>> \in inFlight
          /\ effects' = [effects EXCEPT ![r] = IF k \in executedKeys THEN @ ELSE @ + 1]
          /\ UNCHANGED <<pc, result>>
    BY <1>2 DEF ArrivesLate
  <2>2. r \in Mutating /\ key[r] = {k} /\ pc[r] # "idle"
    <3>1. r \in Mutating
      BY <2>1
    <3>2. key[r] = {k}
      BY <2>1, <3>1 DEF KeyInv
    <3> QED
      BY <3>1, <3>2 DEF OwnInv
  <2>3. CASE k \in executedKeys
    <3>1. effects' = effects
      BY <2>1, <2>3
    <3> QED
      BY <2>1, <3>1 DEF Outcome
  <2>4. CASE k \notin executedKeys
    <3>1. effects[r] = 0
      BY <2>2, <2>4 DEF KeyInv
    <3>2. effects' = [effects EXCEPT ![r] = 1]
      BY <2>1, <2>4, <3>1
    <3> QED
      BY <2>1, <2>2, <3>1, <3>2 DEF Outcome
  <2> QED
    BY <2>3, <2>4
<1> QED
  BY <1>1, <1>2

\* The return of a call is the abstract call's, with the same outcome.
LEMMA ReturnMaps ==
  ASSUME OneCallPerContext, CallInv, ReturnInv, NEW r \in Requests,
         GiveUp(r) \/ BackoffPanics(r) \/ CancelBackoff(r)
  PROVE  Call!ReturnSuccess(r) \/ Call!ReturnError(r)
<1> USE DEF CallInv, SoundInv, PipelineTypeOK, Goto, Call!ReturnSuccess, Call!ReturnError
<1>1. /\ pc[r] \in {"judge", "backoff"} /\ pc' = [pc EXCEPT ![r] = "done"]
      /\ UNCHANGED effects
  BY DEF GiveUp, BackoffPanics, CancelBackoff, serverVars
<1>2. {q \in Requests : pc'[q] # "idle"} = {q \in Requests : pc[q] # "idle"}
  BY <1>1
<1>3. result[r] = "none" /\ Outcome(r) = "pending"
  BY <1>1 DEF ReturnInv, Outcome
<1>4. PICK v : /\ result' = [result EXCEPT ![r] = v] /\ v # "none"
               /\ v = "success" => response[r] = "2xx"
  <2>1. /\ Surface(err[r], response[r]) # "none"
        /\ Surface(err[r], response[r]) = "success" => response[r] = "2xx"
    BY DEF Surface, Statuses, WireErrors, AuthErrors
  <2> QED
    BY <2>1 DEF GiveUp, BackoffPanics, CancelBackoff
<1>5. CASE v = "success"
  <2>1. r \in Mutating => effects[r] = 1
    BY <1>4, <1>5, ExecutedMeansDone DEF ExecutedInv
  <2>2. [q \in Requests |-> Outcome(q)]' = [[q \in Requests |-> Outcome(q)] EXCEPT ![r] = "success"]
    BY <1>4, <1>5 DEF Outcome
  <2> QED
    BY <1>1, <1>2, <1>3, <2>1, <2>2
<1>6. CASE v # "success"
  <2>1. [q \in Requests |-> Outcome(q)]' = [[q \in Requests |-> Outcome(q)] EXCEPT ![r] = "error"]
    BY <1>4, <1>6 DEF Outcome
  <2> QED
    BY <1>1, <1>2, <1>3, <2>1
<1> QED
  BY <1>5, <1>6

\* The start of a call makes it; every other step is invisible.
LEMMA StartMaps ==
  ASSUME CallInv, NEW r \in Requests, Start(r)
  PROVE  Call!Make(r)
<1>1. pc[r] = "idle" /\ pc' = [pc EXCEPT ![r] = "attempt"] /\ UNCHANGED <<effects, result>>
  BY DEF Start, Goto, serverVars
<1>2. {q \in Requests : pc'[q] # "idle"} = {q \in Requests : pc[q] # "idle"} \union {r}
  BY <1>1 DEF CallInv, SoundInv, PipelineTypeOK
<1> QED
  BY <1>1, <1>2 DEF Call!Make, Outcome

LEMMA InnerStepsStutter ==
  ASSUME CallInv,
         \/ Tick \/ UNCHANGED pipelineVars
         \/ \E r \in Requests :
              \/ Cancel(r) \/ TokenFails(r) \/ PassMiddlewares(r)
              \/ EnterBreaker(r) \/ StopAtBreaker(r) \/ ReportOpen(r)
              \/ Answer(r) \/ TransportFails(r) \/ BeginBackoff(r) \/ NextAttempt(r)
  PROVE  UNCHANGED Call!callVars
<1>1. /\ UNCHANGED <<effects, result>>
      /\ {q \in Requests : pc'[q] # "idle"} = {q \in Requests : pc[q] # "idle"}
  BY DEF Tick, pipelineVars, serverVars, Cancel, TokenFails, PassMiddlewares, EnterBreaker,
         StopAtBreaker, ReportOpen, Answer, TransportFails, EndAttempt, BeginBackoff,
         NextAttempt, Goto, CallInv, SoundInv, PipelineTypeOK
<1> QED
  BY <1>1 DEF Call!callVars, Outcome

\* Every behaviour of the pipeline is one of the abstract payment call, for any
\* number of calls and retries and any network, if no context with a key serves
\* two calls: at most one execution, whenever it arrives, and no success without
\* it (client.go:161-276, middleware.go:158-272).
THEOREM PipelineImplementsCall ==
  ASSUME OneCallPerContext
  PROVE  PipelineSpec => ImplementsCall
<1>1. PipelineInit => Call!CallInit /\ ReturnInv
  BY DEF PipelineInit, Call!CallInit, ReturnInv, Outcome
<1>2. CallInv /\ ReturnInv /\ [PipelineNext]_pipelineVars => [Call!CallNext]_(Call!callVars)
  BY StartMaps, ExecutionMaps, ReturnMaps, InnerStepsStutter
  DEF PipelineNext, Progress, Call!CallNext
<1>3. CallInv => PipelineTypeOK
  BY DEF CallInv, SoundInv
<1> QED
  BY <1>1, <1>2, <1>3, CallInvInit, CallInvNext, ReturnNext, PTL
  DEF PipelineSpec, ImplementsCall, Call!CallSpec

--------------------------------------------------------------------------------

\* Until an attempt has ended there is neither an error nor a response.
ResponseInv ==
  \A r \in Requests :
    /\ pc[r] \in {"idle", "attempt", "gate", "wire", "executed"} =>
         err[r] = "none" /\ response[r] = "none"
    /\ pc[r] # "done" => err[r] = "none" \/ response[r] = "none"

\* Every step keeps the response of an attempt apart from the next one's.
LEMMA ResponseNext ==
  PipelineTypeOK /\ ResponseInv /\ [PipelineNext]_pipelineVars => ResponseInv'
<1> SUFFICES ASSUME PipelineTypeOK, ResponseInv, [PipelineNext]_pipelineVars
             PROVE  ResponseInv'
  OBVIOUS
<1> USE DEF ResponseInv, PipelineTypeOK, Goto
<1>1. ASSUME NEW r \in Requests,
             \/ Start(r) \/ Cancel(r) \/ ServerExecutes(r) \/ ArrivesLate(r)
             \/ TokenFails(r) \/ PassMiddlewares(r)
      PROVE  ResponseInv'
  BY <1>1 DEF Start, Cancel, ServerExecutes, ArrivesLate, TokenFails, PassMiddlewares
<1>2. ASSUME NEW r \in Requests, EnterBreaker(r) \/ StopAtBreaker(r) \/ ReportOpen(r)
      PROVE  ResponseInv'
  BY <1>2 DEF EnterBreaker, StopAtBreaker, ReportOpen
<1>3. ASSUME NEW r \in Requests, Answer(r) \/ TransportFails(r)
      PROVE  ResponseInv'
  BY <1>3 DEF Answer, TransportFails, EndAttempt
<1>4. ASSUME NEW r \in Requests,
             BeginBackoff(r) \/ BackoffPanics(r) \/ NextAttempt(r) \/ CancelBackoff(r) \/ GiveUp(r)
      PROVE  ResponseInv'
  BY <1>4 DEF BeginBackoff, BackoffPanics, NextAttempt, CancelBackoff, GiveUp
<1>5. CASE Tick
  BY <1>5 DEF Tick
<1>6. CASE UNCHANGED pipelineVars
  BY <1>6 DEF pipelineVars
<1> QED
  BY <1>1, <1>2, <1>3, <1>4, <1>5, <1>6 DEF PipelineNext, Progress

\* No attempt sees the response of an earlier one; hence the 5xx test of
\* isSystemFailure, which is only asked about errors, never finds a response
\* (client.go:241-244, middleware.go:207-208).
THEOREM ResponseIsFresh == PipelineSpec => []NoStaleResponse
<1>1. PipelineInit => ResponseInv
  BY DEF PipelineInit, ResponseInv
<1>2. ResponseInv => NoStaleResponse
  BY DEF ResponseInv, NoStaleResponse
<1>3. SoundInv => PipelineTypeOK
  BY DEF SoundInv
<1> QED
  BY <1>1, <1>2, <1>3, SoundInit, SoundNext, ResponseNext, PTL DEF PipelineSpec

--------------------------------------------------------------------------------

\* What a call knows when it decides, and when it has given up.
EndInv ==
  \A r \in Requests :
    /\ result[r] # "UnknownError"
    /\ pc[r] = "judge" => err[r] # "none" \/ response[r] # "none"
    /\ pc[r] = "done" /\ err[r] # "canceled" =>
         ~WantsRetry(r)

\* With at most four retries every index into retryDelays is in range, and the
\* retry middleware always has an error or a response to judge.
LEMMA EndNext ==
  ASSUME MaxRetries <= 4
  PROVE  PipelineTypeOK /\ EndInv /\ [PipelineNext]_pipelineVars => EndInv'
<1> SUFFICES ASSUME PipelineTypeOK, EndInv, [PipelineNext]_pipelineVars
             PROVE  EndInv'
  OBVIOUS
<1> USE PipelineAssumption
    DEF EndInv, PipelineTypeOK, Goto, WantsRetry, IsRetryableError, IsRetryableStatus
<1>1. ASSUME NEW r \in Requests,
             Start(r) \/ Cancel(r) \/ ServerExecutes(r) \/ ArrivesLate(r) \/ PassMiddlewares(r)
      PROVE  EndInv'
  BY <1>1 DEF Start, Cancel, ServerExecutes, ArrivesLate, PassMiddlewares
<1>2. ASSUME NEW r \in Requests, TokenFails(r)
      PROVE  EndInv'
  BY <1>2 DEF TokenFails, AuthErrors
<1>3. ASSUME NEW r \in Requests, EnterBreaker(r) \/ StopAtBreaker(r) \/ ReportOpen(r)
      PROVE  EndInv'
  BY <1>3 DEF EnterBreaker, StopAtBreaker, ReportOpen
<1>4. ASSUME NEW r \in Requests, Answer(r)
      PROVE  EndInv'
  BY <1>4 DEF Answer, EndAttempt, PossibleStatuses, Statuses
<1>5. ASSUME NEW r \in Requests, TransportFails(r)
      PROVE  EndInv'
  BY <1>5 DEF TransportFails, EndAttempt, PossibleErrors, WireErrors
<1>6. ASSUME NEW r \in Requests, BeginBackoff(r) \/ NextAttempt(r)
      PROVE  EndInv'
  BY <1>6 DEF BeginBackoff, NextAttempt
<1>7. ASSUME NEW r \in Requests, BackoffPanics(r)
      PROVE  FALSE
  <2>1. attempt[r] < MaxRetries /\ attempt[r] >= 4
    BY <1>7 DEF BackoffPanics, RetryDelays
  <2>2. attempt[r] \in Int
    BY DEF LastAttempt
  <2> QED
    BY <2>1, <2>2
<1>8. ASSUME NEW r \in Requests, CancelBackoff(r)
      PROVE  EndInv'
  BY <1>8 DEF CancelBackoff
<1>9. ASSUME NEW r \in Requests, GiveUp(r)
      PROVE  EndInv'
  <2>1. err[r] # "none" \/ response[r] # "none"
    BY <1>9 DEF GiveUp
  <2>2. Surface(err[r], response[r]) # "UnknownError"
    BY <2>1 DEF Surface, Statuses, WireErrors, AuthErrors
  <2> QED
    BY <1>9, <2>2 DEF GiveUp
<1>10. CASE Tick
  BY <1>10 DEF Tick
<1>11. CASE UNCHANGED pipelineVars
  BY <1>11 DEF pipelineVars
<1> QED
  BY <1>1, <1>2, <1>3, <1>4, <1>5, <1>6, <1>7, <1>8, <1>9, <1>10, <1>11
  DEF PipelineNext, Progress

\* A call that has not started has decided nothing.
LEMMA EndInit == PipelineInit => EndInv
BY DEF PipelineInit, EndInv

\* Up to WithMaxRetries(4) the retry middleware never indexes past its delay
\* table, whatever the network, the tokens and the other calls do
\* (middleware.go:164-190).
THEOREM NoPanicUpToFourRetries ==
  ASSUME MaxRetries <= 4
  PROVE  PipelineSpec => []RetryNeverPanics
<1>1. EndInv => RetryNeverPanics
  BY DEF EndInv, RetryNeverPanics
<1>2. SoundInv => PipelineTypeOK
  BY DEF SoundInv
<1> QED
  BY <1>1, <1>2, EndInit, SoundInit, SoundNext, EndNext, PTL DEF PipelineSpec

\* Up to four retries a call reports a retryable failure only after all of its
\* retries, unless its context is cancelled (middleware.go:186-213).
THEOREM RetriesAreUsedUp ==
  ASSUME MaxRetries <= 4
  PROVE  PipelineSpec => []GivesUpExhausted
<1>1. PipelineTypeOK /\ EndInv => GivesUpExhausted
  BY PipelineAssumption
  DEF EndInv, GivesUpExhausted, WantsRetry, PipelineTypeOK, LastAttempt
<1>2. SoundInv => PipelineTypeOK
  BY DEF SoundInv
<1> QED
  BY <1>1, <1>2, EndInit, SoundInit, SoundNext, EndNext, PTL DEF PipelineSpec

--------------------------------------------------------------------------------

\* Where no attempt ends in a 5xx or in the SDK's own timeout, the breaker counts
\* every attempt that is lost.
CountInv == outage = failureCount

\* Every step keeps the counts equal (client.go:219-246, breaker.go:78-96).
LEMMA CountNext ==
  ASSUME WireOutcomes \intersect {"5xx", "eof", "deadline"} = {}
  PROVE  Breaker!BreakerTypeOK /\ CountInv /\ [PipelineNext]_pipelineVars => CountInv'
<1> SUFFICES ASSUME Breaker!BreakerTypeOK, CountInv, [PipelineNext]_pipelineVars
             PROVE  CountInv'
  OBVIOUS
<1> USE DEF CountInv
<1>1. ASSUME NEW r \in Requests, Answer(r)
      PROVE  CountInv'
  BY <1>1 DEF Answer, PossibleStatuses, Breaker!Succeed
<1>2. ASSUME NEW r \in Requests, TransportFails(r)
      PROVE  CountInv'
  <2>1. PICK e \in PossibleErrors(r) :
          /\ IF IsSystemFailure(e) THEN Breaker!Fail(r) ELSE Breaker!Abandon(r)
          /\ outage' = IF e = "canceled" THEN outage ELSE Longer
    BY <1>2 DEF TransportFails
  <2>2. e \in {"refused", "reset", "canceled"}
    BY DEF PossibleErrors, WireErrors
  <2>3. CASE e = "canceled"
    BY <2>1, <2>3 DEF IsSystemFailure, Breaker!Abandon
  <2>4. CASE e # "canceled"
    <3>1. Breaker!Fail(r) /\ outage' = Longer
      BY <2>1, <2>2, <2>4 DEF IsSystemFailure
    <3>2. failureCount < CountCap \/ failureCount = CountCap
      BY BreakerSettings DEF Breaker!BreakerTypeOK
    <3> QED
      BY <3>1, <3>2 DEF Longer, Breaker!Fail
  <2> QED
    BY <2>3, <2>4
<1>3. ASSUME NEW r \in Requests,
             \/ Start(r) \/ Cancel(r) \/ TokenFails(r) \/ PassMiddlewares(r)
             \/ EnterBreaker(r) \/ StopAtBreaker(r) \/ ReportOpen(r)
             \/ ServerExecutes(r) \/ ArrivesLate(r)
      PROVE  CountInv'
  BY <1>3 DEF Start, Cancel, TokenFails, PassMiddlewares, EnterBreaker, StopAtBreaker,
              ReportOpen, ServerExecutes, ArrivesLate, breakerVars,
              Breaker!Admit, Breaker!Reject, Breaker!ReturnRejected
<1>4. ASSUME NEW r \in Requests,
             BeginBackoff(r) \/ BackoffPanics(r) \/ NextAttempt(r) \/ CancelBackoff(r) \/ GiveUp(r)
      PROVE  CountInv'
  BY <1>4 DEF BeginBackoff, BackoffPanics, NextAttempt, CancelBackoff, GiveUp, breakerVars
<1>5. CASE Tick
  BY <1>5 DEF Tick, Breaker!Tick
<1>6. CASE UNCHANGED pipelineVars
  BY <1>6 DEF pipelineVars, breakerVars
<1> QED
  BY <1>1, <1>2, <1>3, <1>4, <1>5, <1>6 DEF PipelineNext, Progress

\* As long as failures are refused or reset connections, an outage as long as the
\* threshold leaves no CLOSED breaker, over all calls together (client.go:234-240).
THEOREM NetworkOutageOpensBreaker ==
  ASSUME WireOutcomes \intersect {"5xx", "eof", "deadline"} = {}
  PROVE  PipelineSpec => []OutageOpensBreaker
<1>1. PipelineInit => CountInv
  BY DEF PipelineInit, CountInv, Breaker!BreakerInit
<1>2. SoundInv /\ CountInv => OutageOpensBreaker
  BY BreakerSettings
  DEF SoundInv, CountInv, OutageOpensBreaker, Breaker!BreakerInv, Breaker!BreakerTypeOK,
      Breaker!ClosedIffShortStreak, Breaker!FailureThreshold
<1>3. SoundInv => Breaker!BreakerTypeOK
  BY DEF SoundInv, Breaker!BreakerInv
<1> QED
  BY <1>1, <1>2, <1>3, SoundInit, SoundNext, CountNext, PTL DEF PipelineSpec

--------------------------------------------------------------------------------

\* How many steps at most are left to an attempt, and how many to the call.
Way(r) ==
  CASE pc[r] = "idle"     -> 8
    [] pc[r] = "attempt"  -> 7
    [] pc[r] = "gate"     -> IF call[r] = "rejected" THEN 5 ELSE 6
    [] pc[r] = "wire"     -> 4
    [] pc[r] = "executed" -> 3
    [] pc[r] = "judge"    -> 2
    [] pc[r] = "backoff"  -> 1
    [] pc[r] = "done"     -> 0

Rank(r) == 8 * (LastAttempt - attempt[r]) + Way(r)

StepsLeft == \A r \in Requests : Rank(r) \in 0 .. 8 * (LastAttempt + 1)

CountsDown ==
  \A r \in Requests : /\ Rank(r)' <= Rank(r)
                     /\ Progress(r) => Rank(r)' < Rank(r)

\* The number of steps is one, at most eight to an attempt (middleware.go:174-214).
LEMMA RankNat == PipelineTypeOK => StepsLeft
<1> SUFFICES ASSUME PipelineTypeOK, NEW r \in Requests
             PROVE  Rank(r) \in 0 .. 8 * (LastAttempt + 1)
  BY DEF StepsLeft
<1>1. attempt[r] \in 0 .. LastAttempt /\ LastAttempt \in Nat
  BY PipelineAssumption DEF PipelineTypeOK, LastAttempt
<1>2. Way(r) \in 0 .. 8
  BY DEF PipelineTypeOK, Way
<1> QED
  BY <1>1, <1>2 DEF Rank

\* A step by which a call goes on, to another place or out of the breaker's way, takes
\* it nearer its end (middleware.go:174-214, client.go:219-246).
LEMMA ProgressDrops ==
  ASSUME SoundInv, NEW r \in Requests, Progress(r)
  PROVE  Rank(r)' < Rank(r)
<1>0. /\ attempt[r] \in Nat /\ LastAttempt \in Nat /\ LastAttempt' = LastAttempt
      /\ pc \in [Requests -> {"idle", "attempt", "gate", "wire", "executed",
                              "judge", "backoff", "done"}]
      /\ attempt \in [Requests -> 0..LastAttempt]
      /\ call \in [Requests -> {"idle", "calling", "rejected"}]
  BY PipelineAssumption DEF SoundInv, PipelineTypeOK, LastAttempt, Breaker!BreakerTypeOK
<1>1. attempt' = attempt /\ Way(r) \in Int /\ Way(r)' \in Int /\ Way(r)' < Way(r)
        => Rank(r)' < Rank(r)
  BY <1>0 DEF Rank
<1>2. CASE TokenFails(r)
  <2>1. Way(r) = 7 /\ Way(r)' = 2 /\ attempt' = attempt
    BY <1>0, <1>2 DEF Goto, Way, TokenFails
  <2> QED BY <1>1, <2>1
<1>3. CASE PassMiddlewares(r)
  <2>1. Way(r) = 7 /\ Way(r)' \in {5, 6} /\ attempt' = attempt
    BY <1>0, <1>3 DEF Goto, Way, PassMiddlewares
  <2> QED BY <1>1, <2>1
<1>4. CASE EnterBreaker(r)
  <2>1. Way(r) = 6 /\ Way(r)' = 4 /\ attempt' = attempt
    BY <1>0, <1>4 DEF Goto, Way, EnterBreaker, Breaker!Admit
  <2> QED BY <1>1, <2>1
<1>5. CASE StopAtBreaker(r)
  <2>1. Way(r) = 6 /\ Way(r)' = 5 /\ attempt' = attempt
    BY <1>0, <1>5 DEF Goto, Way, StopAtBreaker, Breaker!Reject
  <2> QED BY <1>1, <2>1
<1>6. CASE ReportOpen(r)
  <2>1. Way(r) = 5 /\ Way(r)' = 2 /\ attempt' = attempt
    BY <1>0, <1>6 DEF Goto, Way, ReportOpen, Breaker!ReturnRejected
  <2> QED BY <1>1, <2>1
<1>7. CASE Answer(r) \/ TransportFails(r)
  <2>1. Way(r) \in {3, 4} /\ Way(r)' = 2 /\ attempt' = attempt
    BY <1>0, <1>7 DEF Goto, Way, Answer, TransportFails, EndAttempt
  <2> QED BY <1>1, <2>1
<1>8. CASE BeginBackoff(r)
  <2>1. Way(r) = 2 /\ Way(r)' = 1 /\ attempt' = attempt
    BY <1>0, <1>8 DEF Goto, Way, BeginBackoff
  <2> QED BY <1>1, <2>1
<1>9. CASE BackoffPanics(r) \/ CancelBackoff(r) \/ GiveUp(r)
  <2>1. Way(r) \in {1, 2} /\ Way(r)' = 0 /\ attempt' = attempt
    BY <1>0, <1>9 DEF Goto, Way, BackoffPanics, CancelBackoff, GiveUp
  <2> QED BY <1>1, <2>1
<1>10. CASE NextAttempt(r)
  <2>1. Way(r) = 1 /\ Way(r)' = 7 /\ attempt'[r] = attempt[r] + 1
    BY <1>0, <1>10 DEF Goto, Way, NextAttempt
  <2> QED BY <1>0, <2>1 DEF Rank
<1> QED
  BY <1>2, <1>3, <1>4, <1>5, <1>6, <1>7, <1>8, <1>9, <1>10 DEF Progress

\* What other calls, the clock, the server and the caller do takes no call further
\* from its end: no breaker and no late answer sends it back (client.go:219-246).
LEMMA OthersKeepRank ==
  ASSUME SoundInv, [PipelineNext]_pipelineVars, NEW r \in Requests
  PROVE  Rank(r)' <= Rank(r)
<1>0. /\ LastAttempt \in Nat /\ LastAttempt' = LastAttempt
      /\ pc \in [Requests -> {"idle", "attempt", "gate", "wire", "executed",
                              "judge", "backoff", "done"}]
      /\ attempt \in [Requests -> 0..LastAttempt]
      /\ call \in [Requests -> {"idle", "calling", "rejected"}]
  BY PipelineAssumption DEF SoundInv, PipelineTypeOK, LastAttempt, Breaker!BreakerTypeOK
<1>1. Rank(r) \in Int
  BY RankNat DEF SoundInv, StepsLeft
<1>2. pc'[r] = pc[r] /\ call'[r] = call[r] /\ attempt'[r] = attempt[r] => Rank(r)' = Rank(r)
  BY <1>0 DEF Rank, Way
<1>3. CASE Progress(r)
  <2>1. PipelineTypeOK' /\ StepsLeft'
    BY SoundNext, RankNat, PTL DEF SoundInv
  <2>2. Rank(r)' \in Int
    BY <1>0, <2>1 DEF StepsLeft
  <2> QED
    BY <1>1, <1>3, <2>2, ProgressDrops
<1>4. ASSUME NEW q \in Requests, q # r, Progress(q)
      PROVE  Rank(r)' <= Rank(r)
  <2>1. pc'[r] = pc[r] /\ call'[r] = call[r] /\ attempt'[r] = attempt[r]
    BY <1>0, <1>4
    DEF Progress, TokenFails, PassMiddlewares, EnterBreaker, StopAtBreaker, ReportOpen, Answer,
        TransportFails, EndAttempt, BeginBackoff, BackoffPanics, NextAttempt, CancelBackoff,
        GiveUp, Goto, breakerVars, Breaker!Admit, Breaker!Reject, Breaker!ReturnRejected,
        Breaker!Succeed, Breaker!Fail, Breaker!Abandon
  <2> QED
    BY <1>1, <1>2, <2>1
<1>5. ASSUME NEW q \in Requests, Start(q) \/ ServerExecutes(q)
      PROVE  Rank(r)' <= Rank(r)
  <2>1. call'[r] = call[r] /\ attempt'[r] = attempt[r]
    BY <1>5 DEF Start, ServerExecutes, breakerVars
  <2>2. CASE pc'[r] = pc[r]
    BY <1>1, <1>2, <2>1, <2>2
  <2>3. CASE pc'[r] # pc[r]
    <3>1. (Way(r) = 8 /\ Way(r)' = 7) \/ (Way(r) = 4 /\ Way(r)' = 3)
      BY <1>0, <1>5, <2>3 DEF Start, ServerExecutes, Goto, Way
    <3> QED
      BY <1>0, <2>1, <3>1 DEF Rank
  <2> QED
    BY <2>2, <2>3
<1>6. ASSUME NEW q \in Requests, Cancel(q) \/ ArrivesLate(q)
      PROVE  Rank(r)' <= Rank(r)
  <2>1. UNCHANGED <<pc, call, attempt>>
    BY <1>6 DEF Cancel, ArrivesLate, breakerVars
  <2> QED
    BY <1>1, <1>2, <2>1
<1>7. CASE Tick
  BY <1>1, <1>2, <1>7 DEF Tick, Breaker!Tick
<1>8. CASE UNCHANGED pipelineVars
  BY <1>1, <1>2, <1>8 DEF pipelineVars, breakerVars
<1> QED
  BY <1>3, <1>4, <1>5, <1>6, <1>7, <1>8 DEF PipelineNext

\* No call goes round for ever: every step by which it goes on lowers a number of at
\* most eight per attempt, which nothing raises - no other call, no tick of the
\* breaker, no cancellation and no late arrival.  With the fairness of the code that
\* is why every call returns (middleware.go:174-214).
THEOREM EveryStepCountsDown == PipelineSpec => []StepsLeft /\ [][CountsDown]_pipelineVars
<1>1. SoundInv => StepsLeft
  BY RankNat DEF SoundInv
<1>2. SoundInv /\ [PipelineNext]_pipelineVars => CountsDown
  BY ProgressDrops, OthersKeepRank DEF CountsDown
<1> QED
  BY <1>1, <1>2, SoundInit, SoundNext, PTL DEF PipelineSpec

--------------------------------------------------------------------------------

\* The breaker the calls share, between the retry middleware and the wire, is
\* CircuitBreaker whatever they do to it: the verdict on every attempt is a function
\* of the failures since the last success, over all calls, and of the age of the last
\* one (client.go:81-84, 219-246, breaker.go:47-96).
THEOREM PipelineImplementsGate == PipelineSpec => BP!ImplementsGate
<1>1. PipelineInit => BP!BreakerInit
  BY DEF PipelineInit, Breaker!BreakerInit, BP!BreakerInit, Breaker!Aged, BP!Aged,
         Breaker!ResetTimeout, BP!ResetTimeout
<1>2. [PipelineNext]_pipelineVars => [BP!BreakerNext]_(BP!breakerVars)
  BY BreakerStep
  DEF Breaker!BreakerNext, BP!BreakerNext, Breaker!breakerVars, BP!breakerVars,
      Breaker!Tick, BP!Tick, Breaker!Reset, BP!Reset, Breaker!Admit, BP!Admit,
      Breaker!Reject, BP!Reject, Breaker!Succeed, BP!Succeed, Breaker!Fail, BP!Fail,
      Breaker!Abandon, BP!Abandon, Breaker!Complete, BP!Complete,
      Breaker!ReturnRejected, BP!ReturnRejected, Breaker!ResetDue, BP!ResetDue,
      Breaker!Aged, BP!Aged, Breaker!FailureThreshold, BP!FailureThreshold,
      Breaker!ResetTimeout, BP!ResetTimeout
<1>3. BP!BreakerSpec => BP!ImplementsGate
  BY BreakerSettings, BP!BreakerImplementsGate
  DEF BP!BreakerAssumption, Breaker!FailureThreshold, BP!FailureThreshold
<1> QED
  BY <1>1, <1>2, <1>3, PTL DEF PipelineSpec, BP!BreakerSpec

================================================================================
