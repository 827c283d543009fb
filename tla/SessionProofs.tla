----------------------------- MODULE SessionProofs -----------------------------
(***************************************************************************)
(* Theorems about Session, for any set of calls, any table of delays, any   *)
(* Retry-After and any faults of the cache, the network and the server.     *)
(***************************************************************************)
EXTENDS Session, RequestPipelineProofs

AP == INSTANCE AuthManagerProofs WITH
        Callers <- Requests, pc <- place,
        ClientPanics <- FALSE, Persistent <- FALSE, Restarts <- FALSE

\* A step of a session is a step of its pipeline, or leaves it alone.
LEMMA PipelineStep == [SessionNext]_sessionVars => [PipelineNext]_pipelineVars
<1> SUFFICES ASSUME [SessionNext]_sessionVars
             PROVE  [PipelineNext]_pipelineVars
  OBVIOUS
<1> USE DEF PipelineNext, Progress
<1>1. CASE SessionTick
  BY <1>1 DEF SessionTick
<1>2. ASSUME NEW r \in Requests, AskToken(r) \/ GetToken(r) \/ AwaitLock(r) \/ IssueToken(r)
      PROVE  UNCHANGED pipelineVars
  BY <1>2 DEF AskToken, GetToken, AwaitLock, IssueToken
<1>3. ASSUME NEW r \in Requests, Carry(r) \/ GetTokenFails(r) \/ MeetBreaker(r)
      PROVE  PipelineNext
  BY <1>3 DEF Carry, GetTokenFails, MeetBreaker
<1>4. ASSUME NEW r \in Requests, Respond(r) \/ LoseAnswer(r) \/ Outside(r)
      PROVE  PipelineNext
  BY <1>4 DEF Respond, LoseAnswer, Outside
<1>5. ASSUME NEW r \in Requests, FallAsleep(r) \/ WakeUp(r) \/ Finish(r)
      PROVE  PipelineNext
  BY <1>5 DEF FallAsleep, WakeUp, Finish
<1>6. CASE UNCHANGED sessionVars
  BY <1>6 DEF sessionVars
<1> QED
  BY <1>1, <1>2, <1>3, <1>4, <1>5, <1>6 DEF SessionNext, CallStep

\* A session's calls are calls of RequestPipeline: what is proved of those holds
\* when tokens, backoffs and Retry-After are timed too (client.go:97-118).
THEOREM SessionImplementsPipeline == SessionSpec => PipelineSpec
<1>1. SessionInit => PipelineInit
  BY DEF SessionInit
<1> QED
  BY <1>1, PipelineStep, PTL DEF SessionSpec, PipelineSpec

\* A step of a session is a step of its token manager, or leaves it alone.
LEMMA AuthStep == [SessionNext]_sessionVars => [Auth!AuthNext]_(Auth!authVars)
<1> SUFFICES ASSUME [SessionNext]_sessionVars
             PROVE  [Auth!AuthNext]_(Auth!authVars)
  OBVIOUS
<1> USE DEF Auth!AuthNext, Auth!authVars, tokenVars
<1>1. CASE SessionTick
  BY <1>1 DEF SessionTick
<1>2. ASSUME NEW r \in Requests, AskToken(r) \/ GetToken(r) \/ AwaitLock(r) \/ IssueToken(r)
      PROVE  Auth!AuthNext
  BY <1>2 DEF AskToken, GetToken, AwaitLock, IssueToken
<1>3. ASSUME NEW r \in Requests, Carry(r) \/ GetTokenFails(r) \/ MeetBreaker(r)
      PROVE  Auth!AuthNext \/ UNCHANGED tokenVars
  BY <1>3 DEF Carry, GetTokenFails, MeetBreaker, Auth!GoOn
<1>4. ASSUME NEW r \in Requests,
             \/ Respond(r) \/ LoseAnswer(r) \/ Outside(r)
             \/ FallAsleep(r) \/ WakeUp(r) \/ Finish(r)
      PROVE  UNCHANGED tokenVars
  BY <1>4 DEF Respond, LoseAnswer, Outside, FallAsleep, WakeUp, Finish
<1>5. CASE UNCHANGED sessionVars
  BY <1>5 DEF sessionVars
<1> QED
  BY <1>1, <1>2, <1>3, <1>4, <1>5 DEF SessionNext, CallStep

\* The token manager of a session satisfies the assumption of AuthManager.
LEMMA AuthSettings ==
  /\ NoCaller \notin Requests /\ NoToken \notin Tokens
  /\ ExpiresIn \subseteq Int
  /\ TokenTTL \in Nat \ {0} /\ Margin \in Nat /\ Timeout \in Nat \ {0}
  /\ CacheFaults \subseteq {"get", "set", "delete"}
  /\ FALSE \in BOOLEAN
  /\ MaxTime \in Nat
BY SessionAssumption

\* What is proved of AuthManager is proved of the session's token manager: the
\* definitions of the two instances are the same.
LEMMA SameInit == Auth!AuthInit <=> AP!AuthInit
BY DEF Auth!AuthInit, AP!AuthInit, Auth!NoEntry, AP!NoEntry

LEMMA SameStep == [Auth!AuthNext]_(Auth!authVars) <=> [AP!AuthNext]_(AP!authVars)
<1> USE DEF Auth!Goto, AP!Goto, Auth!serverVars, AP!serverVars, Auth!NoEntry, AP!NoEntry,
            Auth!DropEntry, AP!DropEntry, Auth!EndExchange, AP!EndExchange
<1>1. Auth!Tick <=> AP!Tick
  BY DEF Auth!Tick, AP!Tick, Auth!ClockMayAdvance, AP!ClockMayAdvance
<1>2. (Auth!ClearCache <=> AP!ClearCache) /\ (Auth!Restart <=> AP!Restart)
  BY DEF Auth!ClearCache, AP!ClearCache, Auth!Restart, AP!Restart
<1>3. ASSUME NEW c \in Requests
      PROVE  /\ Auth!CallGetToken(c) <=> AP!CallGetToken(c)
             /\ Auth!CallRefresh(c) <=> AP!CallRefresh(c)
             /\ Auth!Lock(c) <=> AP!Lock(c)
             /\ Auth!ServerIssues(c) <=> AP!ServerIssues(c)
             /\ Auth!Panic(c) <=> AP!Panic(c)
  BY DEF Auth!CallGetToken, AP!CallGetToken, Auth!CallRefresh, AP!CallRefresh,
         Auth!Lock, AP!Lock, Auth!ServerIssues, AP!ServerIssues, Auth!Lifetime, AP!Lifetime,
         Auth!Panic, AP!Panic, Auth!Forget, AP!Forget
<1>4. ASSUME NEW c \in Requests
      PROVE  /\ Auth!Read(c) <=> AP!Read(c)
             /\ Auth!UseCached(c) <=> AP!UseCached(c)
             /\ Auth!WaitForLock(c) <=> AP!WaitForLock(c)
             /\ Auth!ReadAgain(c) <=> AP!ReadAgain(c)
             /\ Auth!UseRefreshed(c) <=> AP!UseRefreshed(c)
             /\ Auth!Send(c) <=> AP!Send(c)
  BY DEF Auth!Read, AP!Read, Auth!UseCached, AP!UseCached, Auth!WaitForLock, AP!WaitForLock,
         Auth!ReadAgain, AP!ReadAgain, Auth!UseRefreshed, AP!UseRefreshed, Auth!Send, AP!Send,
         Auth!GetResults, AP!GetResults, Auth!Valid, AP!Valid
<1>5. ASSUME NEW c \in Requests
      PROVE  /\ Auth!FetchFails(c) <=> AP!FetchFails(c)
             /\ Auth!Receive(c) <=> AP!Receive(c)
             /\ Auth!Store(c) <=> AP!Store(c)
             /\ Auth!Unlock(c) <=> AP!Unlock(c)
             /\ Auth!Return(c) <=> AP!Return(c)
  BY DEF Auth!FetchFails, AP!FetchFails, Auth!Receive, AP!Receive, Auth!Store, AP!Store,
         Auth!Unlock, AP!Unlock, Auth!Return, AP!Return, Auth!Forget, AP!Forget
<1>6. ASSUME NEW c \in Requests PROVE Auth!GoOn(c) <=> AP!GoOn(c)
  BY <1>4, <1>5 DEF Auth!GoOn, AP!GoOn
<1> QED
  BY <1>1, <1>2, <1>3, <1>6 DEF Auth!AuthNext, AP!AuthNext, Auth!authVars, AP!authVars

--------------------------------------------------------------------------------

\* The types and the expiry times of the token manager.
AuthSound == AP!AuthTypeOK /\ AP!ExpiryInv

\* A new client's token manager is sound (client.go:72-79).
LEMMA AuthSoundInit == SessionInit => AuthSound
BY AuthSettings, SameInit, AP!TypeInit, AP!ExpiryInit
DEF AP!AuthAssumption, SessionInit, AuthSound

\* Every step of a session keeps it so.
LEMMA AuthSoundNext == AuthSound /\ [SessionNext]_sessionVars => AuthSound'
BY AuthSettings, AuthStep, SameStep, AP!TypeNext, AP!ExpiryNext
DEF AP!AuthAssumption, AuthSound

\* am.mu is held just between Lock and Unlock, whatever the calls of a session go
\* through (auth.go:218-234).
THEOREM SessionLockDiscipline == SessionSpec => []LockDiscipline
<1>1. LockDiscipline <=> AP!LockDiscipline
  BY DEF LockDiscipline, Auth!LockDiscipline, AP!LockDiscipline, Auth!Locked, AP!Locked
<1>2. SessionInit => AP!LockDiscipline
  BY AuthSettings DEF SessionInit, Auth!AuthInit, AP!LockDiscipline, AP!Locked
<1>3. AuthSound /\ AP!LockDiscipline /\ [SessionNext]_sessionVars => AP!LockDiscipline'
  BY AuthSettings, AuthStep, SameStep, AP!LockNext DEF AP!AuthAssumption, AuthSound
<1> QED
  BY <1>1, <1>2, <1>3, AuthSoundInit, AuthSoundNext, PTL DEF SessionSpec

--------------------------------------------------------------------------------

\* Headers, ages and timers have their types.
HeadersTyped ==
  /\ carried \in [Requests -> Tokens \union {NoToken}]
  /\ wireAge \in [Requests -> 0..Timeout]
  /\ header \in [Requests -> Headers]
  /\ timer \in [Requests -> Nat]
  /\ asked \in [Requests -> Nat]

\* The pipeline's invariant, the token manager's and the types of the headers.
SessionSound == SoundInv /\ AuthSound /\ HeadersTyped

\* A session starts sound (client.go:44-147).
LEMMA SessionSoundInit == SessionInit => SessionSound
BY SessionAssumption, SoundInit, AuthSoundInit
DEF SessionInit, SessionSound, HeadersTyped, Headers

\* A delay is a natural number, also when Retry-After is negative or overflows
\* time.Duration (middleware.go:187-199).
LEMMA DelayNat ==
  ASSUME SessionSound, NEW r \in Requests, BeginBackoff(r)
  PROVE  Delay(r) \in Nat
<1>1. RetryDelay[attempt[r]] \in Nat
  BY SessionAssumption DEF SessionSound, SoundInv, PipelineTypeOK, BeginBackoff, LastAttempt, RetryDelays
<1>2. ASSUME header[r] # NoHeader PROVE Wrap(header[r] * Second) \in Int
  <2>1. header[r] \in Int
    BY <1>2, SessionAssumption DEF SessionSound, HeadersTyped, Headers
  <2>2. \A x \in Int : x * Second \in Int
    BY SessionAssumption
  <2>3. \A d \in Int : Wrap(d) \in Int
    BY SessionAssumption DEF Wrap
  <2> QED
    BY <2>1, <2>2, <2>3
<1> QED
  BY <1>1, <1>2 DEF Delay, AtLeastZero

\* Every step of a session keeps the types of the headers.
LEMMA HeadersNext == SessionSound /\ [SessionNext]_sessionVars => HeadersTyped'
<1> SUFFICES ASSUME SessionSound, [SessionNext]_sessionVars
             PROVE  HeadersTyped'
  OBVIOUS
<1> USE SessionAssumption DEF HeadersTyped, SessionSound, headerVars
<1>1. CASE SessionTick
  <2>1. wireAge' \in [Requests -> 0..Timeout]
    BY <1>1 DEF SessionTick
  <2>2. timer' \in [Requests -> Nat] /\ asked' \in [Requests -> Nat]
    BY <1>1 DEF SessionTick, AtLeastZero
  <2> QED
    BY <1>1, <2>1, <2>2 DEF SessionTick
<1>2. ASSUME NEW r \in Requests,
             \/ AskToken(r) \/ GetToken(r) \/ AwaitLock(r) \/ IssueToken(r)
             \/ GetTokenFails(r) \/ MeetBreaker(r) \/ Outside(r)
      PROVE  HeadersTyped'
  BY <1>2 DEF AskToken, GetToken, AwaitLock, IssueToken, GetTokenFails, MeetBreaker, Outside
<1>3. ASSUME NEW r \in Requests, Carry(r)
      PROVE  HeadersTyped'
  <2>1. token[r] \in Tokens \union {NoToken}
    BY DEF AuthSound, AP!AuthTypeOK, AP!AnyToken
  <2> QED
    BY <1>3, <2>1 DEF Carry
<1>4. ASSUME NEW r \in Requests, Respond(r)
      PROVE  HeadersTyped'
  <2>1. PICK h \in Headers :
          /\ header' = [header EXCEPT ![r] = h]
          /\ asked' = [asked EXCEPT ![r] = IF InRange(h) THEN h * Second ELSE 0]
    BY <1>4 DEF Respond
  <2>2. InRange(h) => h \in Nat
    BY DEF InRange, Headers
  <2>3. \A n \in Nat : n * Second \in Nat
    OBVIOUS
  <2>4. wireAge' = [wireAge EXCEPT ![r] = 0] /\ UNCHANGED <<carried, timer>>
    BY <1>4 DEF Respond
  <2> QED
    BY <2>1, <2>2, <2>3, <2>4
<1>5. ASSUME NEW r \in Requests, LoseAnswer(r)
      PROVE  HeadersTyped'
  BY <1>5 DEF LoseAnswer
<1>6. ASSUME NEW r \in Requests, FallAsleep(r)
      PROVE  HeadersTyped'
  BY <1>6, DelayNat DEF FallAsleep
<1>7. ASSUME NEW r \in Requests, WakeUp(r) \/ Finish(r)
      PROVE  HeadersTyped'
  <2>1. NoHeader \in Headers
    BY DEF Headers
  <2>2. CASE WakeUp(r)
    BY <2>1, <2>2 DEF WakeUp
  <2>3. CASE Finish(r)
    BY <2>1, <2>3 DEF Finish
  <2> QED
    BY <1>7, <2>2, <2>3
<1>8. CASE UNCHANGED sessionVars
  BY <1>8 DEF sessionVars
<1> QED
  BY <1>1, <1>2, <1>3, <1>4, <1>5, <1>6, <1>7, <1>8 DEF SessionNext, CallStep

\* Every step of a session keeps it sound.
LEMMA SessionSoundNext == SessionSound /\ [SessionNext]_sessionVars => SessionSound'
BY PipelineStep, SoundNext, AuthSoundNext, HeadersNext DEF SessionSound

\* What is sound is well typed.
LEMMA SoundIsTyped == SessionSound => SessionTypeOK
BY DEF SessionSound, SoundInv, AuthSound, HeadersTyped, SessionTypeOK,
       Auth!AuthTypeOK, AP!AuthTypeOK, Auth!Entry, AP!Entry, Auth!AnyToken, AP!AnyToken,
       Auth!Unlocked, AP!Unlocked, Auth!Locked, AP!Locked

\* The variables of a session keep their types (client.go:44-147).
THEOREM SessionTypeCorrect == SessionSpec => []SessionTypeOK
BY SessionSoundInit, SessionSoundNext, SoundIsTyped, PTL DEF SessionSpec

--------------------------------------------------------------------------------

\* A token that outlives one more timeout.
Fresh(t) == t \in issued /\ now + Timeout < dies[t]

\* A token is fresh when GetToken returns it and when the attempt enters the wire;
\* it outlives what is left of the attempt's timeout from then on.
Held(r) ==
  /\ place[r] = "reply" => ttl[r] > 2 * Timeout
  /\ place[r] \in {"store", "unlock", "done"} /\ token[r] # NoToken => Fresh(token[r])

Sent(r) ==
  /\ pc[r] = "gate" /\ r \notin SecretOnly => Fresh(carried[r])
  /\ OnWire(r) /\ r \notin SecretOnly =>
       carried[r] \in issued /\ now + Timeout < dies[carried[r]] + wireAge[r]
  /\ ~OnWire(r) => wireAge[r] = 0

FreshInv == \A r \in Requests : Held(r) /\ Sent(r)

\* The settings under which the margin covers the exchange and the request, and a
\* new token outlives both.
RoomyMargin ==
  /\ 2 * Timeout <= Margin
  /\ TokenTTL > 2 * Timeout
  /\ \A e \in ExpiresIn : e > 0 => e > 2 * Timeout

\* What the proof needs of the types.
SessionTyped ==
  /\ now \in Nat /\ issued \subseteq Tokens /\ dies \in [Tokens -> Nat]
  /\ place \in [Requests -> AP!Unlocked \union AP!Locked]
  /\ ttl \in [Requests -> Nat] /\ token \in [Requests -> Tokens \union {NoToken}]
  /\ Timeout \in Nat \ {0} /\ Margin \in Nat
  /\ pc \in [Requests -> {"idle", "attempt", "gate", "wire", "executed",
                          "judge", "backoff", "done"}]
  /\ carried \in [Requests -> Tokens \union {NoToken}]
  /\ wireAge \in [Requests -> 0..Timeout]

LEMMA TypedSession == AuthSound /\ SessionTypeOK => SessionTyped
BY SessionAssumption, AuthSettings
DEF AuthSound, AP!AuthTypeOK, AP!AnyToken, PipelineTypeOK, SessionTypeOK, SessionTyped

\* What an entry still called valid holds is fresh, by the margin (auth.go:342).
LEMMA ValidIsFresh ==
  ASSUME RoomyMargin, AuthSound, SessionTyped, NEW r \in Requests, Auth!Valid(entry[r])
  PROVE  entry[r].token # NoToken /\ Fresh(entry[r].token)
<1>1. entry[r].token \in Tokens \union {NoToken} /\ entry[r].exp \in Int
  BY DEF AuthSound, AP!AuthTypeOK, AP!Entry, AP!AnyToken
<1>2. AP!Covered(entry[r])
  BY DEF AuthSound, AP!ExpiryInv
<1>3. entry[r].token # NoToken /\ now < entry[r].exp
  BY DEF Auth!Valid
<1>4. dies[entry[r].token] \in Nat
  BY <1>1, <1>3 DEF SessionTyped
<1> QED
  BY <1>1, <1>2, <1>3, <1>4 DEF AP!Covered, Fresh, RoomyMargin, SessionTyped

\* What an exchange brings is fresh: the answer is at most Timeout old.
LEMMA ReceivedIsFresh ==
  ASSUME RoomyMargin, AuthSound, SessionTyped, FreshInv,
         NEW r \in Requests, place[r] = "reply"
  PROVE  Fresh(token[r])
<1>1. /\ now <= sentAt[r] + Timeout /\ token[r] \in issued
      /\ sentAt[r] + ttl[r] <= dies[token[r]]
  BY DEF AuthSound, AP!ExpiryInv
<1>2. sentAt[r] \in Nat /\ ttl[r] \in Nat /\ ttl[r] > 2 * Timeout
  BY DEF AuthSound, AP!AuthTypeOK, FreshInv, Held
<1>3. dies[token[r]] \in Nat
  BY <1>1 DEF SessionTyped
<1> QED
  BY <1>1, <1>2, <1>3 DEF Fresh, SessionTyped

\* The steps of GetToken hand on fresh tokens only.
LEMMA GetTokenFresh ==
  ASSUME RoomyMargin, AuthSound, SessionTyped, FreshInv,
         NEW r \in Requests, GetToken(r) \/ AskToken(r) \/ AwaitLock(r)
  PROVE  FreshInv'
<1> USE DEF FreshInv, Held, Sent, Fresh, OnWire, SessionTyped, Auth!Goto
<1>0. /\ UNCHANGED <<pipelineVars, headerVars>>
      /\ now' = now /\ issued' = issued /\ dies' = dies
  BY DEF GetToken, AskToken, AwaitLock, Auth!GoOn, Auth!CallGetToken, Auth!Lock,
         Auth!Read, Auth!UseCached, Auth!WaitForLock, Auth!ReadAgain, Auth!UseRefreshed,
         Auth!Send, Auth!FetchFails, Auth!Receive, Auth!Store, Auth!Unlock, Auth!Return,
         Auth!serverVars
<1>1. \A q \in Requests : Sent(q)'
  BY <1>0 DEF pipelineVars, headerVars
<1>2. \A q \in Requests : Held(q)'
  <2>1. CASE AskToken(r) \/ AwaitLock(r)
    BY <1>0, <2>1 DEF AskToken, AwaitLock, Auth!CallGetToken, Auth!Lock
  <2>2. CASE Auth!Read(r) \/ Auth!WaitForLock(r) \/ Auth!ReadAgain(r) \/ Auth!Send(r)
    BY <1>0, <2>2 DEF Auth!Read, Auth!WaitForLock, Auth!ReadAgain, Auth!Send
  <2>3. CASE Auth!UseCached(r) \/ Auth!UseRefreshed(r)
    <3>1. Auth!Valid(entry[r])
      BY <2>3 DEF Auth!UseCached, Auth!UseRefreshed
    <3>2. Fresh(entry[r].token)
      BY <3>1, ValidIsFresh
    <3> QED
      BY <1>0, <2>3, <3>2 DEF Auth!UseCached, Auth!UseRefreshed
  <2>4. CASE Auth!FetchFails(r)
    BY <1>0, <2>4 DEF Auth!FetchFails, Auth!EndExchange
  <2>5. CASE Auth!Receive(r)
    <3>1. Fresh(token[r])
      BY <2>5, ReceivedIsFresh DEF Auth!Receive
    <3> QED
      BY <1>0, <2>5, <3>1 DEF Auth!Receive, Auth!EndExchange
  <2>6. CASE Auth!Store(r) \/ Auth!Unlock(r)
    BY <1>0, <2>6 DEF Auth!Store, Auth!Unlock
  <2>7. CASE GetToken(r) /\ Auth!Return(r)
    BY <2>7 DEF GetToken, Auth!Return
  <2> QED
    BY <2>1, <2>2, <2>3, <2>4, <2>5, <2>6, <2>7 DEF GetToken, Auth!GoOn
<1> QED
  BY <1>1, <1>2

\* A new token outlives two timeouts.
LEMMA IssuedFresh ==
  ASSUME RoomyMargin, AuthSound, SessionTyped, FreshInv, NEW r \in Requests, IssueToken(r)
  PROVE  FreshInv'
<1> USE DEF FreshInv, Held, Sent, Fresh, OnWire, SessionTyped, Auth!Goto
<1>1. PICK t \in Tokens \ issued, e \in ExpiresIn :
        /\ token' = [token EXCEPT ![r] = t]
        /\ ttl' = [ttl EXCEPT ![r] = Auth!Lifetime(e)]
        /\ dies' = [dies EXCEPT ![t] = now + Auth!Lifetime(e)]
        /\ issued' = issued \union {t}
  BY DEF IssueToken, Auth!ServerIssues
<1>2. Auth!Lifetime(e) > 2 * Timeout
  BY <1>1, SessionAssumption DEF RoomyMargin, Auth!Lifetime
<1>3. \A u \in issued : dies'[u] = dies[u] /\ u \in issued'
  BY <1>1
<1>4. /\ UNCHANGED <<pipelineVars, headerVars>> /\ now' = now
      /\ place' = [place EXCEPT ![r] = "reply"]
  BY DEF IssueToken, Auth!ServerIssues
<1>5. \A q \in Requests : Sent(q)'
  BY <1>3, <1>4 DEF pipelineVars, headerVars
<1>6. \A q \in Requests : Held(q)'
  BY <1>1, <1>2, <1>3, <1>4
<1> QED
  BY <1>5, <1>6

\* Time runs out neither for tokens on their way to an attempt nor, before the
\* attempt's timeout, for those on the wire.
LEMMA TickFresh ==
  ASSUME SessionTyped, FreshInv, SessionTick
  PROVE  FreshInv'
<1> USE DEF FreshInv, Held, Sent, Fresh, OnWire, SessionTyped
<1>1. /\ now' \in {now, now + 1} /\ issued' = issued /\ dies' = dies
      /\ place' = place /\ ttl' = ttl /\ token' = token
  BY DEF SessionTick, Auth!Tick, Auth!serverVars, tokenVars
<1>2. pc' = pc /\ carried' = carried
  BY DEF SessionTick, Tick, pipelineVars
<1>3. \A r \in Requests : ~Prompt(r) /\ (OnWire(r) => wireAge[r] < Timeout)
  BY DEF SessionTick
<1>4. \A r \in Requests : wireAge'[r] = IF OnWire(r) THEN wireAge[r] + 1 ELSE wireAge[r]
  BY DEF SessionTick
<1>5. \A r \in Requests : Held(r)'
  BY <1>1, <1>3 DEF Prompt
<1>6. ASSUME NEW r \in Requests PROVE Sent(r)'
  <2>1. CASE OnWire(r)
    <3>1. wireAge'[r] = wireAge[r] + 1 /\ wireAge'[r] \in 0..Timeout
      BY <1>3, <1>4, <2>1
    <3>2. r \notin SecretOnly => dies[carried[r]] \in Nat
      BY <2>1
    <3> QED
      BY <1>1, <1>2, <2>1, <3>1, <3>2
  <2>2. CASE ~OnWire(r)
    BY <1>2, <1>3, <1>4, <2>2 DEF Prompt
  <2> QED
    BY <2>1, <2>2
<1> QED
  BY <1>5, <1>6

\* The attempt takes its token to the wire and leaves it there.
LEMMA AttemptFresh ==
  ASSUME SessionTyped, FreshInv, NEW r \in Requests,
         \/ Carry(r) \/ GetTokenFails(r) \/ MeetBreaker(r) \/ Respond(r) \/ LoseAnswer(r)
         \/ FallAsleep(r) \/ WakeUp(r) \/ Finish(r) \/ Outside(r)
  PROVE  FreshInv'
<1> USE DEF FreshInv, Held, Sent, Fresh, OnWire, SessionTyped, Goto, tokenVars, pipelineVars
<1>1. CASE Carry(r)
  <2>1. /\ pc[r] = "attempt" /\ pc' = [pc EXCEPT ![r] = "gate"] /\ wireAge' = wireAge
    BY <1>1 DEF Carry, PassMiddlewares
  <2>2. CASE r \in SecretOnly
    BY <1>1, <2>1, <2>2 DEF Carry
  <2>3. CASE r \notin SecretOnly
    <3>1. /\ token[r] # NoToken /\ place[r] = "done" /\ place' = [place EXCEPT ![r] = "idle"]
          /\ now' = now /\ issued' = issued /\ dies' = dies
          /\ token' = [token EXCEPT ![r] = NoToken] /\ ttl' = [ttl EXCEPT ![r] = 0]
          /\ carried' = [carried EXCEPT ![r] = token[r]]
      BY <1>1, <2>3
      DEF Carry, Auth!Return, Auth!Goto, Auth!Forget, Auth!EndExchange, Auth!serverVars
    <3>2. Fresh(token[r])
      BY <3>1
    <3>3. \A q \in Requests : Held(q)'
      BY <3>1
    <3>4. Sent(r)'
      BY <2>1, <3>1, <3>2
    <3>5. ASSUME NEW q \in Requests \ {r} PROVE Sent(q)'
      BY <2>1, <3>1
    <3> QED
      BY <3>3, <3>4, <3>5
  <2> QED
    BY <2>2, <2>3
<1>2. CASE GetTokenFails(r)
  BY <1>2 DEF GetTokenFails, TokenFails, Auth!Return, Auth!Goto, Auth!Forget,
              Auth!EndExchange, Auth!serverVars, headerVars
<1>3. CASE MeetBreaker(r)
  BY <1>3 DEF MeetBreaker, EnterBreaker, StopAtBreaker, ReportOpen, headerVars
<1>4. CASE Respond(r) \/ LoseAnswer(r)
  <2>1. /\ pc' = [pc EXCEPT ![r] = "judge"] /\ wireAge' = [wireAge EXCEPT ![r] = 0]
        /\ UNCHANGED <<tokenVars, carried>>
    BY <1>4 DEF Respond, LoseAnswer, Answer, TransportFails, EndAttempt
  <2> QED
    BY <2>1
<1>5. CASE FallAsleep(r) \/ WakeUp(r)
  BY <1>5 DEF FallAsleep, WakeUp, BeginBackoff, NextAttempt
<1>6. CASE Finish(r)
  BY <1>6 DEF Finish, GiveUp, BackoffPanics, CancelBackoff
<1>7. CASE Outside(r)
  BY <1>7 DEF Outside, Start, Cancel, ServerExecutes, ArrivesLate, headerVars
<1> QED
  BY <1>1, <1>2, <1>3, <1>4, <1>5, <1>6, <1>7

\* Every step of a session keeps tokens fresh.
LEMMA FreshNext ==
  ASSUME RoomyMargin
  PROVE  AuthSound /\ SessionTypeOK /\ FreshInv /\ [SessionNext]_sessionVars => FreshInv'
<1> SUFFICES ASSUME AuthSound, SessionTypeOK, FreshInv, [SessionNext]_sessionVars
             PROVE  FreshInv'
  OBVIOUS
<1>0. SessionTyped
  BY TypedSession
<1>1. CASE SessionTick
  BY <1>0, <1>1, TickFresh
<1>2. ASSUME NEW r \in Requests, CallStep(r) \/ AwaitLock(r)
      PROVE  FreshInv'
  BY <1>0, <1>2, GetTokenFresh, AttemptFresh DEF CallStep
<1>3. ASSUME NEW r \in Requests, IssueToken(r)
      PROVE  FreshInv'
  BY <1>0, <1>3, IssuedFresh
<1>4. ASSUME NEW r \in Requests, Outside(r)
      PROVE  FreshInv'
  BY <1>0, <1>4, AttemptFresh
<1>5. CASE UNCHANGED sessionVars
  BY <1>5 DEF sessionVars, pipelineVars, tokenVars, headerVars, FreshInv, Held, Sent, Fresh, OnWire
<1> QED
  BY <1>1, <1>2, <1>3, <1>4, <1>5 DEF SessionNext

\* When TokenExpiryMargin is at least twice Config.Timeout, as with the defaults
\* (60 s and 30 s), and tokens live longer than that, no attempt arrives with a
\* dead token, whatever the queue for am.mu, the retries and the cache did before
\* (auth.go:342, middleware.go:244-248, client.go:76, 216).
THEOREM TokensOutliveAttempts ==
  ASSUME RoomyMargin
  PROVE  SessionSpec => []TokenAliveOnArrival
<1>1. SessionInit => FreshInv
  BY SessionAssumption
  DEF SessionInit, PipelineInit, Auth!AuthInit, FreshInv, Held, Sent, OnWire
<1>2. SessionSound => AuthSound
  BY DEF SessionSound
<1>3. AuthSound /\ SessionTypeOK /\ FreshInv => TokenAliveOnArrival
  <2> SUFFICES ASSUME AuthSound, SessionTypeOK, FreshInv,
                      NEW r \in Requests, pc[r] = "wire", r \notin SecretOnly
               PROVE  now < dies[carried[r]]
    BY DEF TokenAliveOnArrival
  <2>1. carried[r] \in issued /\ now + Timeout < dies[carried[r]] + wireAge[r]
    BY DEF FreshInv, Sent, OnWire
  <2>2. dies[carried[r]] \in Nat /\ now \in Nat /\ Timeout \in Nat /\ wireAge[r] \in 0..Timeout
    BY <2>1, TypedSession DEF SessionTyped
  <2> QED
    BY <2>1, <2>2
<1> QED
  BY <1>1, <1>2, <1>3, SessionSoundInit, SessionSoundNext, SoundIsTyped, FreshNext, PTL
  DEF SessionSpec

--------------------------------------------------------------------------------

\* What is left of the wait a 429 asked for, from the answer to the next attempt.
AskedInv ==
  \A r \in Requests :
    /\ pc[r] = "backoff" => asked[r] <= timer[r]
    /\ pc[r] = "judge" =>
         /\ header[r] # NoHeader => response[r] = "429"
         /\ asked[r] > 0 => InRange(header[r]) /\ asked[r] <= header[r] * Second
    /\ pc[r] \notin {"judge", "backoff"} => header[r] = NoHeader /\ asked[r] = 0

\* A number that fits a Duration is none the less for the conversion.
LEMMA WrapSmall == \A d \in 0..HalfRange - 1 : Wrap(d) = d
<1> SUFFICES ASSUME NEW d \in 0..HalfRange - 1 PROVE Wrap(d) = d
  OBVIOUS
<1>1. \A n \in Nat \ {0} : \A x \in 0..n - 1 : x % n = x
  OBVIOUS
<1>2. 2 * HalfRange \in Nat \ {0} /\ d + HalfRange \in 0..2 * HalfRange - 1
  BY SessionAssumption
<1>3. (d + HalfRange) % (2 * HalfRange) = d + HalfRange
  BY <1>1, <1>2
<1> QED
  BY <1>3, SessionAssumption DEF Wrap

\* A header in range asks for a natural number of time units.
LEMMA WaitIsNat ==
  \A h \in Headers : InRange(h) => h * Second \in Nat
<1> SUFFICES ASSUME NEW h \in Headers, InRange(h) PROVE h * Second \in Nat
  OBVIOUS
<1>1. h \in Int /\ h # NoHeader
  BY SessionAssumption DEF InRange, Headers
<1>2. h >= 0
  BY DEF InRange
<1>3. h \in Nat /\ Second \in Nat
  BY <1>1, <1>2, SessionAssumption
<1>4. \A m, n \in Nat : m * n \in Nat
  OBVIOUS
<1> QED
  BY <1>3, <1>4

\* A backoff is as long as the 429 asked for (middleware.go:193-204).
LEMMA DelaySuffices ==
  ASSUME HeadersTyped, AskedInv, NEW r \in Requests, pc[r] = "judge"
  PROVE  asked[r] <= 0 \/ asked[r] <= Delay(r)
<1> SUFFICES ASSUME asked[r] > 0 PROVE asked[r] <= Delay(r)
  BY DEF HeadersTyped
<1>1. /\ response[r] = "429" /\ header[r] # NoHeader /\ header[r] \in Int
      /\ header[r] >= 0 /\ header[r] * Second < HalfRange
      /\ asked[r] <= header[r] * Second
  BY SessionAssumption DEF AskedInv, InRange, HeadersTyped, Headers
<1>2. header[r] * Second \in Nat
  BY <1>1, SessionAssumption
<1>3. Wrap(header[r] * Second) = header[r] * Second
  BY <1>1, <1>2, WrapSmall, SessionAssumption
<1>4. Delay(r) = header[r] * Second
  BY <1>1, <1>2, <1>3 DEF Delay, AtLeastZero
<1> QED
  BY <1>1, <1>4

\* Every step of a session keeps the wait within the backoff.
LEMMA AskedNext ==
  SessionSound /\ AskedInv /\ [SessionNext]_sessionVars => AskedInv'
<1> SUFFICES ASSUME SessionSound, AskedInv, [SessionNext]_sessionVars
             PROVE  AskedInv'
  OBVIOUS
<1>0. /\ HeadersTyped
      /\ pc \in [Requests -> {"idle", "attempt", "gate", "wire", "executed",
                              "judge", "backoff", "done"}]
      /\ response \in [Requests -> Statuses \union {"none"}]
  BY DEF SessionSound, SoundInv, PipelineTypeOK
<1> USE SessionAssumption, <1>0 DEF AskedInv, HeadersTyped, Goto, headerVars
<1>1. CASE SessionTick
  <2>1. /\ pc' = pc /\ response' = response /\ header' = header
        /\ \A r \in Requests : /\ timer'[r] = AtLeastZero(timer[r] - 1)
                               /\ asked'[r] = AtLeastZero(asked[r] - 1)
    BY <1>1 DEF SessionTick, Tick, pipelineVars
  <2>2. \A a, t \in Nat : /\ AtLeastZero(a - 1) <= a /\ AtLeastZero(a - 1) \in Nat
                          /\ a = 0 => AtLeastZero(a - 1) = 0
                          /\ a <= t => AtLeastZero(a - 1) <= AtLeastZero(t - 1)
    BY DEF AtLeastZero
  <2>3. \A r \in Requests :
          /\ asked'[r] <= asked[r] /\ asked'[r] \in Nat
          /\ asked[r] = 0 => asked'[r] = 0
          /\ asked[r] <= timer[r] => asked'[r] <= timer'[r]
    BY <2>1, <2>2
  <2>4. ASSUME NEW r \in Requests, InRange(header[r]) PROVE header[r] * Second \in Nat
    BY <2>4, WaitIsNat
  <2>5. \A r \in Requests : InRange(header'[r]) <=> InRange(header[r])
    BY <2>1
  <2> QED
    BY <2>1, <2>3, <2>4, <2>5
<1>2. ASSUME NEW r \in Requests,
             AskToken(r) \/ GetToken(r) \/ AwaitLock(r) \/ IssueToken(r) \/ Outside(r)
      PROVE  AskedInv'
  BY <1>2 DEF AskToken, GetToken, AwaitLock, IssueToken, Outside, pipelineVars,
              Start, Cancel, ServerExecutes, ArrivesLate, InRange
<1>3. ASSUME NEW r \in Requests, Carry(r) \/ GetTokenFails(r) \/ MeetBreaker(r)
      PROVE  AskedInv'
  BY <1>3 DEF Carry, GetTokenFails, MeetBreaker, PassMiddlewares, TokenFails,
              EnterBreaker, StopAtBreaker, ReportOpen, InRange
<1>4. ASSUME NEW r \in Requests, Respond(r)
      PROVE  AskedInv'
  <2>1. PICK h \in Headers :
          /\ response'[r] # "429" => h = NoHeader
          /\ header' = [header EXCEPT ![r] = h]
          /\ asked' = [asked EXCEPT ![r] = IF InRange(h) THEN h * Second ELSE 0]
    BY <1>4 DEF Respond
  <2>2. /\ pc' = [pc EXCEPT ![r] = "judge"] /\ UNCHANGED timer
        /\ \A q \in Requests \ {r} : response'[q] = response[q]
    BY <1>4 DEF Respond, Answer, EndAttempt
  <2>3. InRange(h) => h * Second \in Nat
    BY DEF InRange, Headers
  <2>4. \A q \in Requests \ {r} :
          /\ header'[q] = header[q] /\ asked'[q] = asked[q] /\ pc'[q] = pc[q]
          /\ response'[q] = response[q] /\ timer'[q] = timer[q]
    BY <2>1, <2>2
  <2>5. /\ header'[r] = h /\ asked'[r] = (IF InRange(h) THEN h * Second ELSE 0)
        /\ pc'[r] = "judge"
    BY <2>1, <2>2
  <2> QED
    BY <2>1, <2>3, <2>4, <2>5 DEF InRange
<1>5. ASSUME NEW r \in Requests, LoseAnswer(r)
      PROVE  AskedInv'
  BY <1>5 DEF LoseAnswer, TransportFails, EndAttempt, InRange
<1>6. ASSUME NEW r \in Requests, FallAsleep(r)
      PROVE  AskedInv'
  <2>1. /\ pc[r] = "judge" /\ pc' = [pc EXCEPT ![r] = "backoff"]
        /\ timer' = [timer EXCEPT ![r] = Delay(r)]
        /\ UNCHANGED <<response, header, asked>>
    BY <1>6 DEF FallAsleep, BeginBackoff
  <2>2. Delay(r) \in Nat /\ (asked[r] <= 0 \/ asked[r] <= Delay(r))
    BY <1>6, <2>1, DelayNat, DelaySuffices DEF FallAsleep
  <2> QED
    BY <2>1, <2>2 DEF InRange
<1>7. ASSUME NEW r \in Requests, WakeUp(r)
      PROVE  AskedInv'
  BY <1>7 DEF WakeUp, NextAttempt, InRange
<1>8. ASSUME NEW r \in Requests, Finish(r)
      PROVE  AskedInv'
  BY <1>8 DEF Finish, GiveUp, BackoffPanics, CancelBackoff, InRange
<1>9. CASE UNCHANGED sessionVars
  BY <1>9 DEF sessionVars, pipelineVars, InRange
<1> QED
  BY <1>1, <1>2, <1>3, <1>4, <1>5, <1>6, <1>7, <1>8, <1>9 DEF SessionNext, CallStep

\* No retry before the time a 429 asked for, in the arithmetic of time.Duration and
\* for every number in the header (middleware.go:193-205).
THEOREM RetryWaits == SessionSpec => RetryAfterRespected
<1> DEFINE Waits == \A r \in Requests : pc[r] = "backoff" /\ pc'[r] = "attempt" => asked[r] = 0
<1>1. SessionSound /\ AskedInv /\ [SessionNext]_sessionVars => Waits
  <2> SUFFICES ASSUME SessionSound, AskedInv, [SessionNext]_sessionVars,
                      NEW r \in Requests, pc[r] = "backoff", pc'[r] = "attempt"
               PROVE  timer[r] = 0
    BY DEF SessionSound, HeadersTyped, AskedInv
  <2>0. pc \in [Requests -> {"idle", "attempt", "gate", "wire", "executed",
                             "judge", "backoff", "done"}]
    BY DEF SessionSound, SoundInv, PipelineTypeOK
  <2> USE <2>0 DEF Goto
  <2>1. CASE SessionTick \/ UNCHANGED sessionVars
    BY <2>1 DEF SessionTick, Tick, sessionVars, pipelineVars
  <2>2. ASSUME NEW q \in Requests,
               AskToken(q) \/ GetToken(q) \/ AwaitLock(q) \/ IssueToken(q) \/ Outside(q)
        PROVE  FALSE
    BY <2>2 DEF AskToken, GetToken, AwaitLock, IssueToken, Outside, pipelineVars,
                Start, Cancel, ServerExecutes, ArrivesLate
  <2>3. ASSUME NEW q \in Requests,
               \/ Carry(q) \/ GetTokenFails(q) \/ MeetBreaker(q)
               \/ Respond(q) \/ LoseAnswer(q) \/ FallAsleep(q) \/ Finish(q)
        PROVE  FALSE
    BY <2>3 DEF Carry, GetTokenFails, MeetBreaker, PassMiddlewares, TokenFails, EnterBreaker,
                StopAtBreaker, ReportOpen, Respond, Answer, LoseAnswer, TransportFails,
                EndAttempt, FallAsleep, BeginBackoff, Finish, GiveUp, BackoffPanics,
                CancelBackoff
  <2>4. ASSUME NEW q \in Requests, WakeUp(q)
        PROVE  timer[r] = 0
    BY <2>4 DEF WakeUp, NextAttempt
  <2> QED
    BY <2>1, <2>2, <2>3, <2>4 DEF SessionNext, CallStep
<1>2. SessionInit => AskedInv
  BY DEF SessionInit, PipelineInit, AskedInv
<1> QED
  BY <1>1, <1>2, SessionSoundInit, SessionSoundNext, AskedNext, PTL
  DEF SessionSpec, RetryAfterRespected

--------------------------------------------------------------------------------

\* The token manager the calls of a session share is AuthManager, with the calls for
\* callers: what is proved of it holds in a client at work (client.go:72-79).
THEOREM SessionImplementsTokenManager == SessionSpec => AP!AuthSpec
<1>1. SessionInit => AP!AuthInit
  BY SameInit DEF SessionInit
<1>2. [SessionNext]_sessionVars => [AP!AuthNext]_(AP!authVars)
  BY AuthStep, SameStep
<1> QED
  BY <1>1, <1>2, PTL DEF SessionSpec, AP!AuthSpec

\* With a cache whose reads do not fail, no call of a session exchanges keys while the
\* cache holds a valid token, however many attempts and backoffs of how many calls
\* ask for one (auth.go:209-225, middleware.go:229-251).
THEOREM SessionHasNoRefreshStorm ==
  ASSUME "get" \notin CacheFaults
  PROVE  SessionSpec => []AP!NoRedundantFetch
<1>1. AP!AuthSpec => []AP!NoRedundantFetch
  BY AuthSettings, AP!NoRefreshStorm DEF AP!AuthAssumption
<1> QED
  BY <1>1, SessionImplementsTokenManager

\* Calls of a session exchange keys one at a time, and one that has a token has its
\* metadata (auth.go:218, 251-265).
THEOREM SessionExchangesInTurn ==
  SessionSpec => []AP!OneExchangeAtATime /\ []AP!MetadataKnown
<1>1. AP!AuthSpec => []AP!OneExchangeAtATime
  BY AuthSettings, AP!OneExchange DEF AP!AuthAssumption
<1>2. AP!AuthSpec => []AP!MetadataKnown
  BY AuthSettings, AP!MetadataComesWithToken DEF AP!AuthAssumption
<1> QED
  BY <1>1, <1>2, SessionImplementsTokenManager

\* A call of a session is executed at most once and says success only if it was, with
\* tokens that die, backoffs that are timed and any Retry-After on the way
\* (client.go:161-276, middleware.go:158-272).
THEOREM SessionImplementsCall ==
  ASSUME OneCallPerContext
  PROVE  SessionSpec => ImplementsCall /\ []EffectAtMostOnce
<1>1. PipelineSpec => ImplementsCall
  BY PipelineImplementsCall
<1> QED
  BY <1>1, AtMostOnce, SessionImplementsPipeline

--------------------------------------------------------------------------------

\* How many steps at most are left to GetToken.
TokenWay(r) ==
  CASE place[r] = "idle"    -> 10
    [] place[r] = "read"    -> 9
    [] place[r] = "judge"   -> 8
    [] place[r] = "wait"    -> 7
    [] place[r] = "check"   -> 6
    [] place[r] = "recheck" -> 5
    [] place[r] = "fetch"   -> 4
    [] place[r] = "reply"   -> 3
    [] place[r] = "store"   -> 2
    [] place[r] = "unlock"  -> 1
    [] place[r] = "done"    -> 0

SessionRank(r) == 11 * Rank(r) + TokenWay(r)

SessionCountsDown ==
  \A r \in Requests :
    /\ SessionRank(r) \in Nat
    /\ SessionRank(r)' <= SessionRank(r)
    /\ CallStep(r) \/ AwaitLock(r) \/ IssueToken(r) => SessionRank(r)' < SessionRank(r)

\* GetToken has no loop: it goes from one read to the other, to the exchange and to its
\* return (auth.go:205-236).
LEMMA TokenWayDrops ==
  ASSUME SessionSound, NEW r \in Requests,
         AskToken(r) \/ GetToken(r) \/ AwaitLock(r) \/ IssueToken(r)
  PROVE  /\ UNCHANGED pipelineVars
         /\ TokenWay(r)' < TokenWay(r)
         /\ \A q \in Requests \ {r} : place'[q] = place[q]
<1>0. place \in [Requests -> AP!Unlocked \union AP!Locked]
  BY DEF SessionSound, AuthSound, AP!AuthTypeOK
<1>1. UNCHANGED pipelineVars
  BY DEF AskToken, GetToken, AwaitLock, IssueToken
<1>2. \/ place[r] = "idle" /\ place' = [place EXCEPT ![r] = "read"]
      \/ place[r] = "wait" /\ place' = [place EXCEPT ![r] = "check"]
      \/ place[r] = "fetch" /\ place' = [place EXCEPT ![r] = "reply"]
      \/ place[r] # "done" /\ Auth!GoOn(r)
  BY DEF AskToken, GetToken, AwaitLock, IssueToken, Auth!CallGetToken, Auth!Lock,
         Auth!ServerIssues, Auth!Goto
<1>3. ASSUME place[r] # "done", Auth!GoOn(r)
      PROVE  \/ place[r] = "read" /\ place' = [place EXCEPT ![r] = "judge"]
             \/ place[r] = "judge" /\ place' = [place EXCEPT ![r] = "wait"]
             \/ place[r] = "check" /\ place' = [place EXCEPT ![r] = "recheck"]
             \/ place[r] = "recheck" /\ place' = [place EXCEPT ![r] = "fetch"]
             \/ place[r] = "reply" /\ place' = [place EXCEPT ![r] = "store"]
             \/ place[r] = "store" /\ place' = [place EXCEPT ![r] = "unlock"]
             \/ /\ place[r] \in {"judge", "recheck", "fetch", "reply", "unlock"}
                /\ place' = [place EXCEPT ![r] = "done"]
  BY <1>3
  DEF Auth!GoOn, Auth!Read, Auth!UseCached, Auth!WaitForLock, Auth!ReadAgain,
      Auth!UseRefreshed, Auth!Send, Auth!FetchFails, Auth!Receive, Auth!Store,
      Auth!Unlock, Auth!Return, Auth!Goto
<1>4. TokenWay(r)' < TokenWay(r)
  BY <1>0, <1>2, <1>3 DEF TokenWay
<1> QED
  BY <1>0, <1>1, <1>2, <1>3, <1>4

\* Only its own steps move a call through GetToken (auth.go:205-236).
LEMMA OthersKeepPlace ==
  ASSUME SessionSound, [SessionNext]_sessionVars, NEW r \in Requests,
         ~(CallStep(r) \/ AwaitLock(r) \/ IssueToken(r))
  PROVE  place'[r] = place[r]
<1>0. place \in [Requests -> AP!Unlocked \union AP!Locked]
  BY DEF SessionSound, AuthSound, AP!AuthTypeOK
<1>1. CASE SessionTick \/ UNCHANGED sessionVars
  BY <1>1 DEF SessionTick, sessionVars, tokenVars, Auth!Tick
<1>2. ASSUME NEW q \in Requests, AskToken(q) \/ GetToken(q) \/ AwaitLock(q) \/ IssueToken(q)
      PROVE  place'[r] = place[r]
  <2>1. q # r
    BY <1>2 DEF CallStep
  <2> QED
    BY <1>2, <2>1, TokenWayDrops
<1>3. ASSUME NEW q \in Requests, Carry(q) \/ GetTokenFails(q)
      PROVE  place'[r] = place[r]
  <2>1. q # r
    BY <1>3 DEF CallStep
  <2> QED
    BY <1>0, <1>3, <2>1 DEF Carry, GetTokenFails, tokenVars, Auth!Return, Auth!Goto
<1>4. ASSUME NEW q \in Requests,
             \/ MeetBreaker(q) \/ Respond(q) \/ LoseAnswer(q) \/ FallAsleep(q)
             \/ WakeUp(q) \/ Finish(q) \/ Outside(q)
      PROVE  place'[r] = place[r]
  BY <1>4 DEF MeetBreaker, Respond, LoseAnswer, FallAsleep, WakeUp, Finish, Outside, tokenVars
<1> QED
  BY <1>1, <1>2, <1>3, <1>4 DEF SessionNext, CallStep

\* No call of a session goes round for ever: with every step of its own, through its
\* token, the lock, the wire and its backoffs, a number falls that nothing raises,
\* neither time nor the steps of the calls it shares token and breaker with
\* (middleware.go:174-214, auth.go:205-236).
THEOREM SessionStepsCountDown == SessionSpec => [][SessionCountsDown]_sessionVars
<1>1. ASSUME SessionSound, [SessionNext]_sessionVars, NEW r \in Requests
      PROVE  /\ SessionRank(r) \in Nat
             /\ SessionRank(r)' <= SessionRank(r)
             /\ CallStep(r) \/ AwaitLock(r) \/ IssueToken(r) => SessionRank(r)' < SessionRank(r)
  <2>0. SoundInv /\ [PipelineNext]_pipelineVars /\ SessionSound'
    BY <1>1, PipelineStep, SessionSoundNext DEF SessionSound
  <2>1. Rank(r) \in Nat /\ Rank(r)' \in Int
    <3>1. StepsLeft /\ StepsLeft'
      BY <2>0, RankNat, PTL DEF SessionSound, SoundInv
    <3>2. LastAttempt \in Nat /\ LastAttempt' = LastAttempt
      BY PipelineAssumption DEF LastAttempt
    <3> QED
      BY <3>1, <3>2 DEF StepsLeft
  <2>2. TokenWay(r) \in 0 .. 10 /\ TokenWay(r)' \in 0 .. 10
    <3>1. place[r] \in AP!Unlocked \union AP!Locked /\ place'[r] \in AP!Unlocked \union AP!Locked
      BY <1>1, <2>0 DEF SessionSound, AuthSound, AP!AuthTypeOK, AP!Unlocked, AP!Locked
    <3> QED
      BY <3>1 DEF TokenWay, AP!Unlocked, AP!Locked
  <2>3. Rank(r)' < Rank(r) => SessionRank(r)' < SessionRank(r)
    BY <2>1, <2>2 DEF SessionRank
  <2>4. Rank(r)' <= Rank(r) /\ TokenWay(r)' < TokenWay(r) => SessionRank(r)' < SessionRank(r)
    BY <2>1, <2>2 DEF SessionRank
  <2>5. Rank(r)' <= Rank(r) /\ place'[r] = place[r] => SessionRank(r)' <= SessionRank(r)
    <3>1. place'[r] = place[r] => TokenWay(r)' = TokenWay(r)
      BY DEF TokenWay
    <3> QED
      BY <2>1, <2>2, <3>1 DEF SessionRank
  <2>6. SessionRank(r)' < SessionRank(r) => SessionRank(r)' <= SessionRank(r)
    BY <2>1, <2>2 DEF SessionRank
  <2>7. SessionRank(r) \in Nat
    BY <2>1, <2>2 DEF SessionRank
  <2>8. Rank(r)' <= Rank(r)
    BY <2>0, OthersKeepRank
  <2>9. Progress(r) => Rank(r)' < Rank(r)
    BY <2>0, ProgressDrops
  <2>10. CASE AskToken(r) \/ GetToken(r) \/ AwaitLock(r) \/ IssueToken(r)
    <3>1. TokenWay(r)' < TokenWay(r)
      BY <1>1, <2>10, TokenWayDrops
    <3> QED
      BY <2>4, <2>6, <2>7, <2>8, <3>1
  <2>11. CASE \/ Carry(r) \/ GetTokenFails(r) \/ MeetBreaker(r) \/ Respond(r)
              \/ LoseAnswer(r) \/ FallAsleep(r) \/ WakeUp(r) \/ Finish(r)
    <3>1. Progress(r)
      BY <2>11 DEF Carry, GetTokenFails, MeetBreaker, Respond, LoseAnswer, FallAsleep,
                   WakeUp, Finish, Progress
    <3> QED
      BY <2>3, <2>6, <2>7, <2>9, <3>1
  <2>12. CASE ~(CallStep(r) \/ AwaitLock(r) \/ IssueToken(r))
    <3>1. place'[r] = place[r]
      BY <1>1, <2>12, OthersKeepPlace
    <3> QED
      BY <2>5, <2>7, <2>8, <2>12, <3>1
  <2> QED
    BY <2>10, <2>11, <2>12 DEF CallStep
<1>2. SessionSound /\ [SessionNext]_sessionVars => SessionCountsDown
  BY <1>1 DEF SessionCountsDown
<1> QED
  BY <1>2, SessionSoundInit, SessionSoundNext, PTL DEF SessionSpec

================================================================================
