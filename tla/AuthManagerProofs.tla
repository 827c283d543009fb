--------------------------- MODULE AuthManagerProofs ---------------------------
(***************************************************************************)
(* Theorems about AuthManager, for any sets of goroutines and tokens, any   *)
(* answers of the server and any lifetimes.                                 *)
(***************************************************************************)
EXTENDS AuthManager, TLAPS

\* A lifetime is a natural number whatever the server announces
\* (auth.go:336-339).
LEMMA LifetimeNat == ASSUME NEW e \in ExpiresIn PROVE Lifetime(e) \in Nat
BY AuthAssumption DEF Lifetime

\* A new AuthManager is well typed (auth.go:187-196).
LEMMA TypeInit == AuthInit => AuthTypeOK
BY AuthAssumption DEF AuthInit, AuthTypeOK, Entry, NoEntry, AnyToken, Unlocked, Locked

\* The entry of a cache miss is an entry.
LEMMA NoEntryTyped == NoEntry \in Entry /\ NoToken \in AnyToken /\ Tokens \subseteq AnyToken
BY DEF NoEntry, Entry, AnyToken

\* What an entry is made of.
LEMMA EntryTyped == ASSUME NEW e \in Entry PROVE e.token \in AnyToken /\ e.exp \in Int
BY DEF Entry

\* Every step keeps the types.
LEMMA TypeNext == AuthTypeOK /\ [AuthNext]_authVars => AuthTypeOK'
<1> SUFFICES ASSUME AuthTypeOK, [AuthNext]_authVars
             PROVE  AuthTypeOK'
  OBVIOUS
<1> USE AuthAssumption, LifetimeNat, NoEntryTyped
    DEF AuthTypeOK, Unlocked, Locked, Goto, DropEntry,
        EndExchange, Forget, serverVars
<1>1. CASE Tick
  BY <1>1 DEF Tick
<1>2. CASE ClearCache
  BY <1>2 DEF ClearCache
<1>3. CASE Restart
  BY <1>3 DEF Restart
<1>4. ASSUME NEW c \in Callers, CallGetToken(c) \/ CallRefresh(c)
      PROVE  AuthTypeOK'
  <2>1. cache.token \in AnyToken
    BY EntryTyped
  <2> QED
    BY <1>4, <2>1 DEF CallGetToken, CallRefresh
<1>5. ASSUME NEW c \in Callers, Read(c) \/ ReadAgain(c)
      PROVE  AuthTypeOK'
  BY <1>5 DEF Read, ReadAgain, GetResults
<1>6. ASSUME NEW c \in Callers, UseCached(c) \/ UseRefreshed(c)
      PROVE  AuthTypeOK'
  <2>1. entry[c].token \in AnyToken
    BY EntryTyped
  <2> QED
    BY <1>6, <2>1 DEF UseCached, UseRefreshed
<1>7. ASSUME NEW c \in Callers, WaitForLock(c) \/ Lock(c) \/ Unlock(c)
      PROVE  AuthTypeOK'
  BY <1>7 DEF WaitForLock, Lock, Unlock
<1>8. ASSUME NEW c \in Callers, Send(c) \/ FetchFails(c)
      PROVE  AuthTypeOK'
  BY <1>8 DEF Send, FetchFails
<1>9. ASSUME NEW c \in Callers, ServerIssues(c)
      PROVE  AuthTypeOK'
  <2>1. PICK t \in Tokens \ issued, e \in ExpiresIn :
          /\ token' = [token EXCEPT ![c] = t]
          /\ ttl' = [ttl EXCEPT ![c] = Lifetime(e)]
          /\ dies' = [dies EXCEPT ![t] = now + Lifetime(e)]
          /\ issued' = issued \union {t}
    BY <1>9 DEF ServerIssues
  <2>2. Lifetime(e) \in Nat /\ now + Lifetime(e) \in Nat
    OBVIOUS
  <2> QED
    BY <1>9, <2>1, <2>2 DEF ServerIssues
<1>10. ASSUME NEW c \in Callers, Receive(c)
       PROVE  AuthTypeOK'
  <2>1. [token |-> token[c], exp |-> now + ttl[c] - Margin] \in Entry
    BY DEF Entry
  <2> QED
    BY <1>10, <2>1 DEF Receive
<1>11. ASSUME NEW c \in Callers, Store(c)
       PROVE  AuthTypeOK'
  BY <1>11 DEF Store
<1>12. ASSUME NEW c \in Callers, Return(c) \/ Panic(c)
       PROVE  AuthTypeOK'
  BY <1>12 DEF Return, Panic
<1>13. CASE UNCHANGED authVars
  BY <1>13 DEF authVars
<1> QED
  BY <1>1, <1>2, <1>3, <1>4, <1>5, <1>6, <1>7, <1>8, <1>9, <1>10, <1>11, <1>12, <1>13
  DEF AuthNext, GoOn

\* The variables of AuthManager keep their types (auth.go:171-185).
THEOREM AuthTypeCorrect == AuthSpec => []AuthTypeOK
BY TypeInit, TypeNext, PTL DEF AuthSpec

--------------------------------------------------------------------------------

\* Being past Lock means owning am.mu.  The converse fails after a panic.
Owner == \A c \in Callers : pc[c] \in Locked => mutex = c

\* Every step keeps the owner of the mutex and the program counters together
\* (auth.go:218-234).
LEMMA OwnerNext == AuthTypeOK /\ Owner /\ [AuthNext]_authVars => Owner'
<1> SUFFICES ASSUME AuthTypeOK, Owner, [AuthNext]_authVars
             PROVE  Owner'
  OBVIOUS
<1> USE DEF Owner, Goto, Locked, AuthTypeOK
<1>1. CASE Tick \/ ClearCache
  BY <1>1 DEF Tick, ClearCache
<1>2. CASE Restart
  BY <1>2 DEF Restart
<1>3. ASSUME NEW c \in Callers, Lock(c)
      PROVE  Owner'
  BY <1>3, AuthAssumption DEF Lock
<1>4. ASSUME NEW c \in Callers, UseRefreshed(c) \/ FetchFails(c) \/ Unlock(c)
      PROVE  Owner'
  BY <1>4 DEF UseRefreshed, FetchFails, Unlock
<1>5. ASSUME NEW c \in Callers, ReadAgain(c) \/ Send(c) \/ ServerIssues(c) \/ Receive(c) \/ Store(c)
      PROVE  Owner'
  BY <1>5 DEF ReadAgain, Send, ServerIssues, Receive, Store
<1>6. ASSUME NEW c \in Callers,
             CallGetToken(c) \/ CallRefresh(c) \/ Read(c) \/ UseCached(c) \/ WaitForLock(c)
      PROVE  Owner'
  BY <1>6 DEF CallGetToken, CallRefresh, Read, UseCached, WaitForLock
<1>7. ASSUME NEW c \in Callers, Return(c) \/ Panic(c)
      PROVE  Owner'
  BY <1>7 DEF Return, Panic
<1>8. CASE UNCHANGED authVars
  BY <1>8 DEF authVars
<1> QED
  BY <1>1, <1>2, <1>3, <1>4, <1>5, <1>6, <1>7, <1>8 DEF AuthNext, GoOn

\* The lock starts free.
LEMMA OwnerInit == AuthInit => Owner
BY DEF AuthInit, Owner, Locked

\* Goroutines of a process exchange keys one at a time, whatever fails: cache
\* errors, a panicking HTTP client, restarts (auth.go:218, README.md:215).
THEOREM OneExchange == AuthSpec => []OneExchangeAtATime
<1>1. Owner => OneExchangeAtATime
  BY DEF Owner, OneExchangeAtATime, Locked
<1> QED
  BY <1>1, TypeInit, TypeNext, OwnerInit, OwnerNext, PTL DEF AuthSpec

\* Without a panicking HTTP client the converse holds too, and every step keeps
\* it: each way out of GetToken unlocks (auth.go:218-234).
LEMMA LockNext ==
  ASSUME ClientPanics = FALSE
  PROVE  AuthTypeOK /\ LockDiscipline /\ [AuthNext]_authVars => LockDiscipline'
<1> SUFFICES ASSUME AuthTypeOK, LockDiscipline, [AuthNext]_authVars
             PROVE  LockDiscipline'
  OBVIOUS
<1> USE AuthAssumption DEF LockDiscipline, Goto, Locked, AuthTypeOK
<1>1. CASE Tick \/ ClearCache
  BY <1>1 DEF Tick, ClearCache
<1>2. CASE Restart
  BY <1>2 DEF Restart
<1>3. ASSUME NEW c \in Callers, Lock(c)
      PROVE  LockDiscipline'
  BY <1>3 DEF Lock
<1>4. ASSUME NEW c \in Callers, UseRefreshed(c) \/ FetchFails(c) \/ Unlock(c)
      PROVE  LockDiscipline'
  BY <1>4 DEF UseRefreshed, FetchFails, Unlock
<1>5. ASSUME NEW c \in Callers, ReadAgain(c) \/ Send(c) \/ ServerIssues(c) \/ Receive(c) \/ Store(c)
      PROVE  LockDiscipline'
  BY <1>5 DEF ReadAgain, Send, ServerIssues, Receive, Store
<1>6. ASSUME NEW c \in Callers,
             CallGetToken(c) \/ CallRefresh(c) \/ Read(c) \/ UseCached(c) \/ WaitForLock(c)
      PROVE  LockDiscipline'
  BY <1>6 DEF CallGetToken, CallRefresh, Read, UseCached, WaitForLock
<1>7. ASSUME NEW c \in Callers, Return(c)
      PROVE  LockDiscipline'
  BY <1>7 DEF Return
<1>8. CASE UNCHANGED authVars
  BY <1>8 DEF authVars
<1> QED
  BY <1>1, <1>2, <1>3, <1>4, <1>5, <1>6, <1>7, <1>8 DEF AuthNext, GoOn, Panic

\* As long as the HTTP client does not panic, am.mu is held exactly by the
\* goroutine between Lock and Unlock (auth.go:218-234).
THEOREM MutexIsReleased ==
  ASSUME ClientPanics = FALSE
  PROVE  AuthSpec => []LockDiscipline
<1>1. AuthInit => LockDiscipline
  BY AuthAssumption DEF AuthInit, LockDiscipline, Locked
<1> QED
  BY <1>1, TypeInit, TypeNext, LockNext, PTL DEF AuthSpec

--------------------------------------------------------------------------------

\* Between its double check and its decision the lock holder has read what the
\* cache still holds, unless it was deleted; during the exchange the cache holds
\* nothing valid.
FetchInv ==
  \A c \in Callers :
    /\ pc[c] = "recheck" => cache \in {entry[c], NoEntry}
    /\ pc[c] \in {"fetch", "reply"} => ~CacheValid

\* An invalid entry stays invalid while time passes.
LEMMA ExpiryIsFinal ==
  ASSUME AuthTypeOK, ~CacheValid, now' \in {now, now + 1}, cache' \in {cache, NoEntry}
  PROVE  ~CacheValid'
<1>1. cache.exp \in Int /\ now \in Int
  BY EntryTyped, AuthAssumption DEF AuthTypeOK
<1> QED
  BY <1>1 DEF CacheValid, Valid, NoEntry

\* Only the lock holder writes the cache, so what the double check found holds
\* to the end of the exchange (auth.go:220-227).
LEMMA FetchNext ==
  ASSUME "get" \notin CacheFaults
  PROVE  AuthTypeOK /\ Owner /\ FetchInv /\ [AuthNext]_authVars => FetchInv'
<1> SUFFICES ASSUME AuthTypeOK, Owner, FetchInv, [AuthNext]_authVars
             PROVE  FetchInv'
  OBVIOUS
<1> USE AuthAssumption, ExpiryIsFinal DEF FetchInv, Goto, AuthTypeOK
<1>1. CASE Tick
  BY <1>1 DEF Tick
<1>2. CASE ClearCache
  BY <1>2 DEF ClearCache
<1>3. CASE Restart
  BY <1>3 DEF Restart
<1>4. ASSUME NEW c \in Callers, CallGetToken(c) \/ CallRefresh(c)
      PROVE  FetchInv'
  BY <1>4 DEF CallGetToken, CallRefresh
<1>5. ASSUME NEW c \in Callers, Read(c) \/ UseCached(c) \/ WaitForLock(c) \/ Lock(c)
      PROVE  FetchInv'
  BY <1>5 DEF Read, UseCached, WaitForLock, Lock, DropEntry, CacheValid, Valid
<1>6. ASSUME NEW c \in Callers, ReadAgain(c)
      PROVE  FetchInv'
  BY <1>6 DEF ReadAgain, GetResults, CacheValid, Valid
<1>7. ASSUME NEW c \in Callers, Send(c)
      PROVE  FetchInv'
  <2>1. ~CacheValid
    BY <1>7 DEF Send, CacheValid, Valid, NoEntry
  <2> QED
    BY <1>7, <2>1 DEF Send, DropEntry, CacheValid, Valid
<1>8. ASSUME NEW c \in Callers, UseRefreshed(c) \/ FetchFails(c) \/ ServerIssues(c)
      PROVE  FetchInv'
  BY <1>8 DEF UseRefreshed, FetchFails, ServerIssues, DropEntry, EndExchange, CacheValid, Valid
<1>9. ASSUME NEW c \in Callers, Receive(c) \/ Unlock(c) \/ Return(c) \/ Panic(c)
      PROVE  FetchInv'
  BY <1>9 DEF Receive, Unlock, Return, Panic, Forget, DropEntry, CacheValid, Valid
<1>10. ASSUME NEW c \in Callers, Store(c)
       PROVE  FetchInv'
  <2>1. \A d \in Callers : pc[d] \in {"recheck", "fetch", "reply"} => d = c
    BY <1>10 DEF Store, Owner, Locked
  <2>2. \A d \in Callers : pc'[d] \notin {"recheck", "fetch", "reply"}
    BY <1>10, <2>1 DEF Store
  <2> QED
    BY <2>2
<1>11. CASE UNCHANGED authVars
  BY <1>11 DEF authVars, CacheValid, Valid
<1> QED
  BY <1>1, <1>2, <1>3, <1>4, <1>5, <1>6, <1>7, <1>8, <1>9, <1>10, <1>11 DEF AuthNext, GoOn

\* With a cache whose reads do not fail, no goroutine exchanges keys while the
\* cache holds a valid token: no refresh storm (auth.go:209-225).
THEOREM NoRefreshStorm ==
  ASSUME "get" \notin CacheFaults
  PROVE  AuthSpec => []NoRedundantFetch
<1>1. AuthInit => FetchInv
  BY DEF AuthInit, FetchInv
<1>2. FetchInv => NoRedundantFetch
  BY DEF FetchInv, NoRedundantFetch
<1> QED
  BY <1>1, <1>2, TypeInit, TypeNext, OwnerInit, OwnerNext, FetchNext, PTL DEF AuthSpec

--------------------------------------------------------------------------------

\* An entry expires no later than its token dies.
Covered(e) ==
  e.token # NoToken => e.token \in issued /\ e.exp + Margin <= dies[e.token] + Timeout

\* Why expiry is early enough: the answer is at most Timeout old when the entry
\* is computed.
ExpiryInv ==
  /\ Covered(cache)
  /\ \A c \in Callers :
       /\ Covered(entry[c])
       /\ pc[c] \in {"fetch", "reply"} => sentAt[c] <= now /\ now <= sentAt[c] + Timeout
       /\ pc[c] = "reply" => /\ token[c] \in issued
                             /\ sentAt[c] + ttl[c] <= dies[token[c]]

\* Every step keeps the expiry times covered: an answer is at most Timeout old
\* when its entry is computed (auth.go:290-296, 341-342).
LEMMA ExpiryNext == AuthTypeOK /\ ExpiryInv /\ [AuthNext]_authVars => ExpiryInv'
<1> SUFFICES ASSUME AuthTypeOK, ExpiryInv, [AuthNext]_authVars
             PROVE  ExpiryInv'
  OBVIOUS
<1>0. Covered(NoEntry) /\ (Covered(NoEntry))'
  BY DEF Covered, NoEntry
<1> USE AuthAssumption, <1>0 DEF ExpiryInv, Goto, AuthTypeOK
<1>1. CASE Tick
  <2>1. \A e : Covered(e) => (Covered(e))'
    BY <1>1 DEF Tick, Covered, serverVars
  <2>2. \A c \in Callers : pc[c] \in {"fetch", "reply"} => now + 1 <= sentAt[c] + Timeout
    BY <1>1 DEF Tick, ClockMayAdvance
  <2> QED
    BY <1>1, <2>1, <2>2 DEF Tick, serverVars
<1>2. CASE ClearCache \/ Restart
  BY <1>2 DEF ClearCache, Restart, serverVars, Covered
<1>3. ASSUME NEW c \in Callers, CallGetToken(c) \/ CallRefresh(c) \/ Lock(c) \/ Unlock(c)
      PROVE  ExpiryInv'
  BY <1>3 DEF CallGetToken, CallRefresh, Lock, Unlock, serverVars, Covered
<1>4. ASSUME NEW c \in Callers, Read(c) \/ ReadAgain(c)
      PROVE  ExpiryInv'
  BY <1>4 DEF Read, ReadAgain, GetResults, serverVars, Covered
<1>5. ASSUME NEW c \in Callers, UseCached(c) \/ WaitForLock(c) \/ UseRefreshed(c)
      PROVE  ExpiryInv'
  BY <1>5 DEF UseCached, WaitForLock, UseRefreshed, DropEntry, serverVars, Covered
<1>6. ASSUME NEW c \in Callers, Send(c)
      PROVE  ExpiryInv'
  BY <1>6 DEF Send, DropEntry, serverVars, Covered
<1>7. ASSUME NEW c \in Callers, ServerIssues(c)
      PROVE  ExpiryInv'
  <2>1. PICK t \in Tokens \ issued, e \in ExpiresIn :
          /\ token' = [token EXCEPT ![c] = t]
          /\ ttl' = [ttl EXCEPT ![c] = Lifetime(e)]
          /\ dies' = [dies EXCEPT ![t] = now + Lifetime(e)]
          /\ issued' = issued \union {t}
    BY <1>7 DEF ServerIssues
  <2>2. Lifetime(e) \in Nat
    BY LifetimeNat
  <2>3. \A x : Covered(x) => (Covered(x))'
    BY <2>1 DEF Covered
  <2>4. sentAt[c] <= now /\ now <= sentAt[c] + Timeout
    BY <1>7 DEF ServerIssues
  <2> QED
    BY <1>7, <2>1, <2>2, <2>3, <2>4 DEF ServerIssues
<1>8. ASSUME NEW c \in Callers, FetchFails(c) \/ Store(c)
      PROVE  ExpiryInv'
  BY <1>8 DEF FetchFails, Store, EndExchange, DropEntry, serverVars, Covered
<1>9. ASSUME NEW c \in Callers, Receive(c)
      PROVE  ExpiryInv'
  <2> DEFINE e == [token |-> token[c], exp |-> now + ttl[c] - Margin]
  <2>1. Covered(e)
    <3>1. token[c] \in issued /\ sentAt[c] + ttl[c] <= dies[token[c]] /\ now <= sentAt[c] + Timeout
      BY <1>9 DEF Receive
    <3>2. token[c] \in Tokens /\ dies[token[c]] \in Nat /\ ttl[c] \in Nat /\ sentAt[c] \in Nat /\ now \in Nat
      BY <3>1
    <3> QED
      BY <3>1, <3>2 DEF Covered
  <2>2. \A x : Covered(x) => (Covered(x))'
    BY <1>9 DEF Receive, Covered, serverVars
  <2>3. entry' = [entry EXCEPT ![c] = e] /\ cache' = cache /\ pc' = [pc EXCEPT ![c] = "store"]
    BY <1>9 DEF Receive
  <2> HIDE DEF e
  <2> QED
    BY <1>9, <2>1, <2>2, <2>3 DEF Receive, EndExchange, serverVars
<1>10. ASSUME NEW c \in Callers, Return(c) \/ Panic(c)
       PROVE  ExpiryInv'
  BY <1>10 DEF Return, Panic, Forget, DropEntry, EndExchange, serverVars, Covered
<1>11. CASE UNCHANGED authVars
  BY <1>11 DEF authVars, Covered
<1> QED
  BY <1>1, <1>2, <1>3, <1>4, <1>5, <1>6, <1>7, <1>8, <1>9, <1>10, <1>11 DEF AuthNext, GoOn

\* No entry and no exchange to begin with.
LEMMA ExpiryInit == AuthInit => ExpiryInv
BY DEF AuthInit, ExpiryInv, Covered, NoEntry

\* When the request timeout is at most TokenExpiryMargin, as the defaults (30 s
\* and 60 s) are, an entry the SDK calls valid holds a live token (auth.go:341-342).
THEOREM ValidTokensAreAlive ==
  ASSUME Timeout <= Margin
  PROVE  AuthSpec => []ValidMeansAlive
<1>1. AuthTypeOK /\ ExpiryInv => ValidMeansAlive
  <2> SUFFICES ASSUME AuthTypeOK, ExpiryInv,
                      NEW e \in {cache} \union {entry[c] : c \in Callers}, Valid(e)
               PROVE  now < dies[e.token]
    BY DEF ValidMeansAlive
  <2>1. e \in Entry /\ Covered(e)
    BY DEF AuthTypeOK, ExpiryInv
  <2>2. /\ e.token \in Tokens /\ e.exp \in Int /\ dies[e.token] \in Nat /\ now \in Nat
        /\ Margin \in Nat /\ Timeout \in Nat
    BY <2>1, EntryTyped, AuthAssumption DEF Valid, AuthTypeOK, AnyToken
  <2> QED
    BY <2>1, <2>2 DEF Covered, Valid
<1> QED
  BY <1>1, TypeInit, TypeNext, ExpiryInit, ExpiryNext, PTL DEF AuthSpec

--------------------------------------------------------------------------------

\* Where tokens can be: those in flight to the cache are not in it.
InFlight(d) == pc[d] \in {"reply", "store"}

PlacesInv ==
  /\ cache.token \in issued \union {NoToken}
  /\ \A d \in Callers :
       /\ entry[d].token \in issued \union {NoToken}
       /\ pc[d] = "idle" => entry[d] = NoEntry /\ token[d] = NoToken
       /\ InFlight(d) => token[d] \in issued /\ token[d] # cache.token
       /\ pc[d] = "store" => entry[d].token = token[d]

\* A token is nowhere a goroutine c could still get it from.
Gone(t, c) ==
  /\ t \in issued
  /\ cache.token # t /\ entry[c].token # t /\ token[c] # t
  /\ \A d \in Callers : InFlight(d) => token[d] # t

ReplaceInv == PlacesInv /\ \A c \in Callers : dropped[c] # NoToken => Gone(dropped[c], c)

\* Every step keeps the places of the tokens (auth.go:211-240, 344).
LEMMA PlacesNext ==
  AuthTypeOK /\ Owner /\ PlacesInv /\ [AuthNext]_authVars => PlacesInv'
<1> SUFFICES ASSUME AuthTypeOK, Owner, PlacesInv, [AuthNext]_authVars
             PROVE  PlacesInv'
  OBVIOUS
<1> USE AuthAssumption DEF PlacesInv, InFlight, Goto, AuthTypeOK, serverVars, NoEntry
<1>0. NoToken \notin issued
  OBVIOUS
<1>1. CASE Tick \/ ClearCache
  BY <1>0, <1>1 DEF Tick, ClearCache
<1>2. CASE Restart
  BY <1>2 DEF Restart
<1>3. ASSUME NEW c \in Callers, CallGetToken(c) \/ CallRefresh(c)
      PROVE  PlacesInv'
  BY <1>0, <1>3 DEF CallGetToken, CallRefresh
<1>4. ASSUME NEW c \in Callers, Read(c) \/ ReadAgain(c)
      PROVE  PlacesInv'
  BY <1>4 DEF Read, ReadAgain, GetResults
<1>5. ASSUME NEW c \in Callers, UseCached(c) \/ WaitForLock(c) \/ UseRefreshed(c)
      PROVE  PlacesInv'
  BY <1>5 DEF UseCached, WaitForLock, UseRefreshed, DropEntry
<1>6. ASSUME NEW c \in Callers, Lock(c) \/ Unlock(c) \/ Send(c) \/ FetchFails(c)
      PROVE  PlacesInv'
  BY <1>6 DEF Lock, Unlock, Send, FetchFails, DropEntry
<1>7. ASSUME NEW c \in Callers, ServerIssues(c)
      PROVE  PlacesInv'
  <2>1. PICK t \in Tokens \ issued : /\ token' = [token EXCEPT ![c] = t]
                                     /\ issued' = issued \union {t}
    BY <1>7 DEF ServerIssues
  <2> QED
    BY <1>7, <2>1 DEF ServerIssues
<1>8. ASSUME NEW c \in Callers, Receive(c)
      PROVE  PlacesInv'
  BY <1>8 DEF Receive
<1>9. ASSUME NEW c \in Callers, Store(c)
      PROVE  PlacesInv'
  <2>1. \A d \in Callers : InFlight(d) => d = c
    BY <1>9 DEF Store, Owner, Locked
  <2>2. \A d \in Callers : pc'[d] \notin {"reply", "store"}
    BY <1>9, <2>1 DEF Store
  <2> QED
    BY <1>9, <2>2 DEF Store, DropEntry
<1>10. ASSUME NEW c \in Callers, Return(c) \/ Panic(c)
       PROVE  PlacesInv'
  BY <1>10 DEF Return, Panic, Forget, DropEntry
<1>11. CASE UNCHANGED authVars
  BY <1>11 DEF authVars
<1> QED
  BY <1>1, <1>2, <1>3, <1>4, <1>5, <1>6, <1>7, <1>8, <1>9, <1>10, <1>11 DEF AuthNext, GoOn

\* What a Refresh deleted stays out of its reach, provided deletions work
\* (auth.go:237-240).
LEMMA GoneNext ==
  ASSUME "delete" \notin CacheFaults
  PROVE  AuthTypeOK /\ Owner /\ ReplaceInv /\ [AuthNext]_authVars => ReplaceInv'
<1> SUFFICES ASSUME AuthTypeOK, Owner, ReplaceInv, [AuthNext]_authVars,
                    NEW r \in Callers, dropped'[r] # NoToken
             PROVE  Gone(dropped[r], r)'
  BY PlacesNext DEF ReplaceInv
<1> USE AuthAssumption
    DEF ReplaceInv, PlacesInv, Gone, InFlight, Goto, AuthTypeOK, serverVars, NoEntry
<1>0. NoToken \notin issued
  OBVIOUS
<1>1. CASE Tick \/ ClearCache
  BY <1>0, <1>1 DEF Tick, ClearCache
<1>2. CASE Restart
  BY <1>2 DEF Restart
<1>3. ASSUME NEW c \in Callers, CallGetToken(c)
      PROVE  Gone(dropped[r], r)'
  BY <1>3 DEF CallGetToken
<1>4. ASSUME NEW c \in Callers, CallRefresh(c)
      PROVE  Gone(dropped[r], r)'
  <2>1. /\ cache' = NoEntry /\ pc' = [pc EXCEPT ![c] = "read"]
        /\ dropped' = [dropped EXCEPT ![c] = cache.token]
        /\ UNCHANGED <<entry, token, issued>>
    BY <1>4 DEF CallRefresh
  <2>2. CASE r = c
    <3>1. entry[c] = NoEntry /\ token[c] = NoToken
      BY <1>4 DEF CallRefresh
    <3> QED
      BY <1>0, <2>1, <2>2, <3>1
  <2>3. CASE r # c
    BY <1>0, <2>1, <2>3
  <2> QED
    BY <2>2, <2>3
<1>5. ASSUME NEW c \in Callers, Read(c) \/ ReadAgain(c)
      PROVE  Gone(dropped[r], r)'
  BY <1>0, <1>5 DEF Read, ReadAgain, GetResults
<1>6. ASSUME NEW c \in Callers, UseCached(c) \/ WaitForLock(c) \/ UseRefreshed(c)
      PROVE  Gone(dropped[r], r)'
  BY <1>0, <1>6 DEF UseCached, WaitForLock, UseRefreshed, DropEntry
<1>7. ASSUME NEW c \in Callers, Lock(c) \/ Unlock(c) \/ Send(c) \/ FetchFails(c)
      PROVE  Gone(dropped[r], r)'
  BY <1>0, <1>7 DEF Lock, Unlock, Send, FetchFails, DropEntry
<1>8. ASSUME NEW c \in Callers, ServerIssues(c)
      PROVE  Gone(dropped[r], r)'
  <2>1. PICK t \in Tokens \ issued : /\ token' = [token EXCEPT ![c] = t]
                                     /\ issued' = issued \union {t}
    BY <1>8 DEF ServerIssues
  <2> QED
    BY <1>8, <2>1 DEF ServerIssues
<1>9. ASSUME NEW c \in Callers, Receive(c)
      PROVE  Gone(dropped[r], r)'
  BY <1>9 DEF Receive
<1>10. ASSUME NEW c \in Callers, Store(c)
       PROVE  Gone(dropped[r], r)'
  BY <1>0, <1>10 DEF Store, DropEntry
<1>11. ASSUME NEW c \in Callers, Return(c) \/ Panic(c)
       PROVE  Gone(dropped[r], r)'
  BY <1>0, <1>11 DEF Return, Panic, Forget, DropEntry
<1>12. CASE UNCHANGED authVars
  BY <1>12 DEF authVars
<1> QED
  BY <1>1, <1>2, <1>3, <1>4, <1>5, <1>6, <1>7, <1>8, <1>9, <1>10, <1>11, <1>12
  DEF AuthNext, GoOn

\* Refresh never hands out the token it deleted, if Delete does not fail: no
\* other goroutine can put that token back (auth.go:237-240).
THEOREM RefreshReplacesToken ==
  ASSUME "delete" \notin CacheFaults
  PROVE  AuthSpec => []RefreshReplaces
<1>1. AuthInit => ReplaceInv
  BY DEF AuthInit, ReplaceInv, PlacesInv, InFlight, NoEntry
<1>2. AuthTypeOK /\ ReplaceInv => RefreshReplaces
  BY DEF AuthTypeOK, ReplaceInv, Gone, RefreshReplaces
<1> QED
  BY <1>1, <1>2, TypeInit, TypeNext, OwnerInit, OwnerNext, GoneNext, PTL DEF AuthSpec

--------------------------------------------------------------------------------

\* Before the first exchange was answered there is no token to be had.
MetaInv ==
  meta = NoToken =>
    /\ cache.token = NoToken
    /\ \A c \in Callers :
         /\ entry[c].token = NoToken
         /\ pc[c] \in {"store", "unlock", "done"} => token[c] = NoToken

\* Every step keeps tokens and metadata together (auth.go:331-342).
LEMMA MetaNext ==
  ASSUME Restarts => ~Persistent
  PROVE  AuthTypeOK /\ PlacesInv /\ MetaInv /\ [AuthNext]_authVars => MetaInv'
<1> SUFFICES ASSUME AuthTypeOK, PlacesInv, MetaInv, [AuthNext]_authVars
             PROVE  MetaInv'
  OBVIOUS
<1> USE DEF MetaInv, Goto, AuthTypeOK, serverVars, NoEntry
<1>1. CASE Tick \/ ClearCache \/ Restart
  BY <1>1 DEF Tick, ClearCache, Restart
<1>2. ASSUME NEW c \in Callers, CallGetToken(c) \/ CallRefresh(c)
      PROVE  MetaInv'
  BY <1>2 DEF CallGetToken, CallRefresh
<1>3. ASSUME NEW c \in Callers, Read(c) \/ ReadAgain(c)
      PROVE  MetaInv'
  BY <1>3 DEF Read, ReadAgain, GetResults
<1>4. ASSUME NEW c \in Callers, UseCached(c) \/ WaitForLock(c) \/ UseRefreshed(c)
      PROVE  MetaInv'
  BY <1>4 DEF UseCached, WaitForLock, UseRefreshed, DropEntry
<1>5. ASSUME NEW c \in Callers, Lock(c) \/ Unlock(c) \/ Send(c) \/ FetchFails(c)
      PROVE  MetaInv'
  BY <1>5 DEF Lock, Unlock, Send, FetchFails, DropEntry
<1>6. ASSUME NEW c \in Callers, ServerIssues(c)
      PROVE  MetaInv'
  BY <1>6 DEF ServerIssues
<1>7. ASSUME NEW c \in Callers, Receive(c)
      PROVE  MetaInv'
  <2>1. token[c] # NoToken
    BY <1>7, AuthAssumption DEF Receive, PlacesInv, InFlight
  <2> QED
    BY <1>7, <2>1 DEF Receive
<1>8. ASSUME NEW c \in Callers, Store(c)
      PROVE  MetaInv'
  BY <1>8 DEF Store, DropEntry
<1>9. ASSUME NEW c \in Callers, Return(c) \/ Panic(c)
      PROVE  MetaInv'
  BY <1>9 DEF Return, Panic, Forget, DropEntry
<1>10. CASE UNCHANGED authVars
  BY <1>10 DEF authVars
<1> QED
  BY <1>1, <1>2, <1>3, <1>4, <1>5, <1>6, <1>7, <1>8, <1>9, <1>10 DEF AuthNext, GoOn

\* Whoever has a token has the metadata that came with the first of them, if no
\* token survives its process (auth.go:251-265, README.md:103).
THEOREM MetadataComesWithToken ==
  ASSUME Restarts => ~Persistent
  PROVE  AuthSpec => []MetadataKnown
<1>1. AuthInit => PlacesInv /\ MetaInv
  BY DEF AuthInit, PlacesInv, InFlight, MetaInv, NoEntry
<1>2. MetaInv => MetadataKnown
  BY DEF MetaInv, MetadataKnown
<1> QED
  BY <1>1, <1>2, TypeInit, TypeNext, OwnerInit, OwnerNext, PlacesNext, MetaNext, PTL
  DEF AuthSpec

================================================================================
