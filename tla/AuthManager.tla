------------------------------ MODULE AuthManager ------------------------------
(***************************************************************************)
(* auth.go, AuthManager: goroutines of one process share a token cache and  *)
(* a mutex.  GetToken reads the cache without the lock, then again under    *)
(* it, and the lock holder exchanges the keys for a new token.  Refresh     *)
(* deletes the cached token first, ClearCache deletes it at any time.       *)
(*                                                                         *)
(* The token server and the TokenCache implementation are external: the     *)
(* server issues each token once, with a lifetime it announces or not, and  *)
(* the cache may fail in the ways CacheFaults lists.  The clock is global   *)
(* and counts units; a pending exchange cannot outlive Timeout, which the   *)
(* transport puts on its context.                                          *)
(***************************************************************************)
EXTENDS Integers, FiniteSets

CONSTANTS Callers,        \* goroutines calling the SDK
          Tokens,         \* what the server can issue
          NoCaller, NoToken,
          ExpiresIn,      \* values of expires_in the server may send
          TokenTTL,       \* lifetime when expires_in is absent (constants.go)
          Margin,         \* TokenExpiryMargin
          Timeout,        \* AuthManagerOptions.Timeout, positive
          CacheFaults,    \* cache operations that may return an error
          ClientPanics,   \* the injected HTTP client may panic
          Persistent,     \* the cache outlives the process (FileTokenCache)
          Restarts,       \* the process may stop and start again
          MaxTime         \* bound on the clock

ASSUME AuthAssumption ==
  /\ NoCaller \notin Callers /\ NoToken \notin Tokens
  /\ ExpiresIn \subseteq Int
  /\ TokenTTL \in Nat \ {0} /\ Margin \in Nat /\ Timeout \in Nat \ {0}
  /\ CacheFaults \subseteq {"get", "set", "delete"}
  /\ ClientPanics \in BOOLEAN /\ Persistent \in BOOLEAN /\ Restarts \in BOOLEAN
  /\ MaxTime \in Nat

VARIABLES
  now,
  cache,       \* the entry under cacheKey, NoEntry on a miss
  mutex,       \* am.mu: its owner
  meta,        \* merchantID and environment: the token they came with
  pc,          \* where each goroutine is in GetToken
  entry,       \* the entry it read, or computed for Set
  sentAt,      \* when its exchange was sent
  token,       \* the token it received, or is about to return
  issued,      \* server: tokens issued so far
  dies,        \* server: when each issued token dies
  ttl,         \* the lifetime announced with the token it received
  dropped      \* history: the token its Refresh asked the cache to delete

authVars == <<now, cache, mutex, meta, pc, entry, sentAt, token, ttl,
              issued, dies, dropped>>
serverVars == <<issued, dies>>

AnyToken == Tokens \union {NoToken}
Entry == [token : AnyToken, exp : Int]
NoEntry == [token |-> NoToken, exp |-> 0]

Unlocked == {"idle", "read", "judge", "wait", "done"}
Locked   == {"check", "recheck", "fetch", "reply", "store", "unlock"}

AuthTypeOK ==
  /\ now \in 0..MaxTime
  /\ cache \in Entry
  /\ mutex \in Callers \union {NoCaller}
  /\ meta \in AnyToken
  /\ pc \in [Callers -> Unlocked \union Locked]
  /\ entry \in [Callers -> Entry]
  /\ sentAt \in [Callers -> 0..MaxTime]
  /\ token \in [Callers -> AnyToken]
  /\ issued \subseteq Tokens
  /\ ttl \in [Callers -> Nat]
  /\ dies \in [Tokens -> Nat]
  /\ dropped \in [Callers -> AnyToken]

AuthInit ==
  /\ now = 0
  /\ cache = NoEntry
  /\ mutex = NoCaller
  /\ meta = NoToken
  /\ pc = [c \in Callers |-> "idle"]
  /\ entry = [c \in Callers |-> NoEntry]
  /\ sentAt = [c \in Callers |-> 0]
  /\ token = [c \in Callers |-> NoToken]
  /\ issued = {}
  /\ ttl = [c \in Callers |-> 0]
  /\ dies = [t \in Tokens |-> 0]
  /\ dropped = [c \in Callers |-> NoToken]

------------------------------------------------------------------------------

\* err == nil && time.Now().Before(expiresAt)
Valid(e) == e.token # NoToken /\ now < e.exp

\* What a Get of the cache may return.
GetResults == {cache} \union IF "get" \in CacheFaults THEN {NoEntry} ELSE {}

\* Mutant: the margin is taken off a lifetime that has no default.
ShortLifetime(expiresIn) == (IF expiresIn > 0 THEN expiresIn ELSE 0) - Margin

\* ttl := TokenTTL, unless expires_in is positive.
Lifetime(expiresIn) == IF expiresIn > 0 THEN expiresIn ELSE TokenTTL

\* Locals that no later step of c reads.
DropEntry(c)   == entry' = [entry EXCEPT ![c] = NoEntry]
EndExchange(c) == /\ sentAt' = [sentAt EXCEPT ![c] = 0]
                  /\ ttl' = [ttl EXCEPT ![c] = 0]

Goto(c, from, to) == pc[c] = from /\ pc' = [pc EXCEPT ![c] = to]

\* Nobody's exchange has run into its timeout.
ClockMayAdvance ==
  \A c \in Callers : pc[c] \in {"fetch", "reply"} => now < sentAt[c] + Timeout

Tick ==
  /\ now < MaxTime
  /\ ClockMayAdvance
  /\ now' = now + 1
  /\ UNCHANGED <<cache, mutex, meta, pc, entry, sentAt, token, ttl, serverVars, dropped>>

CallGetToken(c) ==
  /\ Goto(c, "idle", "read")
  /\ UNCHANGED <<now, cache, mutex, meta, entry, sentAt, token, ttl, serverVars, dropped>>

\* Mutant: Refresh trusts GetToken and deletes nothing.
KeepingRefresh(c) ==
  /\ Goto(c, "idle", "read")
  /\ dropped' = [dropped EXCEPT ![c] = cache.token]
  /\ UNCHANGED <<now, cache, mutex, meta, entry, sentAt, token, ttl, serverVars>>

\* Refresh ignores the error of Delete and goes on with GetToken.
CallRefresh(c) ==
  /\ Goto(c, "idle", "read")
  /\ dropped' = [dropped EXCEPT ![c] = cache.token]
  /\ cache' \in {NoEntry} \union IF "delete" \in CacheFaults THEN {cache} ELSE {}
  /\ UNCHANGED <<now, mutex, meta, entry, sentAt, token, ttl, serverVars>>

\* ClearCache; a failing Delete is returned to its caller and changes nothing.
ClearCache ==
  /\ cache # NoEntry
  /\ cache' = NoEntry
  /\ UNCHANGED <<now, mutex, meta, pc, entry, sentAt, token, ttl, serverVars, dropped>>

\* The read without the lock, then the comparison with the clock.
Read(c) ==
  /\ Goto(c, "read", "judge")
  /\ \E e \in GetResults : entry' = [entry EXCEPT ![c] = e]
  /\ UNCHANGED <<now, cache, mutex, meta, sentAt, token, ttl, serverVars, dropped>>

UseCached(c) ==
  /\ Goto(c, "judge", "done")
  /\ Valid(entry[c])
  /\ token' = [token EXCEPT ![c] = entry[c].token]
  /\ DropEntry(c)
  /\ UNCHANGED <<now, cache, mutex, meta, sentAt, ttl, serverVars, dropped>>

WaitForLock(c) ==
  /\ Goto(c, "judge", "wait")
  /\ ~Valid(entry[c])
  /\ DropEntry(c)
  /\ UNCHANGED <<now, cache, mutex, meta, sentAt, token, ttl, serverVars, dropped>>

\* Mutant: the lock is not exclusive.
BargingLock(c) ==
  /\ Goto(c, "wait", "check")
  /\ mutex' = c
  /\ UNCHANGED <<now, cache, meta, entry, sentAt, token, ttl, serverVars, dropped>>

Lock(c) ==
  /\ Goto(c, "wait", "check")
  /\ mutex = NoCaller
  /\ mutex' = c
  /\ UNCHANGED <<now, cache, meta, entry, sentAt, token, ttl, serverVars, dropped>>

\* The double check under the lock.
ReadAgain(c) ==
  /\ Goto(c, "check", "recheck")
  /\ \E e \in GetResults : entry' = [entry EXCEPT ![c] = e]
  /\ UNCHANGED <<now, cache, mutex, meta, sentAt, token, ttl, serverVars, dropped>>

UseRefreshed(c) ==
  /\ Goto(c, "recheck", "done")
  /\ Valid(entry[c])
  /\ token' = [token EXCEPT ![c] = entry[c].token]
  /\ mutex' = NoCaller
  /\ DropEntry(c)
  /\ UNCHANGED <<now, cache, meta, sentAt, ttl, serverVars, dropped>>

\* Mutant: no double check.
UncheckedSend(c) ==
  /\ Goto(c, "recheck", "fetch")
  /\ sentAt' = [sentAt EXCEPT ![c] = now]
  /\ DropEntry(c)
  /\ UNCHANGED <<now, cache, mutex, meta, token, ttl, serverVars, dropped>>

\* fetchNewToken sends the exchange; the lock stays held.
Send(c) ==
  /\ Goto(c, "recheck", "fetch")
  /\ ~Valid(entry[c])
  /\ sentAt' = [sentAt EXCEPT ![c] = now]
  /\ DropEntry(c)
  /\ UNCHANGED <<now, cache, mutex, meta, token, ttl, serverVars, dropped>>

\* The server issues a token; the answer is on its way.
ServerIssues(c) ==
  /\ Goto(c, "fetch", "reply")
  /\ \E t \in Tokens \ issued, e \in ExpiresIn :
       /\ token' = [token EXCEPT ![c] = t]
       /\ ttl' = [ttl EXCEPT ![c] = Lifetime(e)]
       /\ dies' = [dies EXCEPT ![t] = now + Lifetime(e)]
       /\ issued' = issued \union {t}
  /\ UNCHANGED <<now, cache, mutex, meta, entry, sentAt, dropped>>

\* Mutant: the error path forgets to unlock.
LockedFetchFails(c) ==
  /\ Goto(c, "fetch", "done") \/ Goto(c, "reply", "done")
  /\ token' = [token EXCEPT ![c] = NoToken]
  /\ EndExchange(c)
  /\ UNCHANGED <<now, cache, mutex, meta, entry, serverVars, dropped>>

\* Network error, timeout, cancellation, a status other than 200 or an
\* unusable body: the lock is released and the error returned.
FetchFails(c) ==
  /\ Goto(c, "fetch", "done") \/ Goto(c, "reply", "done")
  /\ token' = [token EXCEPT ![c] = NoToken]
  /\ mutex' = NoCaller
  /\ EndExchange(c)
  /\ UNCHANGED <<now, cache, meta, entry, serverVars, dropped>>

\* Mutant: no margin.
WholeLifeReceive(c) ==
  /\ Goto(c, "reply", "store")
  /\ meta' = token[c]
  /\ entry' = [entry EXCEPT ![c] = [token |-> token[c], exp |-> now + ttl[c]]]
  /\ EndExchange(c)
  /\ UNCHANGED <<now, cache, mutex, token, serverVars, dropped>>

\* Mutant: the metadata of the answer is dropped.
QuietReceive(c) ==
  /\ Goto(c, "reply", "store")
  /\ entry' = [entry EXCEPT ![c] = [token |-> token[c], exp |-> now + ttl[c] - Margin]]
  /\ EndExchange(c)
  /\ UNCHANGED <<now, cache, mutex, meta, token, serverVars, dropped>>

\* The answer is decoded: metadata, then expiresAt from the local clock.
Receive(c) ==
  /\ Goto(c, "reply", "store")
  /\ meta' = token[c]
  /\ entry' = [entry EXCEPT ![c] = [token |-> token[c], exp |-> now + ttl[c] - Margin]]
  /\ EndExchange(c)
  /\ UNCHANGED <<now, cache, mutex, token, serverVars, dropped>>

\* The cache write; its error is not fatal, and may leave the old entry or none.
Store(c) ==
  /\ Goto(c, "store", "unlock")
  /\ cache' \in {entry[c]} \union IF "set" \in CacheFaults THEN {cache, NoEntry} ELSE {}
  /\ DropEntry(c)
  /\ UNCHANGED <<now, mutex, meta, sentAt, token, ttl, serverVars, dropped>>

Unlock(c) ==
  /\ Goto(c, "unlock", "done")
  /\ mutex' = NoCaller
  /\ UNCHANGED <<now, cache, meta, entry, sentAt, token, ttl, serverVars, dropped>>

\* The locals of c die with its call.
Forget(c) ==
  /\ DropEntry(c)
  /\ EndExchange(c)
  /\ token' = [token EXCEPT ![c] = NoToken]
  /\ dropped' = [dropped EXCEPT ![c] = NoToken]

Return(c) ==
  /\ Goto(c, "done", "idle")
  /\ Forget(c)
  /\ UNCHANGED <<now, cache, mutex, meta, serverVars>>

\* The HTTP client panics inside the exchange.  GetToken has no deferred
\* Unlock: the panic leaves am.mu locked and is recovered in client.go.
Panic(c) ==
  /\ ClientPanics
  /\ Goto(c, "fetch", "idle")
  /\ Forget(c)
  /\ UNCHANGED <<now, cache, mutex, meta, serverVars>>

\* The process stops anywhere and starts again with a new AuthManager.
Restart ==
  /\ Restarts
  /\ cache' = IF Persistent THEN cache ELSE NoEntry
  /\ mutex' = NoCaller
  /\ meta' = NoToken
  /\ pc' = [c \in Callers |-> "idle"]
  /\ entry' = [c \in Callers |-> NoEntry]
  /\ sentAt' = [c \in Callers |-> 0]
  /\ token' = [c \in Callers |-> NoToken]
  /\ ttl' = [c \in Callers |-> 0]
  /\ dropped' = [c \in Callers |-> NoToken]
  /\ UNCHANGED <<now, serverVars>>

GoOn(c) ==
  \/ Read(c) \/ UseCached(c) \/ WaitForLock(c)
  \/ ReadAgain(c) \/ UseRefreshed(c) \/ Send(c)
  \/ FetchFails(c) \/ Receive(c) \/ Store(c) \/ Unlock(c) \/ Return(c)

AuthNext ==
  \/ Tick \/ ClearCache \/ Restart
  \/ \E c \in Callers :
       \/ CallGetToken(c) \/ CallRefresh(c)
       \/ Lock(c) \/ GoOn(c) \/ ServerIssues(c) \/ Panic(c)

AuthSpec == AuthInit /\ [][AuthNext]_authVars

\* Goroutines run, an exchange ends because its context times out, and
\* sync.Mutex hands the lock to a waiter in the end (its starvation mode).
AuthFairness ==
  \A c \in Callers : WF_authVars(GoOn(c)) /\ SF_authVars(Lock(c))

FairAuthSpec == AuthSpec /\ AuthFairness

------------------------------------------------------------------------------

CacheValid == Valid(cache)      \* IsTokenValid

\* Whoever is between Lock and Unlock owns am.mu and nobody else does; every
\* way out of GetToken gives it back (auth.go:218-234).
LockDiscipline == \A c \in Callers : (mutex = c) <=> (pc[c] \in Locked)

\* No refresh storm: nobody exchanges keys for a token while the cache holds a
\* valid one, however reads, deletions and expiry interleave (auth.go:209-225).
NoRedundantFetch == \A c \in Callers : pc[c] \in {"fetch", "reply"} => ~CacheValid

\* Whatever fails, the goroutines of a process exchange keys one at a time
\* (auth.go:218, README.md:215).
OneExchangeAtATime ==
  \A c, d \in Callers :
    pc[c] \in {"fetch", "reply"} /\ pc[d] \in {"fetch", "reply"} => c = d

\* A token the cache, or an entry read from it, still calls valid is alive at
\* the server: the margin outweighs the time the answer took (auth.go:341-342).
ValidMeansAlive ==
  \A e \in {cache} \union {entry[c] : c \in Callers} :
    Valid(e) => now < dies[e.token]

\* Refresh never returns the token it found in the cache (auth.go:237-240).
RefreshReplaces ==
  \A c \in Callers : pc[c] = "done" /\ token[c] # NoToken => token[c] # dropped[c]

\* README.md:103 "apres le 1er appel": once a call has its token, MerchantID
\* and Environment are known (auth.go:251-265).
MetadataKnown ==
  \A c \in Callers : pc[c] = "done" /\ token[c] # NoToken => meta # NoToken

\* Every GetToken and Refresh returns (auth.go:211-240, README.md:1128).
EveryCallReturns == \A c \in Callers : (pc[c] # "idle") ~> (pc[c] = "idle")

================================================================================
