-------------------------------- MODULE Throttle --------------------------------
(***************************************************************************)
(* middleware.go createThrottleMiddleware: a goroutine that enters too soon *)
(* after the last request sleeps without the lock, and on waking takes the  *)
(* lock, stamps lastRequestTime and goes on without looking at it again.    *)
(*                                                                         *)
(* Each critical section of mu is one action.  The zero lastRequestTime of  *)
(* a new middleware is MinDelay old.                                        *)
(***************************************************************************)
EXTENDS Integers

CONSTANTS Callers,      \* goroutines sharing the client
          MinDelay,     \* ThrottleConfig.MinDelay
          MaxTime       \* bound on the clock

ASSUME ThrottleAssumption == MinDelay \in Nat /\ MaxTime \in Nat

VARIABLES now,
          lastRequestTime,
          pc,
          wakeAt,       \* when the sleep of each goroutine ends
          passedAt      \* history: when each goroutine last went on to next

throttleVars == <<now, lastRequestTime, pc, wakeAt, passedAt>>

Times == (0 - MinDelay)..MaxTime

ThrottleTypeOK ==
  /\ now \in 0..MaxTime
  /\ lastRequestTime \in Times
  /\ pc \in [Callers -> {"idle", "sleeping"}]
  /\ wakeAt \in [Callers -> 0..(MaxTime + MinDelay)]
  /\ passedAt \in [Callers -> Times]

ThrottleInit ==
  /\ now = 0
  /\ lastRequestTime = 0 - MinDelay
  /\ pc = [c \in Callers |-> "idle"]
  /\ wakeAt = [c \in Callers |-> 0]
  /\ passedAt = [c \in Callers |-> 0 - MinDelay]

Tick ==
  /\ now < MaxTime
  /\ now' = now + 1
  /\ UNCHANGED <<lastRequestTime, pc, wakeAt, passedAt>>

TooSoon == now - lastRequestTime < MinDelay

\* lastRequestTime = time.Now() and on to next.
GoOn(c) ==
  /\ lastRequestTime' = now
  /\ passedAt' = [passedAt EXCEPT ![c] = now]

Pass(c) ==
  /\ pc[c] = "idle"
  /\ ~TooSoon
  /\ GoOn(c)
  /\ UNCHANGED <<now, pc, wakeAt>>

\* Mutant: the sleep lasts as long as the last request is old.
AgeSleep(c) ==
  /\ pc[c] = "idle"
  /\ TooSoon
  /\ pc' = [pc EXCEPT ![c] = "sleeping"]
  /\ wakeAt' = [wakeAt EXCEPT ![c] = now + (now - lastRequestTime)]
  /\ UNCHANGED <<now, lastRequestTime, passedAt>>

\* delay := minDelay - timeSinceLast
Sleep(c) ==
  /\ pc[c] = "idle"
  /\ TooSoon
  /\ pc' = [pc EXCEPT ![c] = "sleeping"]
  /\ wakeAt' = [wakeAt EXCEPT ![c] = now + (MinDelay - (now - lastRequestTime))]
  /\ UNCHANGED <<now, lastRequestTime, passedAt>>

\* The wake-up does not compare lastRequestTime again.
Wake(c) ==
  /\ pc[c] = "sleeping"
  /\ now >= wakeAt[c]
  /\ pc' = [pc EXCEPT ![c] = "idle"]
  /\ wakeAt' = [wakeAt EXCEPT ![c] = 0]
  /\ GoOn(c)
  /\ UNCHANGED now

\* Mutant: a cancelled sleeper gives its slot back.
RefundingCancel(c) ==
  /\ pc[c] = "sleeping"
  /\ pc' = [pc EXCEPT ![c] = "idle"]
  /\ wakeAt' = [wakeAt EXCEPT ![c] = 0]
  /\ lastRequestTime' = lastRequestTime - MinDelay
  /\ UNCHANGED <<now, passedAt>>

\* ctx.Done() ends the sleep; the request is not made.
CancelSleep(c) ==
  /\ pc[c] = "sleeping"
  /\ pc' = [pc EXCEPT ![c] = "idle"]
  /\ wakeAt' = [wakeAt EXCEPT ![c] = 0]
  /\ UNCHANGED <<now, lastRequestTime, passedAt>>

ThrottleNext ==
  \/ Tick
  \/ \E c \in Callers : Pass(c) \/ Sleep(c) \/ Wake(c) \/ CancelSleep(c)

ThrottleSpec == ThrottleInit /\ [][ThrottleNext]_throttleVars

---------------------------------------------------------------------------------

\* Two requests of one goroutine are MinDelay apart, whatever the others sharing
\* the stamp do in between (middleware.go:133-149).
OwnSpacing ==
  [][\A c \in Callers :
       (Pass(c) \/ Wake(c)) => passedAt[c] + MinDelay <= now]_throttleVars

=================================================================================
