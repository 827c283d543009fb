---------------------------- MODULE CircuitBreaker ----------------------------
(***************************************************************************)
(* internal/breaker/breaker.go: the circuit breaker every HTTP attempt of   *)
(* the SDK goes through (client.go calls Execute around the transport).     *)
(*                                                                         *)
(* Execute is not atomic: checkState and the bookkeeping after the request *)
(* are separate critical sections of cb.mu and the request runs between    *)
(* them without the lock, so each is an action of its own.                 *)
(*                                                                         *)
(* Time is the age of the last failure, in clock units.  The code only      *)
(* compares it with resetTimeout, so it saturates one unit above it; the    *)
(* zero time.Time of a new breaker is infinitely old, hence saturated.      *)
(* failureCount is only compared with failureThreshold and saturates at     *)
(* CountCap.                                                                *)
(***************************************************************************)
EXTENDS Integers

CONSTANTS Callers,            \* goroutines calling Execute
          ConfigThreshold,    \* Config.FailureThreshold, any integer
          ConfigTimeout,      \* Config.ResetTimeout in clock units, any integer
          CountCap            \* bound on failureCount

\* NewCircuitBreaker replaces non-positive settings by defaults.
FailureThreshold == IF ConfigThreshold <= 0 THEN 5 ELSE ConfigThreshold
ResetTimeout     == IF ConfigTimeout <= 0 THEN 15 ELSE ConfigTimeout

ASSUME BreakerAssumption ==
  /\ ConfigThreshold \in Int
  /\ ConfigTimeout \in Int
  /\ CountCap \in Nat
  /\ CountCap >= FailureThreshold

VARIABLES state,          \* cb.state
          failureCount,   \* cb.failureCount, saturating
          sinceFailure,   \* time.Since(cb.lastFailureTime), saturating
          call            \* where each goroutine is in Execute

breakerVars == <<state, failureCount, sinceFailure, call>>

Aged == ResetTimeout + 1        \* older than resetTimeout

BreakerTypeOK ==
  /\ state \in {"CLOSED", "OPEN", "HALF_OPEN"}
  /\ failureCount \in 0..CountCap
  /\ sinceFailure \in 0..Aged
  /\ call \in [Callers -> {"idle", "calling", "rejected"}]

BreakerInit ==
  /\ state = "CLOSED"
  /\ failureCount = 0
  /\ sinceFailure = Aged
  /\ call = [c \in Callers |-> "idle"]

------------------------------------------------------------------------------

Tick ==
  /\ sinceFailure < Aged
  /\ sinceFailure' = sinceFailure + 1
  /\ UNCHANGED <<state, failureCount, call>>

\* Mutant: the comparison admits the call one unit early.
EarlyResetDue == sinceFailure >= ResetTimeout

\* The comparison of checkState is strict: age > resetTimeout.
ResetDue == sinceFailure > ResetTimeout

\* Mutant: OPEN turns HALF_OPEN without looking at the clock.
HastyAdmit(c) ==
  /\ call[c] = "idle"
  /\ state' = IF state = "OPEN" THEN "HALF_OPEN" ELSE state
  /\ call' = [call EXCEPT ![c] = "calling"]
  /\ UNCHANGED <<failureCount, sinceFailure>>

\* checkState lets the caller through; OPEN turns HALF_OPEN on the way.
Admit(c) ==
  /\ call[c] = "idle"
  /\ state = "OPEN" => ResetDue
  /\ state' = IF state = "OPEN" THEN "HALF_OPEN" ELSE state
  /\ call' = [call EXCEPT ![c] = "calling"]
  /\ UNCHANGED <<failureCount, sinceFailure>>

\* Mutant: a rejection counts as a failure and restarts the timeout.
RestartingReject(c) ==
  /\ call[c] = "idle"
  /\ state = "OPEN" /\ ~ResetDue
  /\ sinceFailure' = 0
  /\ call' = [call EXCEPT ![c] = "rejected"]
  /\ UNCHANGED <<state, failureCount>>

\* checkState returns ErrCircuitOpen.
Reject(c) ==
  /\ call[c] = "idle"
  /\ state = "OPEN" /\ ~ResetDue
  /\ call' = [call EXCEPT ![c] = "rejected"]
  /\ UNCHANGED <<state, failureCount, sinceFailure>>

\* Mutant: a success takes one failure back.
LeakySucceed(c) ==
  /\ call[c] = "calling"
  /\ failureCount' = failureCount - 1
  /\ state' = "CLOSED"
  /\ call' = [call EXCEPT ![c] = "idle"]
  /\ UNCHANGED sinceFailure

\* Mutant: a success closes the breaker and keeps the count.
ForgetfulSucceed(c) ==
  /\ call[c] = "calling"
  /\ state' = "CLOSED"
  /\ call' = [call EXCEPT ![c] = "idle"]
  /\ UNCHANGED <<failureCount, sinceFailure>>

\* onSuccess: whatever the state was when the request was admitted.
Succeed(c) ==
  /\ call[c] = "calling"
  /\ failureCount' = 0
  /\ state' = "CLOSED"
  /\ call' = [call EXCEPT ![c] = "idle"]
  /\ UNCHANGED sinceFailure

\* onFailure, after an error isSystemFailure accepts.
Fail(c) ==
  /\ call[c] = "calling"
  /\ failureCount' = IF failureCount < CountCap THEN failureCount + 1 ELSE CountCap
  /\ sinceFailure' = 0
  /\ state' = IF state = "HALF_OPEN" \/ failureCount + 1 >= FailureThreshold
              THEN "OPEN" ELSE state
  /\ call' = [call EXCEPT ![c] = "idle"]

\* An error that is no system failure, or a panic of the request: Execute is
\* left without touching the breaker.
Abandon(c) ==
  /\ call[c] = "calling"
  /\ call' = [call EXCEPT ![c] = "idle"]
  /\ UNCHANGED <<state, failureCount, sinceFailure>>

\* Execute hands ErrCircuitOpen to its caller.
ReturnRejected(c) ==
  /\ call[c] = "rejected"
  /\ call' = [call EXCEPT ![c] = "idle"]
  /\ UNCHANGED <<state, failureCount, sinceFailure>>

Reset ==
  /\ state' = "CLOSED"
  /\ failureCount' = 0
  /\ sinceFailure' = Aged
  /\ UNCHANGED call

Complete(c) == Succeed(c) \/ Fail(c) \/ Abandon(c)

BreakerNext ==
  \/ Tick
  \/ Reset
  \/ \E c \in Callers : Admit(c) \/ Reject(c) \/ Complete(c) \/ ReturnRejected(c)

BreakerSpec == BreakerInit /\ [][BreakerNext]_breakerVars

\* Time passes, a request ends (the transport gives it a timeout), a rejection
\* is returned, and somebody goes on calling the SDK.
BreakerFairness ==
  /\ WF_breakerVars(Tick)
  /\ WF_breakerVars(\E c \in Callers : Admit(c))
  /\ \A c \in Callers : WF_breakerVars(Complete(c) \/ ReturnRejected(c))

FairBreakerSpec == BreakerSpec /\ BreakerFairness

------------------------------------------------------------------------------

\* The breaker is CLOSED exactly while the failures since the last success (of
\* any request, however old) are below the threshold: no interleaving of late
\* results leaves it open with a short streak, or closed with a long one
\* (breaker.go onSuccess, onFailure).
ClosedIffShortStreak == (state = "CLOSED") <=> (failureCount < FailureThreshold)

\* HALF_OPEN only while the last failure is older than resetTimeout: a failure
\* of any request of that time, probe or straggler, opens the breaker again
\* (breaker.go checkState, onFailure).
HalfOpenIsAged == (state = "HALF_OPEN") => ResetDue

BreakerInv == BreakerTypeOK /\ ClosedIffShortStreak /\ HalfOpenIsAged

\* An open breaker does not stay open while the SDK goes on being called, even
\* when requests admitted earlier fail late and restart the timeout
\* (breaker.go:69).
OpenIsNotForever == (state = "OPEN") ~> (state # "OPEN")

\* The automaton is the memoryless gate: HALF_OPEN adds nothing to the streak
\* and the age, in particular it admits every caller and not one probe.
Gate == INSTANCE FailureGate WITH
          Threshold <- FailureThreshold,
          Window    <- ResetTimeout,
          streak    <- IF failureCount < FailureThreshold
                       THEN failureCount ELSE FailureThreshold,
          age       <- sinceFailure,
          verdict   <- call

\* Every behaviour of the breaker is one of FailureGate (breaker.go:47-96): the
\* verdict a caller gets depends on the streak and the age alone.
ImplementsGate == Gate!GateSpec

==============================================================================
