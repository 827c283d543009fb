------------------------- MODULE CircuitBreakerProofs -------------------------
(***************************************************************************)
(* Theorems about CircuitBreaker, for any set of callers and any setting   *)
(* of the breaker.  BreakerInv is inductive: the automaton state is a       *)
(* function of the streak and the age, which is also what makes the breaker *)
(* implement FailureGate.                                                   *)
(***************************************************************************)
EXTENDS CircuitBreaker, FiniteSetTheorems, TLAPS

\* NewCircuitBreaker's defaulting leaves positive settings, whatever the
\* configuration (breaker.go:31-38).
LEMMA SettingsPositive ==
  FailureThreshold \in Nat \ {0} /\ ResetTimeout \in Nat \ {0} /\ Aged = ResetTimeout + 1
BY BreakerAssumption DEF FailureThreshold, ResetTimeout, Aged

\* A new breaker satisfies the invariant (breaker.go:40-44).
LEMMA InvInit == BreakerInit => BreakerInv
BY SettingsPositive, BreakerAssumption
DEF BreakerInit, BreakerInv, BreakerTypeOK, ClosedIffShortStreak, HalfOpenIsAged, ResetDue

\* Every critical section of the breaker preserves the invariant
\* (breaker.go checkState, onSuccess, onFailure, Reset).
LEMMA InvNext == BreakerInv /\ [BreakerNext]_breakerVars => BreakerInv'
<1> SUFFICES ASSUME BreakerInv, [BreakerNext]_breakerVars
             PROVE  BreakerInv'
  OBVIOUS
<1> USE SettingsPositive, BreakerAssumption
    DEF BreakerInv, BreakerTypeOK, ClosedIffShortStreak, HalfOpenIsAged, ResetDue
<1>1. CASE Tick
  BY <1>1 DEF Tick
<1>2. CASE Reset
  BY <1>2 DEF Reset
<1>3. ASSUME NEW c \in Callers, Admit(c)
      PROVE  BreakerInv'
  BY <1>3 DEF Admit
<1>4. ASSUME NEW c \in Callers, Reject(c)
      PROVE  BreakerInv'
  BY <1>4 DEF Reject
<1>5. ASSUME NEW c \in Callers, Succeed(c)
      PROVE  BreakerInv'
  BY <1>5 DEF Succeed
<1>6. ASSUME NEW c \in Callers, Fail(c)
      PROVE  BreakerInv'
  BY <1>6 DEF Fail
<1>7. ASSUME NEW c \in Callers, Abandon(c) \/ ReturnRejected(c)
      PROVE  BreakerInv'
  BY <1>7 DEF Abandon, ReturnRejected
<1>8. CASE UNCHANGED breakerVars
  BY <1>8 DEF breakerVars
<1> QED
  BY <1>1, <1>2, <1>3, <1>4, <1>5, <1>6, <1>7, <1>8 DEF BreakerNext, Complete

\* The breaker's variables keep their types (breaker.go:16-23).
THEOREM BreakerTypeCorrect == BreakerSpec => []BreakerTypeOK
<1>1. BreakerInv => BreakerTypeOK
  BY DEF BreakerInv
<1> QED
  BY <1>1, InvInit, InvNext, PTL DEF BreakerSpec

\* Closed exactly below the threshold: in every reachable state, for every
\* threshold, timeout and set of callers (breaker.go:64-96).
THEOREM StateFollowsStreak == BreakerSpec => []ClosedIffShortStreak
<1>1. BreakerInv => ClosedIffShortStreak
  BY DEF BreakerInv
<1> QED
  BY <1>1, InvInit, InvNext, PTL DEF BreakerSpec

\* Half open only while the last failure is old: a failure of a probe or of a
\* straggler is never forgotten in it (breaker.go:64-96).
THEOREM HalfOpenFollowsClock == BreakerSpec => []HalfOpenIsAged
<1>1. BreakerInv => HalfOpenIsAged
  BY DEF BreakerInv
<1> QED
  BY <1>1, InvInit, InvNext, PTL DEF BreakerSpec

\* What the refinement mapping gives for the streak.
LEMMA GateInitial == BreakerInit => Gate!GateInit
BY SettingsPositive DEF BreakerInit, Gate!GateInit

\* Under the invariant checkState denies a call exactly when the gate does.
LEMMA DeniesAgree ==
  BreakerInv => (Gate!Denies <=> (state = "OPEN" /\ ~ResetDue))
BY SettingsPositive, BreakerAssumption
DEF BreakerInv, BreakerTypeOK, ClosedIffShortStreak, HalfOpenIsAged, ResetDue, Gate!Denies

\* Every step of the breaker is a step of the gate or leaves it unchanged.
LEMMA GateStep == BreakerInv /\ [BreakerNext]_breakerVars => [Gate!GateNext]_(Gate!gateVars)
<1> SUFFICES ASSUME BreakerInv, [BreakerNext]_breakerVars
             PROVE  [Gate!GateNext]_(Gate!gateVars)
  OBVIOUS
<1> USE SettingsPositive, BreakerAssumption DEF BreakerInv, BreakerTypeOK
<1>1. CASE Tick
  <2>1. Gate!TimePasses
    BY <1>1 DEF Tick, Gate!TimePasses
  <2> QED BY <2>1 DEF Gate!GateNext
<1>2. CASE Reset
  <2>1. Gate!Forget
    BY <1>2 DEF Reset, Gate!Forget
  <2> QED BY <2>1 DEF Gate!GateNext
<1>3. ASSUME NEW c \in Callers, Admit(c) \/ Reject(c)
      PROVE  Gate!Ask(c)
  <2>1. Admit(c) => ~Gate!Denies /\ call' = [call EXCEPT ![c] = "calling"]
    BY DeniesAgree DEF Admit
  <2>2. Reject(c) => Gate!Denies /\ call' = [call EXCEPT ![c] = "rejected"]
    BY DeniesAgree DEF Reject
  <2> QED
    BY <1>3, <2>1, <2>2 DEF Admit, Reject, Gate!Ask
<1>4. ASSUME NEW c \in Callers, Succeed(c)
      PROVE  Gate!ReportSuccess(c)
  BY <1>4 DEF Succeed, Gate!ReportSuccess
<1>5. ASSUME NEW c \in Callers, Fail(c)
      PROVE  Gate!ReportFailure(c)
  BY <1>5 DEF Fail, Gate!ReportFailure
<1>6. ASSUME NEW c \in Callers, Abandon(c) \/ ReturnRejected(c)
      PROVE  Gate!Leave(c)
  BY <1>6 DEF Abandon, ReturnRejected, Gate!Leave
<1>7. CASE UNCHANGED breakerVars
  BY <1>7 DEF breakerVars, Gate!gateVars
<1> QED
  BY <1>1, <1>2, <1>3, <1>4, <1>5, <1>6, <1>7 DEF BreakerNext, Complete, Gate!GateNext

\* The circuit breaker implements the memoryless gate: the verdict on a call is
\* a function of the failures since the last success and the age of the last
\* one, so HALF_OPEN limits nothing (breaker.go:47-96).
THEOREM BreakerImplementsGate == BreakerSpec => ImplementsGate
<1> QED
  BY InvInit, InvNext, GateInitial, GateStep, PTL DEF BreakerSpec, ImplementsGate, Gate!GateSpec

------------------------------------------------------------------------------

\* How much may still happen before an open breaker lets a call through: each
\* request under way may restart the timeout once, and the timeout has to pass.
Inside == {c \in Callers : call[c] = "calling"}

OpenRank == Cardinality(Inside) * (Aged + 1) + (Aged - sinceFailure)

\* While the breaker stays open nothing raises the rank, and a unit of time or
\* the end of a request lowers it.
OpenCountsDown ==
  state = "OPEN" /\ state' = "OPEN" =>
    /\ OpenRank \in Nat
    /\ OpenRank' <= OpenRank
    /\ Tick \/ (\E c \in Callers : Complete(c)) => OpenRank' < OpenRank

\* A request that ends leaves the ones under way one fewer (breaker.go:47-62).
LEMMA OneFewerInside ==
  ASSUME IsFiniteSet(Callers), BreakerTypeOK, NEW c \in Callers, Complete(c)
  PROVE  /\ Cardinality(Inside) \in Nat
         /\ Cardinality(Inside') = Cardinality(Inside) - 1
<1>1. IsFiniteSet(Inside) /\ c \in Inside
  BY FS_Subset DEF Inside, Complete, Succeed, Fail, Abandon
<1>2. Inside' = Inside \ {c}
  BY DEF Inside, Complete, Succeed, Fail, Abandon, BreakerTypeOK
<1> QED
  BY <1>1, <1>2, FS_CardinalityType, FS_RemoveElement

\* In OPEN a request enters only by leaving OPEN, and one that ends either leaves it
\* too or is one fewer to restart the timeout (breaker.go:64-96).
LEMMA OpenCountsDownNext ==
  ASSUME IsFiniteSet(Callers), BreakerInv, [BreakerNext]_breakerVars
  PROVE  OpenCountsDown
<1> SUFFICES ASSUME state = "OPEN", state' = "OPEN"
             PROVE  /\ OpenRank \in Nat
                    /\ OpenRank' <= OpenRank
                    /\ Tick \/ (\E c \in Callers : Complete(c)) => OpenRank' < OpenRank
  BY DEF OpenCountsDown
<1> DEFINE N == Cardinality(Inside)
<1>1. /\ Aged \in Nat
      /\ sinceFailure \in Nat /\ sinceFailure <= Aged
      /\ sinceFailure' \in Nat /\ sinceFailure' <= Aged
  BY SettingsPositive, InvNext DEF BreakerInv, BreakerTypeOK, Aged
<1>2. N \in Nat
  BY FS_Subset, FS_CardinalityType DEF Inside
<1>3. OpenRank \in Nat
  <2> HIDE DEF N
  <2>1. N * (Aged + 1) \in Nat
    BY <1>1, <1>2
  <2> QED
    BY <1>1, <2>1 DEF OpenRank, N
<1>4. ASSUME Tick
      PROVE  OpenRank' < OpenRank
  <2>1. Inside' = Inside /\ sinceFailure' = sinceFailure + 1
    BY <1>4 DEF Tick, Inside
  <2>2. N' = N
    BY <2>1
  <2> HIDE DEF N
  <2>3. N * (Aged + 1) \in Nat
    BY <1>1, <1>2
  <2> QED
    BY <1>1, <2>1, <2>2, <2>3 DEF OpenRank, N
<1>5. ASSUME NEW c \in Callers, Complete(c)
      PROVE  OpenRank' < OpenRank
  <2>1. N' = N - 1
    BY <1>5, OneFewerInside DEF BreakerInv
  <2> DEFINE W == Aged + 1
  <2>2. OpenRank' = N' * W + (Aged - sinceFailure')
    BY DEF OpenRank, Aged
  <2>3. OpenRank = N * W + (Aged - sinceFailure)
    BY DEF OpenRank
  <2> HIDE DEF N, W
  <2>4. W \in Nat /\ W = Aged + 1
    BY <1>1 DEF W
  <2>5. (N - 1) * W = N * W - W /\ N * W \in Nat
    BY <1>2, <2>4
  <2>6. OpenRank' = N * W - W + (Aged - sinceFailure')
    BY <2>1, <2>2, <2>5
  <2> QED
    BY <1>1, <2>3, <2>4, <2>5, <2>6
<1>6. ASSUME (\E c \in Callers : Reject(c) \/ ReturnRejected(c)) \/ UNCHANGED breakerVars
      PROVE  OpenRank' = OpenRank
  <2>1. Inside' = Inside /\ sinceFailure' = sinceFailure
    BY <1>6 DEF Reject, ReturnRejected, breakerVars, Inside, BreakerInv, BreakerTypeOK
  <2> QED
    BY <2>1 DEF OpenRank
<1>7. ~Reset /\ \A c \in Callers : ~Admit(c)
  BY DEF Reset, Admit
<1>8. OpenRank' < OpenRank \/ OpenRank' = OpenRank
  BY <1>4, <1>5, <1>6, <1>7 DEF BreakerNext
<1>9. OpenRank' < OpenRank => OpenRank' <= OpenRank
  <2>1. OpenRank' \in Int
    <3>1. Inside' \subseteq Callers
      BY DEF Inside
    <3>2. Cardinality(Inside') \in Nat
      BY <3>1, FS_Subset, FS_CardinalityType
    <3>3. Cardinality(Inside') * (Aged + 1) \in Int
      BY <1>1, <3>2
    <3> QED
      BY <1>1, <3>3 DEF OpenRank, Aged
  <2> QED
    BY <1>3, <2>1
<1> QED
  BY <1>3, <1>4, <1>5, <1>8, <1>9

\* While an open breaker stays open, stragglers and the clock only bring it
\* nearer to letting a call through: no request enters, and each one under way
\* restarts the timeout at most once (breaker.go:64-96).
THEOREM OpenBreakerCountsDown ==
  ASSUME IsFiniteSet(Callers)
  PROVE  BreakerSpec => [][OpenCountsDown]_breakerVars
<1>1. BreakerInv /\ [BreakerNext]_breakerVars => OpenCountsDown
  BY OpenCountsDownNext
<1> QED
  BY <1>1, InvInit, InvNext, PTL DEF BreakerSpec

==============================================================================
