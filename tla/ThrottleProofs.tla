----------------------------- MODULE ThrottleProofs -----------------------------
(* What the throttle guarantees for any number of goroutines and any delay.   *)
EXTENDS Throttle, TLAPS

\* The shared stamp is never older than a goroutine's own last request, and a
\* sleeper was told to sleep at least that long.
StampInv ==
  \A c \in Callers :
    /\ passedAt[c] <= lastRequestTime /\ lastRequestTime <= now
    /\ pc[c] = "sleeping" => passedAt[c] + MinDelay <= wakeAt[c]

ThrottleInv == ThrottleTypeOK /\ StampInv

\* A new throttle lets the first request through.
LEMMA ThrottleStart == ThrottleInit => ThrottleInv
BY ThrottleAssumption DEF ThrottleInit, ThrottleInv, ThrottleTypeOK, StampInv, Times

\* Every critical section keeps the stamp ahead of every goroutine
\* (middleware.go:133-149).
LEMMA ThrottleStep == ThrottleInv /\ [ThrottleNext]_throttleVars => ThrottleInv'
<1> SUFFICES ASSUME ThrottleInv, [ThrottleNext]_throttleVars
             PROVE  ThrottleInv'
  OBVIOUS
<1> USE ThrottleAssumption DEF ThrottleInv, ThrottleTypeOK, StampInv, Times
<1>1. CASE Tick
  BY <1>1 DEF Tick
<1>2. ASSUME NEW c \in Callers, Pass(c)
      PROVE  ThrottleInv'
  BY <1>2 DEF Pass, GoOn
<1>3. ASSUME NEW c \in Callers, Sleep(c)
      PROVE  ThrottleInv'
  <2>1. now + (MinDelay - (now - lastRequestTime)) = lastRequestTime + MinDelay
    OBVIOUS
  <2>2. lastRequestTime + MinDelay \in 0..(MaxTime + MinDelay)
    OBVIOUS
  <2> QED
    BY <1>3, <2>1, <2>2 DEF Sleep
<1>4. ASSUME NEW c \in Callers, Wake(c)
      PROVE  ThrottleInv'
  BY <1>4 DEF Wake, GoOn
<1>5. ASSUME NEW c \in Callers, CancelSleep(c)
      PROVE  ThrottleInv'
  BY <1>5 DEF CancelSleep
<1>6. CASE UNCHANGED throttleVars
  BY <1>6 DEF throttleVars
<1> QED
  BY <1>1, <1>2, <1>3, <1>4, <1>5, <1>6 DEF ThrottleNext

\* The throttle's variables keep their types: no stamp is older than one delay
\* before the first request, no sleep longer than one delay (middleware.go:128-149).
THEOREM ThrottleTypeCorrect == ThrottleSpec => []ThrottleTypeOK
<1>1. ThrottleInv => ThrottleTypeOK
  BY DEF ThrottleInv
<1> QED
  BY <1>1, ThrottleStart, ThrottleStep, PTL DEF ThrottleSpec

\* The throttle spaces the requests of every single goroutine by MinDelay, for
\* every delay and however many goroutines share it (middleware.go:128-153).
THEOREM ThrottleSpacesEachCaller == ThrottleSpec => OwnSpacing
<1> DEFINE Spaced == \A c \in Callers : (Pass(c) \/ Wake(c)) => passedAt[c] + MinDelay <= now
<1>1. ThrottleInv => Spaced
  <2> SUFFICES ASSUME ThrottleInv, NEW c \in Callers, Pass(c) \/ Wake(c)
               PROVE  passedAt[c] + MinDelay <= now
    OBVIOUS
  <2>1. CASE Pass(c)
    BY <2>1, ThrottleAssumption
    DEF Pass, TooSoon, ThrottleInv, ThrottleTypeOK, StampInv, Times
  <2>2. CASE Wake(c)
    BY <2>2, ThrottleAssumption DEF Wake, ThrottleInv, ThrottleTypeOK, StampInv, Times
  <2> QED
    BY <2>1, <2>2
<1> QED
  BY <1>1, ThrottleStart, ThrottleStep, PTL DEF ThrottleSpec, OwnSpacing

=================================================================================
