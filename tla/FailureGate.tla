----------------------------- MODULE FailureGate -----------------------------
(***************************************************************************)
(* What the circuit breaker of internal/breaker promises its callers, with *)
(* no CLOSED / OPEN / HALF_OPEN automaton: a gate that remembers only how  *)
(* many system failures came since the last success and how long ago the   *)
(* last of them was.  It denies a call exactly when the streak has reached *)
(* the threshold and the last failure is not older than the window.        *)
(***************************************************************************)
EXTENDS Naturals

CONSTANTS Callers,     \* goroutines that go through the gate
          Threshold,   \* failures in a row that shut the gate
          Window       \* for how long, in clock units, it stays shut

VARIABLES streak,      \* failures since the last success, at most Threshold
          age,         \* time since the last failure, at most Window + 1
          verdict      \* what each caller was told

gateVars == <<streak, age, verdict>>

Denies == streak = Threshold /\ age <= Window

GateInit ==
  /\ streak = 0
  /\ age = Window + 1
  /\ verdict = [c \in Callers |-> "idle"]

TimePasses ==
  /\ age <= Window
  /\ age' = age + 1
  /\ UNCHANGED <<streak, verdict>>

Ask(c) ==
  /\ verdict[c] = "idle"
  /\ verdict' = [verdict EXCEPT ![c] = IF Denies THEN "rejected" ELSE "calling"]
  /\ UNCHANGED <<streak, age>>

ReportSuccess(c) ==
  /\ verdict[c] = "calling"
  /\ verdict' = [verdict EXCEPT ![c] = "idle"]
  /\ streak' = 0
  /\ UNCHANGED age

ReportFailure(c) ==
  /\ verdict[c] = "calling"
  /\ verdict' = [verdict EXCEPT ![c] = "idle"]
  /\ streak' = IF streak < Threshold THEN streak + 1 ELSE Threshold
  /\ age' = 0

Leave(c) ==
  /\ verdict[c] \in {"calling", "rejected"}
  /\ verdict' = [verdict EXCEPT ![c] = "idle"]
  /\ UNCHANGED <<streak, age>>

Forget ==
  /\ streak' = 0
  /\ age' = Window + 1
  /\ UNCHANGED verdict

GateNext ==
  \/ TimePasses
  \/ Forget
  \/ \E c \in Callers : Ask(c) \/ ReportSuccess(c) \/ ReportFailure(c) \/ Leave(c)

GateSpec == GateInit /\ [][GateNext]_gateVars

==============================================================================
