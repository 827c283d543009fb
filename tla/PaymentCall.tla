------------------------------ MODULE PaymentCall ------------------------------
(***************************************************************************)
(* What a call of a mutating method promises to the application, whatever   *)
(* happens between it and the server: its operation is executed at most     *)
(* once, a call that returns without an error had it executed, and a call   *)
(* that returns an error leaves it open: it may have been executed, or may  *)
(* still be, after the return.  RequestPipeline implements it.              *)
(***************************************************************************)
EXTENDS Naturals

CONSTANTS Calls, Mutating

VARIABLES called,    \* calls that were made
          effects,   \* how often the operation of each was executed
          outcome    \* what each returned

callVars == <<called, effects, outcome>>

CallInit ==
  /\ called = {}
  /\ effects = [c \in Calls |-> 0]
  /\ outcome = [c \in Calls |-> "pending"]

Make(c) ==
  /\ c \notin called
  /\ called' = called \union {c}
  /\ UNCHANGED <<effects, outcome>>

\* At any time after the call was made, the time after its return included.
Execute(c) ==
  /\ c \in called \intersect Mutating
  /\ effects[c] = 0
  /\ effects' = [effects EXCEPT ![c] = 1]
  /\ UNCHANGED <<called, outcome>>

ReturnSuccess(c) ==
  /\ c \in called /\ outcome[c] = "pending"
  /\ c \in Mutating => effects[c] = 1
  /\ outcome' = [outcome EXCEPT ![c] = "success"]
  /\ UNCHANGED <<called, effects>>

ReturnError(c) ==
  /\ c \in called /\ outcome[c] = "pending"
  /\ outcome' = [outcome EXCEPT ![c] = "error"]
  /\ UNCHANGED <<called, effects>>

CallNext ==
  \E c \in Calls : Make(c) \/ Execute(c) \/ ReturnSuccess(c) \/ ReturnError(c)

CallSpec == CallInit /\ [][CallNext]_callVars

================================================================================
