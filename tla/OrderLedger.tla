------------------------------ MODULE OrderLedger ------------------------------
(***************************************************************************)
(* What the service methods promise an application about its orders, with   *)
(* no keys at work, stored answers, requests or decoders: a ledger.  Each   *)
(* order is executed at most once; what became of it then only settles; and *)
(* a goroutine is told once, and told nothing that the ledger does not say. *)
(* An order that was refused with an error status may be submitted again,   *)
(* one that was declined in a 2xx may not.  Operations implements it.       *)
(***************************************************************************)
EXTENDS Naturals

CONSTANTS Callers,     \* goroutines that submit orders
          Orders

VARIABLES orderOf,     \* the order each goroutine submits
          fate,        \* what became of each order
          effects,     \* how many executions there were
          told         \* what each goroutine was told

ledgerVars == <<orderOf, fate, effects, told>>

Open == {"open", "refused"}
Executed == {"pending", "done", "failed"}

LedgerInit ==
  /\ orderOf \in [Callers -> Orders]
  /\ fate = [o \in Orders |-> "open"]
  /\ effects = 0
  /\ told = [c \in Callers |-> "nothing"]

Execute(o) ==
  /\ fate[o] \in Open
  /\ \E f \in {"pending", "done"} : fate' = [fate EXCEPT ![o] = f]
  /\ effects' = effects + 1
  /\ UNCHANGED <<orderOf, told>>

Settle(o) ==
  /\ fate[o] = "pending"
  /\ \E f \in {"done", "failed"} : fate' = [fate EXCEPT ![o] = f]
  /\ UNCHANGED <<orderOf, effects, told>>

\* An error, or the result of a read, says nothing of the order.
MayBeTold(f) ==
  {"error", "result"}
    \union (IF f = "done" THEN {"done"} ELSE {})
    \union (IF f \in Executed THEN {"pending"} ELSE {})
    \union (IF f = "refused" THEN {"refused"} ELSE {})

\* The zero value of a declined order is a result, which says nothing of it.
Tell(c) ==
  /\ told[c] = "nothing"
  /\ \E t \in MayBeTold(fate[orderOf[c]]) : told' = [told EXCEPT ![c] = t]
  /\ UNCHANGED <<orderOf, fate, effects>>

\* An order is refused, and the one who submitted it told so or not.
Refuse(c) ==
  /\ fate[orderOf[c]] \in Open
  /\ \E f \in {"refused", "declined"} :
       /\ fate' = [fate EXCEPT ![orderOf[c]] = f]
       /\ \/ UNCHANGED told
          \/ /\ told[c] = "nothing"
             /\ \E t \in MayBeTold(f) : told' = [told EXCEPT ![c] = t]
  /\ UNCHANGED <<orderOf, effects>>

LedgerNext ==
  \/ \E o \in Orders : Execute(o) \/ Settle(o)
  \/ \E c \in Callers : Tell(c) \/ Refuse(c)

LedgerSpec == LedgerInit /\ [][LedgerNext]_ledgerVars

================================================================================
