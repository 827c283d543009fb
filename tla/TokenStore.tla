------------------------------ MODULE TokenStore ------------------------------
(***************************************************************************)
(* What a token cache promises the AuthManager: a map from cache keys to    *)
(* entries in which every write and deletion concerns one key and happens  *)
(* at once, and a read returns the entry of the moment.  When its storage   *)
(* fails a read may miss, and the map may be lost, but only as a whole.      *)
(***************************************************************************)
CONSTANTS Callers, Keys, Entries,
          Miss,      \* no entry under a key
          Silent     \* a caller that waits for no answer

VARIABLES store,     \* the entry under each key
          intact,    \* the storage has not failed so far
          told       \* the answer each caller has

storeVars == <<store, intact, told>>

Empty == [k \in Keys |-> Miss]

StoreInit ==
  /\ store = Empty
  /\ intact = TRUE
  /\ told = [c \in Callers |-> Silent]

Look(c) ==
  /\ \E k \in Keys : told' = [told EXCEPT ![c] = store[k]]
  /\ UNCHANGED <<store, intact>>

Leave(c) ==
  /\ told' = [told EXCEPT ![c] = Silent]
  /\ UNCHANGED <<store, intact>>

Put ==
  /\ \E k \in Keys, e \in Entries : store' = [store EXCEPT ![k] = e]
  /\ UNCHANGED <<intact, told>>

Remove ==
  /\ \E k \in Keys : store' = [store EXCEPT ![k] = Miss]
  /\ UNCHANGED <<intact, told>>

\* The storage does not answer: a miss for whoever looks, if anybody does.
Fault(c) ==
  /\ told' \in {told, [told EXCEPT ![c] = Miss]}
  /\ intact' = FALSE
  /\ UNCHANGED store

\* The process stops: nobody waits for an answer any more.
Silence ==
  /\ told' = [c \in Callers |-> Silent]
  /\ UNCHANGED <<store, intact>>

Lose ==
  /\ store' = Empty
  /\ intact' = FALSE
  /\ told' \in {told, [c \in Callers |-> Silent]}

StoreNext ==
  \/ Put \/ Remove \/ Silence \/ Lose
  \/ \E c \in Callers : Look(c) \/ Fault(c) \/ Leave(c)

StoreSpec == StoreInit /\ [][StoreNext]_storeVars

===============================================================================
