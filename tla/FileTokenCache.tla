----------------------------- MODULE FileTokenCache -----------------------------
(***************************************************************************)
(* auth.go, FileTokenCache: goroutines of one process share a cache whose   *)
(* file holds a JSON map.  Set and Delete hold c.mu while they read the     *)
(* file, truncate it (os.WriteFile opens with O_TRUNC) and write the new    *)
(* map; the process may stop or the disk fail between any two of these.     *)
(* A file that was truncated and not fully written is no JSON: Torn.        *)
(*                                                                         *)
(* Get holds c.mu for reading, so no writer moves while it reads the file,  *)
(* and it is one action.                                                    *)
(***************************************************************************)
CONSTANTS Callers, Keys, Entries,
          Miss, Silent,
          NoCaller,
          Missing, Torn      \* states of the file that hold no map

Maps == [Keys -> Entries \union {Miss}]
Empty == [k \in Keys |-> Miss]

ASSUME FileAssumption ==
  /\ Miss \notin Entries /\ Silent \notin Entries \union {Miss}
  /\ NoCaller \notin Callers
  /\ Missing # Torn /\ Missing \notin Maps /\ Torn \notin Maps

VARIABLES file,      \* a map, Missing or Torn
          writer,    \* who holds c.mu for writing
          pc,        \* where each goroutine is in Set or Delete
          update,    \* the map it read, the key and the entry (Miss: delete)
          told,      \* what its Get returned
          failed     \* history: a read failed, or a write was lost half way

fileVars == <<file, writer, pc, update, told, failed>>

NoUpdate == [base |-> Empty, key |-> Miss, entry |-> Miss]
Updates == [base : Maps, key : Keys, entry : Entries \union {Miss}]

FileTypeOK ==
  /\ file \in Maps \union {Missing, Torn}
  /\ writer \in Callers \union {NoCaller}
  /\ pc \in [Callers -> {"idle", "read", "truncated"}]
  /\ update \in [Callers -> Updates \union {NoUpdate}]
  /\ told \in [Callers -> Entries \union {Miss, Silent}]
  /\ failed \in BOOLEAN

FileInit ==
  /\ file = Missing
  /\ writer = NoCaller
  /\ pc = [c \in Callers |-> "idle"]
  /\ update = [c \in Callers |-> NoUpdate]
  /\ told = [c \in Callers |-> Silent]
  /\ failed = FALSE

---------------------------------------------------------------------------------

\* What os.ReadFile and json.Unmarshal make of the file.
Known == IF file \in Maps THEN file ELSE Empty

Get(c) ==
  /\ pc[c] = "idle" /\ told[c] = Silent
  /\ writer = NoCaller
  /\ \E k \in Keys : told' = [told EXCEPT ![c] = Known[k]]
  /\ UNCHANGED <<file, writer, pc, update, failed>>

\* An unreadable file is a miss, and tells nothing of the map in it.
GetFails(c) ==
  /\ pc[c] = "idle" /\ told[c] = Silent
  /\ writer = NoCaller
  /\ told' = [told EXCEPT ![c] = Miss]
  /\ failed' = TRUE
  /\ UNCHANGED <<file, writer, pc, update>>

Return(c) ==
  /\ told[c] # Silent
  /\ told' = [told EXCEPT ![c] = Silent]
  /\ UNCHANGED <<file, writer, pc, update, failed>>

\* Mutant: Set and Delete take no lock.
RacingLockAndRead(c, k, e) ==
  /\ pc[c] = "idle" /\ told[c] = Silent
  /\ writer' = c
  /\ pc' = [pc EXCEPT ![c] = "read"]
  /\ update' = [update EXCEPT ![c] = [base |-> Known, key |-> k, entry |-> e]]
  /\ UNCHANGED <<file, told, failed>>

LockAndRead(c, k, e) ==
  /\ pc[c] = "idle" /\ told[c] = Silent
  /\ writer = NoCaller
  /\ writer' = c
  /\ pc' = [pc EXCEPT ![c] = "read"]
  /\ update' = [update EXCEPT ![c] = [base |-> Known, key |-> k, entry |-> e]]
  /\ UNCHANGED <<file, told, failed>>

\* A file that is missing or torn is an empty map to Set.
BeginSet(c) == \E k \in Keys, e \in Entries : LockAndRead(c, k, e)

\* Set goes on with an empty map, too, when the file cannot be read.
BeginBlindSet(c) ==
  /\ pc[c] = "idle" /\ told[c] = Silent
  /\ writer = NoCaller
  /\ writer' = c
  /\ pc' = [pc EXCEPT ![c] = "read"]
  /\ \E k \in Keys, e \in Entries :
       update' = [update EXCEPT ![c] = [base |-> Empty, key |-> k, entry |-> e]]
  /\ failed' = TRUE
  /\ UNCHANGED <<file, told>>

\* Delete returns at once when the file is missing, with an error when it is
\* torn or cannot be read; none of these changes anything.
BeginDelete(c) ==
  /\ file \in Maps
  /\ \E k \in Keys : LockAndRead(c, k, Miss)

Truncate(c) ==
  /\ pc[c] = "read"
  /\ pc' = [pc EXCEPT ![c] = "truncated"]
  /\ file' = Torn
  /\ UNCHANGED <<writer, update, told, failed>>

\* Mutants: the new map holds the new entry only; it is no map of all keys.
LonelyContents(u) == [k \in Keys |-> IF k = u.key THEN u.entry ELSE Miss]
PartialContents(u) == [k \in {u.key} |-> u.entry]

Contents(u) == [u.base EXCEPT ![u.key] = u.entry]

Unlock(c) ==
  /\ writer' = NoCaller
  /\ pc' = [pc EXCEPT ![c] = "idle"]
  /\ update' = [update EXCEPT ![c] = NoUpdate]
  /\ UNCHANGED told

Write(c) ==
  /\ pc[c] = "truncated"
  /\ file' = Contents(update[c])
  /\ Unlock(c)
  /\ UNCHANGED failed

\* The file cannot be opened for writing, or the write fails half way.
WriteFails(c) ==
  /\ pc[c] \in {"read", "truncated"}
  /\ failed' = (failed \/ pc[c] = "truncated")
  /\ Unlock(c)
  /\ UNCHANGED file

\* The process stops and starts again; the file is what it was.
Crash ==
  /\ writer' = NoCaller
  /\ pc' = [c \in Callers |-> "idle"]
  /\ update' = [c \in Callers |-> NoUpdate]
  /\ told' = [c \in Callers |-> Silent]
  /\ failed' = (failed \/ \E c \in Callers : pc[c] = "truncated")
  /\ UNCHANGED file

FileNext ==
  \/ Crash
  \/ \E c \in Callers :
       \/ Get(c) \/ GetFails(c) \/ Return(c)
       \/ BeginSet(c) \/ BeginBlindSet(c) \/ BeginDelete(c)
       \/ Truncate(c) \/ Write(c) \/ WriteFails(c)

FileSpec == FileInit /\ [][FileNext]_fileVars

---------------------------------------------------------------------------------

\* The lock holder is the one that updates, from the map the file still holds or
\* held before it was truncated, or from none if it could not be read
\* (auth.go:105-158).
WriterInv ==
  /\ \A c \in Callers : (writer = c) <=> (pc[c] # "idle")
  /\ \A c \in Callers : pc[c] # "idle" => update[c] \in Updates
  /\ \A c \in Callers : pc[c] = "read" =>
       update[c].base = Known \/ (update[c].base = Empty /\ failed)
  /\ \A c \in Callers : pc[c] = "truncated" => file = Torn

FileInv == FileTypeOK /\ WriterInv

Store == INSTANCE TokenStore WITH
           store  <- IF writer # NoCaller /\ pc[writer] = "truncated"
                     THEN update[writer].base ELSE Known,
           intact <- ~failed

\* The file cache is a TokenStore: reads never see a truncated file of a writer
\* at work, a write of one key keeps the others, and what a crash, an unreadable
\* file or a failing write costs is the whole map, one token exchange (auth.go:83-158).
ImplementsStore == Store!StoreSpec

=================================================================================
