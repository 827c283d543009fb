------------------------- MODULE FileTokenCacheProofs -------------------------
(***************************************************************************)
(* Proofs about FileTokenCache, for any goroutines, keys and entries.  The  *)
(* inductive invariant is FileInv: what the lock holder knows of the file   *)
(* is what the file holds, or held before it was truncated.                 *)
(***************************************************************************)
EXTENDS FileTokenCache, TLAPS

LEMMA EmptyIsMap == Empty \in Maps
  BY DEF Empty, Maps

LEMMA KnownIsMap == Known \in Maps
  BY EmptyIsMap DEF Known

\* Writing one key of a map yields a map.
LEMMA ContentsIsMap ==
  ASSUME NEW u \in Updates
  PROVE  Contents(u) \in Maps
  BY DEF Contents, Updates, Maps

LEMMA InvInit == FileInit => FileInv
  BY FileAssumption, EmptyIsMap
  DEF FileInit, FileInv, FileTypeOK, WriterInv, NoUpdate

\* Every step keeps FileInv.
LEMMA InvNext == FileInv /\ [FileNext]_fileVars => FileInv'
<1> SUFFICES ASSUME FileInv, [FileNext]_fileVars
             PROVE  FileInv'
  OBVIOUS
<1> USE FileAssumption DEF FileInv
<1>1. ASSUME Crash
      PROVE  FileInv'
  BY <1>1 DEF Crash, FileTypeOK, WriterInv, Known
<1>2. ASSUME NEW c \in Callers, Get(c) \/ GetFails(c) \/ Return(c)
      PROVE  FileInv'
  <2>1. told' \in [Callers -> Entries \union {Miss, Silent}]
    BY <1>2, KnownIsMap DEF Get, GetFails, Return, FileTypeOK, Maps
  <2> QED
    BY <1>2, <2>1 DEF Get, GetFails, Return, FileTypeOK, WriterInv, Known
<1>3. ASSUME NEW c \in Callers, NEW k \in Keys, NEW e \in Entries \union {Miss},
             LockAndRead(c, k, e)
      PROVE  FileInv'
  <2>1. [base |-> Known, key |-> k, entry |-> e] \in Updates
    BY KnownIsMap DEF Updates
  <2> QED
    BY <1>3, <2>1 DEF LockAndRead, FileTypeOK, WriterInv, Known
<1>4. ASSUME NEW c \in Callers, BeginBlindSet(c)
      PROVE  FileInv'
  <2>1. PICK k \in Keys, e \in Entries :
          update' = [update EXCEPT ![c] = [base |-> Empty, key |-> k, entry |-> e]]
    BY <1>4 DEF BeginBlindSet
  <2>2. [base |-> Empty, key |-> k, entry |-> e] \in Updates
    BY EmptyIsMap DEF Updates
  <2> QED
    BY <1>4, <2>1, <2>2 DEF BeginBlindSet, FileTypeOK, WriterInv, Known
<1>5. ASSUME NEW c \in Callers, Truncate(c)
      PROVE  FileInv'
  <2>1. \A d \in Callers : d # c => pc[d] = "idle"
    BY <1>5 DEF Truncate, FileTypeOK, WriterInv
  <2> QED
    BY <1>5, <2>1 DEF Truncate, FileTypeOK, WriterInv, Known
<1>6. ASSUME NEW c \in Callers, Write(c) \/ WriteFails(c)
      PROVE  FileInv'
  <2>1. pc[c] # "idle" /\ update[c] \in Updates
    BY <1>6 DEF Write, WriteFails, WriterInv
  <2>2. \A d \in Callers : d # c => pc[d] = "idle"
    BY <2>1 DEF FileTypeOK, WriterInv
  <2>3. file' \in Maps \union {Missing, Torn}
    BY <1>6, <2>1, ContentsIsMap DEF Write, WriteFails, FileTypeOK
  <2>4. failed' \in BOOLEAN
    BY <1>6 DEF Write, WriteFails, FileTypeOK
  <2> QED
    BY <1>6, <2>1, <2>2, <2>3, <2>4 DEF Write, WriteFails, Unlock, FileTypeOK, WriterInv
<1>7. CASE UNCHANGED fileVars
  BY <1>7 DEF fileVars, FileTypeOK, WriterInv, Known
<1> QED
  BY <1>1, <1>2, <1>3, <1>4, <1>5, <1>6, <1>7 DEF FileNext, BeginSet, BeginDelete

\* The variables keep their types (auth.go:74-158).
THEOREM FileTypeCorrect == FileSpec => []FileTypeOK
  BY InvInit, InvNext, PTL DEF FileSpec, FileInv

\* Updates are exclusive and start from what the file holds, or from nothing
\* when it could not be read (auth.go:105-158).
THEOREM UpdatesAreExclusive == FileSpec => []WriterInv
  BY InvInit, InvNext, PTL DEF FileSpec, FileInv

-------------------------------------------------------------------------------

\* The map a reader would find, were it not truncated.
Held == IF writer # NoCaller /\ pc[writer] = "truncated"
        THEN update[writer].base ELSE Known

LEMMA StoreStart == FileInit => Store!StoreInit
  BY FileAssumption DEF FileInit, Store!StoreInit, Store!Empty, Known, Empty

\* Every step of the file cache is a step of the store, or changes nothing
\* the store knows of.
LEMMA StoreStep ==
  FileInv /\ [FileNext]_fileVars => [Store!StoreNext]_(Store!storeVars)
<1> SUFFICES ASSUME FileInv, [FileNext]_fileVars
             PROVE  [Store!StoreNext]_(Store!storeVars)
  OBVIOUS
<1> USE FileAssumption DEF FileInv, Store!storeVars
<1>1. ASSUME NEW c \in Callers, Get(c)
      PROVE  Store!Look(c)
  BY <1>1 DEF Get, Store!Look, Known
<1>2. ASSUME NEW c \in Callers, GetFails(c) \/ BeginBlindSet(c)
      PROVE  Store!Fault(c)
  BY <1>2 DEF GetFails, BeginBlindSet, FileTypeOK, Store!Fault, Known
<1>3. ASSUME NEW c \in Callers, Return(c)
      PROVE  Store!Leave(c)
  BY <1>3 DEF Return, Store!Leave, Known
<1>4. ASSUME NEW c \in Callers, NEW k \in Keys, NEW e \in Entries \union {Miss},
             LockAndRead(c, k, e)
      PROVE  UNCHANGED Store!storeVars
  BY <1>4 DEF LockAndRead, FileTypeOK, Known
<1>5. ASSUME NEW c \in Callers, Truncate(c)
      PROVE  Store!Lose \/ UNCHANGED Store!storeVars
  <2>1. writer = c /\ pc'[writer] = "truncated"
    BY <1>5 DEF Truncate, WriterInv, FileTypeOK
  <2>2. CASE update[c].base = Known
    BY <1>5, <2>1, <2>2 DEF Truncate
  <2>3. CASE update[c].base = Empty /\ failed
    BY <1>5, <2>1, <2>3 DEF Truncate, Empty, Store!Lose, Store!Empty
  <2> QED
    BY <1>5, <2>2, <2>3 DEF Truncate, WriterInv
<1>6. ASSUME NEW c \in Callers, Write(c)
      PROVE  Store!Put \/ Store!Remove
  <2>1. writer = c /\ writer # NoCaller /\ update[c] \in Updates
    BY <1>6 DEF Write, WriterInv
  <2>2. Held = update[c].base
    BY <1>6, <2>1 DEF Write, Held
  <2>3. Held' = Contents(update[c])
    BY <1>6, <2>1, ContentsIsMap DEF Write, Unlock, Held, Known
  <2>4. Held' = [Held EXCEPT ![update[c].key] = update[c].entry]
    BY <2>2, <2>3 DEF Contents
  <2>5. update[c].key \in Keys /\ update[c].entry \in Entries \union {Miss}
    BY <2>1 DEF Updates
  <2>6. UNCHANGED <<told, failed>>
    BY <1>6 DEF Write, Unlock
  <2> QED
    BY <2>4, <2>5, <2>6 DEF Store!Put, Store!Remove, Held
<1>7. ASSUME NEW c \in Callers, WriteFails(c)
      PROVE  Store!Lose \/ UNCHANGED Store!storeVars
  <2>1. writer = c
    BY <1>7 DEF WriteFails, WriterInv
  <2>2. CASE pc[c] = "read"
    BY <1>7, <2>1, <2>2 DEF WriteFails, Unlock, WriterInv, Known, FileTypeOK
  <2>3. CASE pc[c] = "truncated"
    BY <1>7, <2>1, <2>3 DEF WriteFails, Unlock, WriterInv, Known, Empty, Store!Lose, Store!Empty
  <2> QED
    BY <1>7, <2>2, <2>3 DEF WriteFails
<1>8. ASSUME Crash
      PROVE  Store!Lose \/ Store!Silence
  <2>1. CASE \E c \in Callers : pc[c] = "truncated"
    BY <1>8, <2>1 DEF Crash, WriterInv, Known, Empty, Store!Lose, Store!Empty
  <2>2. CASE ~ \E c \in Callers : pc[c] = "truncated"
    BY <1>8, <2>2 DEF Crash, Known, FileTypeOK, Store!Silence
  <2> QED
    BY <2>1, <2>2
<1>9. CASE UNCHANGED fileVars
  BY <1>9 DEF fileVars, Known
<1> QED
  BY <1>1, <1>2, <1>3, <1>4, <1>5, <1>6, <1>7, <1>8, <1>9
  DEF FileNext, BeginSet, BeginDelete, Store!StoreNext

\* The file cache is a TokenStore: reads are those of one map, a write touches
\* one key, and only a failing disk or a crash in a write loses the map (auth.go:83-158).
THEOREM FileCacheIsStore == FileSpec => ImplementsStore
  BY InvInit, InvNext, StoreStart, StoreStep, PTL
  DEF FileSpec, ImplementsStore, Store!StoreSpec

===============================================================================
