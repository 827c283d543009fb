---------------------------- MODULE OperationsProofs ----------------------------
(***************************************************************************)
(* Theorems about Operations, for any number of goroutines and any operation *)
(* of the SDK.                                                              *)
(***************************************************************************)
EXTENDS Operations, FiniteSetTheorems, TLAPS

Decoders == {"strict", "envelope", "list", "direct", "cardCreate", "cardMove"}

\* What the proofs need to know of the table of operations.
Wellformed(o) ==
  /\ o.method \in {"GET", "POST"}
  /\ o.decode \in Decoders
  /\ o.method = "GET" => o.decode \notin {"strict", "cardCreate", "cardMove"}

\* Every row of the table is well formed.
LEMMA TableIsWellformed == \A o \in Operations : Wellformed(o)
<1> USE DEF Wellformed, Decoders, Op, Read, Post
<1>1. \A o \in {CashInMobileMoney, CashOutMobileMoney, TransactionsRefund, FeesList,
                CanalPlusPay, PayrollExecute, WebhooksEvents, VirtualCardsCreate} :
        Wellformed(o)
  BY DEF CashInMobileMoney, CashOutMobileMoney, TransactionsRefund, FeesList,
         CanalPlusPay, PayrollExecute, WebhooksEvents, VirtualCardsCreate
<1>2. \A o \in TransactionsOps \union WalletOps : Wellformed(o)
  BY DEF TransactionsOps, WalletOps
<1>3. \A o \in AirtimeOps \union DataOps : Wellformed(o)
  BY DEF AirtimeOps, DataOps
<1>4. \A o \in EneoOps \union CamwaterOps \union CustomsOps : Wellformed(o)
  BY DEF EneoOps, CamwaterOps, CustomsOps
<1>5. \A o \in CommissionsOps \union PayrollOps : Wellformed(o)
  BY DEF CommissionsOps, PayrollOps
<1>6. \A o \in AnalyticsOps \union PaymentLinksOps : Wellformed(o)
  BY DEF AnalyticsOps, PaymentLinksOps
<1>7. \A o \in CardCustomersOps : Wellformed(o)
  BY DEF CardCustomersOps
<1>8. \A o \in CardWalletOps : Wellformed(o)
  BY DEF CardWalletOps
<1>9. \A o \in VirtualCardsMoves \union VirtualCardsReads \union VirtualCardsActions :
        Wellformed(o)
  BY DEF VirtualCardsMoves, VirtualCardsReads, VirtualCardsActions
<1> HIDE DEF Wellformed
<1> QED
  BY <1>1, <1>2, <1>3, <1>4, <1>5, <1>6, <1>7, <1>8, <1>9 DEF Operations

--------------------------------------------------------------------------------

Working(c) == job[c] \in {"serving", "performed"}

\* Requests that were executed are among these.
Ended == {c \in Callers : job[c] \in {"performed", "closed"}}

\* The key of an order at work is busy.
WorkInv ==
  \A c \in Callers : Working(c) =>
    /\ op.method # "GET" /\ stored[Key(c)] = Busy
    /\ job[c] = "performed" => fate[Key(c)] \in {"pending", "done"}

\* One request at a time works under a key.
AloneInv ==
  \A c, d \in Callers : Working(c) /\ Working(d) /\ Key(c) = Key(d) => c = d

\* A pending order may be settled later.
Agrees(said, f) ==
  \/ said = "done" /\ f = "done"
  \/ said = "pending" /\ f \in {"pending", "done", "failed"}

\* What an answer that can be replayed says is what became of the order.
StoredInv ==
  \A k \in Keys : stored[k] \in Body =>
    IF stored[k].shape = "refusal"
      THEN op.decode \in MayBeRefusedWith2xx /\ stored[k].says = "nothing"
      ELSE Agrees(stored[k].says, fate[k])

\* What a call may return without an error.
Fits(c, r) ==
  r \in {"pending", "done", "nothing", "empty"} =>
    IF op.method = "GET"
      THEN r \in {"nothing", "empty"}
      ELSE stored[Key(c)] \in Body /\ r = Decode(stored[Key(c)])

\* Without an error, a call returns what the answer kept under its key says.
ReportInv == \A c \in Callers : Fits(c, report[c])

\* An order with a key that was executed keeps its key, busy or answered.
EffectInv ==
  /\ effects \in Nat /\ effects <= Cardinality(Ended)
  /\ keyed /\ effects > 0 =>
       /\ effects = 1
       /\ stored["order"] \in Body \/ \E c \in Callers : job[c] = "performed"

\* The types, but for the bound on effects, which takes EffectInv.
OrderTyped ==
  /\ op \in Operations
  /\ legal \in BOOLEAN /\ keyed \in BOOLEAN
  /\ call \in [Callers -> {"idle", "waiting", "returned"}]
  /\ report \in [Callers -> Reports]
  /\ job \in [Callers -> {"none", "sent", "serving", "performed", "closed"}]
  /\ stored \in [Keys -> Body \union {NoBody, Busy}]
  /\ fate \in [Keys -> {"none", "pending", "done", "failed", "declined"} \union Reasons]

\* A call that has not begun has no request.
IdleInv == \A c \in Callers : call[c] = "idle" => job[c] = "none"

OrderInv ==
  OrderTyped /\ IdleInv /\ WorkInv /\ AloneInv /\ StoredInv /\ ReportInv /\ EffectInv

\* A POST has a key (middleware.go:257-260).
LEMMA PostHasKey == OrderTyped => Wellformed(op) /\ (HasKey <=> op.method # "GET")
BY TableIsWellformed DEF OrderTyped, HasKey, Wellformed

LEMMA KeyIsKey == OrderTyped => \A c \in Callers : Key(c) \in Keys
BY DEF OrderTyped, Key, Keys

LEMMA NoBodyIsNone ==
  /\ NoBody \notin Body /\ Busy \notin Body /\ NoBody # Busy
BY DEF Body, NoBody, Busy

\* errors.Is never calls an order done (errors.go:154-160).
LEMMA LearnsReason ==
  \A e : Learns(e) \in {"noFunds", "noCardFunds", "conflict", "refused", "error"}
BY DEF Learns

\* Every method has its decoder.
LEMMA DecodeByName ==
  ASSUME NEW b
  PROVE  /\ op.decode = "strict" => Decode(b) = DecodeStrict(b)
         /\ op.decode = "envelope" => Decode(b) = DecodeEnvelope(b)
         /\ op.decode = "list" => Decode(b) = DecodeList(b)
         /\ op.decode = "direct" => Decode(b) = DecodeDirect(b)
         /\ op.decode = "cardCreate" => Decode(b) = DecodeCardCreate(b)
         /\ op.decode = "cardMove" => Decode(b) = DecodeCardMove(b)
BY DEF Decode

\* What a decoder makes of a body.
LEMMA DecodeReports ==
  ASSUME OrderTyped, NEW b \in Body
  PROVE  Decode(b) \in {"pending", "done", "nothing", "empty", "error"}
<1>1. b.says \in {"pending", "done", "nothing"}
  BY DEF Body
<1>2. op.decode \in Decoders
  BY TableIsWellformed DEF OrderTyped, Wellformed
<1> QED
  BY <1>1, <1>2, DecodeByName
  DEF Decoders, DecodeStrict, DecodeEnvelope, DecodeList,
      DecodeDirect, DecodeCardCreate, DecodeCardMove

\* An error answer changes what the call reports, and only that.
LEMMA ErrorReports ==
  ASSUME OrderTyped, NEW c \in Callers, NEW a, DeliverError(c, a)
  PROVE  /\ job' = [job EXCEPT ![c] = "closed"]
         /\ call' \in [Callers -> {"idle", "waiting", "returned"}]
         /\ report' \in [Callers -> Reports]
         /\ \A d \in Callers : report'[d] \in {"pending", "done", "nothing", "empty"}
                                => report'[d] = report[d]
<1> DEFINE l == Learns(ParseApiError(a[1], a[2]))
<1>1. l \in {"noFunds", "noCardFunds", "conflict", "refused", "error"}
  BY LearnsReason
<1>2. \/ call' = [call EXCEPT ![c] = "returned"] /\ report' = [report EXCEPT ![c] = l]
      \/ call' = call /\ report' = report
  BY DEF DeliverError, Returns
<1>3. job' = [job EXCEPT ![c] = "closed"]
  BY DEF DeliverError
<1> HIDE DEF l
<1> QED
  BY <1>1, <1>2, <1>3 DEF OrderTyped, Reports, Reasons

\* An answer delivered is reported as the decoder reads it.
LEMMA AnswerReports ==
  ASSUME OrderTyped, NEW c \in Callers, NEW b \in Body, Deliver(c, b)
  PROVE  /\ job' = [job EXCEPT ![c] = "closed"]
         /\ call' \in [Callers -> {"idle", "waiting", "returned"}]
         /\ report' \in [Callers -> Reports]
         /\ \A d \in Callers : report'[d] = report[d] \/ (d = c /\ report'[d] = Decode(b))
<1> DEFINE r == Decode(b)
<1>1. r \in {"pending", "done", "nothing", "empty", "error"}
  BY DecodeReports
<1>2. \/ call' = [call EXCEPT ![c] = "returned"] /\ report' = [report EXCEPT ![c] = r]
      \/ call' = call /\ report' = report
  BY DEF Deliver, Returns
<1>3. job' = [job EXCEPT ![c] = "closed"]
  BY DEF Deliver
<1> HIDE DEF r
<1>4. report' \in [Callers -> Reports]
  BY <1>1, <1>2 DEF OrderTyped, Reports
<1>5. \A d \in Callers : report'[d] = report[d] \/ (d = c /\ report'[d] = r)
  BY <1>2 DEF OrderTyped
<1> QED
  BY <1>2, <1>3, <1>4, <1>5 DEF OrderTyped, r

\* A request that leaves the server ends at most one more.
LEMMA EndedGrows ==
  ASSUME OrderTyped, NEW c \in Callers, NEW j \in {"performed", "closed"},
         job' = [job EXCEPT ![c] = j]
  PROVE  /\ Ended' = Ended \union {c}
         /\ IsFiniteSet(Ended)
         /\ Cardinality(Ended) \in Nat /\ Cardinality(Ended') \in Nat
         /\ Cardinality(Ended') >= Cardinality(Ended)
         /\ c \notin Ended => Cardinality(Ended') = Cardinality(Ended) + 1
<1>1. Ended' = Ended \union {c}
  BY DEF Ended, OrderTyped
<1>2. IsFiniteSet(Ended)
  BY OperationsAssumption, FS_Subset DEF Ended
<1>3. Cardinality(Ended) \in Nat
  BY <1>2, FS_CardinalityType
<1>4. /\ c \in Ended => Ended \union {c} = Ended
      /\ c \notin Ended => Cardinality(Ended \union {c}) = Cardinality(Ended) + 1
  BY <1>2, FS_AddElement
<1> HIDE DEF Ended
<1> QED
  BY <1>1, <1>2, <1>3, <1>4

--------------------------------------------------------------------------------

LEMMA OrderInit == OperationsInit => OrderInv
<1> SUFFICES ASSUME OperationsInit PROVE OrderInv
  OBVIOUS
<1> USE DEF OperationsInit
<1>1. OrderTyped
  BY DEF OrderTyped, Reports
<1>2. Ended = {}
  BY DEF Ended
<1>3. Cardinality(Ended) = 0
  BY <1>2, FS_EmptySet
<1>4. EffectInv
  BY <1>3 DEF EffectInv
<1>5. StoredInv
  BY NoBodyIsNone DEF StoredInv
<1>6. IdleInv /\ WorkInv /\ AloneInv /\ ReportInv
  BY DEF IdleInv, WorkInv, AloneInv, ReportInv, Fits, Working
<1> QED
  BY <1>1, <1>4, <1>5, <1>6 DEF OrderInv

\* Steps that neither work on an order nor change what became of it.
LEMMA QuietStep ==
  ASSUME OrderInv, OrderTyped', IdleInv', UNCHANGED <<orderVars, stored, fate, effects>>,
         \A d \in Callers : Working(d)' => job'[d] = job[d],
         \A d \in Callers : job[d] = "performed" => job'[d] = "performed",
         \A d \in Callers : report'[d] = report[d] \/ Fits(d, report'[d]),
         Cardinality(Ended') \in Nat, Cardinality(Ended') >= Cardinality(Ended),
         Cardinality(Ended) \in Nat
  PROVE  OrderInv'
<1>1. \A k : Key(k)' = Key(k)
  BY DEF Key, orderVars
<1>2. WorkInv' /\ AloneInv'
  BY <1>1 DEF OrderInv, WorkInv, AloneInv, Working, orderVars
<1>3. StoredInv'
  BY DEF OrderInv, StoredInv, orderVars, Agrees
<1>4. \A b : Decode(b)' = Decode(b)
  BY DEF Decode, DecodeStrict, DecodeEnvelope, DecodeList, DecodeDirect,
         DecodeCardCreate, DecodeCardMove, orderVars
<1>5. ReportInv'
  BY <1>1, <1>4 DEF OrderInv, ReportInv, Fits, orderVars
<1>6. EffectInv'
  BY DEF OrderInv, EffectInv, orderVars
<1> QED
  BY <1>2, <1>3, <1>5, <1>6 DEF OrderInv

\* Ended is finite.
LEMMA EndedCounts == IsFiniteSet(Ended) /\ Cardinality(Ended) \in Nat
BY OperationsAssumption, FS_Subset, FS_CardinalityType DEF Ended

\* Steps of a call that the server has not let in.
LEMMA CallerSteps ==
  ASSUME OrderInv, NEW c \in Callers,
         Reject(c) \/ Submit(c) \/ GiveUp(c) \/ RetryConflicts(c)
  PROVE  OrderInv'
<1>1. PICK r \in Reports \ {"pending", "done", "nothing", "empty"}, j \in {job[c], "sent"},
           p \in {"waiting", "returned"} :
        /\ report' \in {report, [report EXCEPT ![c] = r]}
        /\ job' = [job EXCEPT ![c] = j] /\ (j = "sent" => job[c] \in {"none", "sent"})
        /\ call' = [call EXCEPT ![c] = p]
        /\ UNCHANGED <<orderVars, stored, fate, effects>>
  <2>0. job = [job EXCEPT ![c] = job[c]]
    BY DEF OrderInv, OrderTyped
  <2>1. CASE Reject(c)
    BY <2>0, <2>1 DEF Reject, Returns, Reports, serverVars
  <2>2. CASE Submit(c)
    BY <2>2 DEF Submit, Reports, OrderInv, IdleInv
  <2>3. CASE GiveUp(c)
    <3>1. \A e : Learns(e) \in Reports \ {"pending", "done", "nothing", "empty"}
      BY LearnsReason DEF Reports, Reasons
    <3>2. "error" \in Reports \ {"pending", "done", "nothing", "empty"}
      BY DEF Reports
    <3> QED
      BY <2>0, <2>3, <3>1, <3>2 DEF GiveUp, Returns, serverVars
  <2>4. CASE RetryConflicts(c)
    <3>1. \A e : Learns(e) \in Reports \ {"pending", "done", "nothing", "empty"}
      BY LearnsReason DEF Reports, Reasons
    <3> QED
      BY <2>0, <2>4, <3>1 DEF RetryConflicts, Returns, serverVars
  <2> QED
    BY <2>1, <2>2, <2>3, <2>4
<1>2. OrderTyped'
  BY <1>1 DEF OrderInv, OrderTyped, orderVars
<1>3. IdleInv'
  BY <1>1 DEF OrderInv, OrderTyped, IdleInv
<1>4. \A d \in Callers :
        /\ Working(d)' => job'[d] = job[d]
        /\ job[d] = "performed" => job'[d] = "performed"
        /\ report'[d] = report[d] \/ Fits(d, report'[d])
  BY <1>1 DEF OrderInv, OrderTyped, Working, Fits
<1>5. Ended' = Ended
  BY <1>1 DEF OrderInv, OrderTyped, Ended
<1> QED
  BY <1>1, <1>2, <1>3, <1>4, <1>5, QuietStep, EndedCounts

\* An answer to a request that was not let in.
LEMMA AnswerSteps ==
  ASSUME OrderInv, NEW c \in Callers,
         AnswerRead(c) \/ TurnAway(c) \/ Conflict(c) \/ Replay(c)
  PROVE  OrderInv'
<1>0. OrderTyped
  BY DEF OrderInv
<1>1. job[c] = "sent" /\ UNCHANGED <<orderVars, stored, fate, effects>>
  BY DEF AnswerRead, TurnAway, Conflict, Replay
<1>2. /\ job' = [job EXCEPT ![c] = "closed"]
      /\ call' \in [Callers -> {"idle", "waiting", "returned"}]
      /\ report' \in [Callers -> Reports]
      /\ \A d \in Callers : report'[d] = report[d] \/ Fits(d, report'[d])
  <2>1. CASE \E a : DeliverError(c, a)
    BY <1>0, <2>1, ErrorReports DEF Fits, OrderTyped
  <2>2. CASE op.method = "GET" /\ \E b \in Body : b.says = "nothing" /\ Deliver(c, b)
    <3>1. PICK b \in Body : b.says = "nothing" /\ Deliver(c, b)
      BY <2>2
    <3>2. Fits(c, Decode(b))
      <4>1. op.decode \in {"envelope", "list", "direct"}
        BY <1>0, <2>2, PostHasKey DEF Wellformed, Decoders
      <4> QED
        BY <2>2, <3>1, <4>1, DecodeByName DEF DecodeEnvelope, DecodeList, DecodeDirect, Fits
    <3> QED
      BY <1>0, <3>1, <3>2, AnswerReports
  <2>3. CASE op.method # "GET" /\ stored[Key(c)] \in Body /\ Deliver(c, stored[Key(c)])
    <3>1. Fits(c, Decode(stored[Key(c)]))
      BY <2>3 DEF Fits
    <3> QED
      BY <1>0, <2>3, <3>1, AnswerReports
  <2>4. \A s \in Shapes \union {"refusal"} : [shape |-> s, says |-> "nothing"] \in Body
    BY DEF Shapes, Body
  <2>5. CASE AnswerRead(c)
    BY <2>1, <2>2, <2>4, <2>5 DEF AnswerRead
  <2> QED
    BY <2>1, <2>3, <2>5 DEF TurnAway, Conflict, Replay
<1>3. OrderTyped'
  BY <1>0, <1>1, <1>2 DEF OrderTyped, orderVars
<1>4. IdleInv'
  <2>1. \A d \in Callers : call'[d] = "idle" => call[d] = "idle" /\ d # c
    <3>1. call[c] # "idle"
      BY <1>1 DEF OrderInv, IdleInv
    <3>2. call' = call \/ call' = [call EXCEPT ![c] = "returned"]
      BY DEF AnswerRead, TurnAway, Conflict, Replay, Deliver, DeliverError, Returns
    <3> QED
      BY <1>0, <3>1, <3>2 DEF OrderTyped
  <2> QED
    BY <1>0, <1>2, <2>1 DEF OrderInv, IdleInv, OrderTyped
<1>5. \A d \in Callers :
        /\ Working(d)' => job'[d] = job[d]
        /\ job[d] = "performed" => job'[d] = "performed"
  BY <1>0, <1>1, <1>2 DEF OrderTyped, Working
<1>6. /\ Cardinality(Ended) \in Nat /\ Cardinality(Ended') \in Nat
      /\ Cardinality(Ended') >= Cardinality(Ended)
  BY <1>0, <1>2, EndedGrows
<1> QED
  BY <1>1, <1>2, <1>3, <1>4, <1>5, <1>6, QuietStep

\* The operation, and with it keys and decoders, stays what it is.
LEMMA SameOrder ==
  ASSUME UNCHANGED orderVars
  PROVE  (\A c : Key(c)' = Key(c)) /\ (\A b : Decode(b)' = Decode(b))
BY DEF Key, orderVars, Decode, DecodeStrict, DecodeEnvelope, DecodeList, DecodeDirect,
       DecodeCardCreate, DecodeCardMove

\* An order that is let in finds its key free.
LEMMA AcceptStep == ASSUME OrderInv, NEW c \in Callers, Accept(c) PROVE OrderInv'
<1>0. OrderTyped /\ HasKey /\ Key(c) \in Keys
  BY PostHasKey, KeyIsKey DEF OrderInv, Accept
<1>1. /\ job[c] = "sent" /\ op.method # "GET" /\ stored[Key(c)] = NoBody
      /\ job' = [job EXCEPT ![c] = "serving"]
      /\ stored' = [stored EXCEPT ![Key(c)] = Busy]
      /\ UNCHANGED <<orderVars, call, report, fate, effects>>
  BY <1>0 DEF Accept
<1>2. \A d \in Callers : Working(d) => Key(d) # Key(c)
  BY <1>1, NoBodyIsNone DEF OrderInv, WorkInv
<1>3. OrderTyped' /\ IdleInv'
  BY <1>0, <1>1 DEF OrderInv, OrderTyped, IdleInv, orderVars
<1>4. WorkInv' /\ AloneInv'
  BY <1>0, <1>1, <1>2, SameOrder, KeyIsKey
  DEF OrderInv, OrderTyped, WorkInv, AloneInv, Working, orderVars
<1>5. StoredInv'
  BY <1>0, <1>1, NoBodyIsNone DEF OrderInv, OrderTyped, StoredInv, Agrees, orderVars
<1>6. ReportInv'
  BY <1>0, <1>1, SameOrder, NoBodyIsNone, KeyIsKey
  DEF OrderInv, OrderTyped, ReportInv, Fits, orderVars
<1>7. EffectInv'
  <2>1. Ended' = Ended
    BY <1>0, <1>1 DEF Ended, OrderTyped
  <2>2. keyed => Key(c) = "order"
    BY DEF Key
  <2> QED
    BY <1>0, <1>1, <2>1, <2>2, NoBodyIsNone DEF OrderInv, EffectInv, OrderTyped, orderVars
<1> QED
  BY <1>3, <1>4, <1>5, <1>6, <1>7 DEF OrderInv

\* An order at work is executed, for the first time under its key.
LEMMA PerformStep == ASSUME OrderInv, NEW c \in Callers, Perform(c) PROVE OrderInv'
<1>0. OrderTyped /\ Key(c) \in Keys /\ Working(c) /\ stored[Key(c)] = Busy
  BY KeyIsKey DEF OrderInv, Perform, WorkInv, Working
<1>1. PICK f \in {"done", "pending"} :
        /\ job[c] = "serving" /\ job' = [job EXCEPT ![c] = "performed"]
        /\ fate' = [fate EXCEPT ![Key(c)] = f]
        /\ effects' = effects + 1
        /\ UNCHANGED <<orderVars, call, report, stored>>
  BY DEF Perform
<1>2. \A d \in Callers : Working(d) /\ Key(d) = Key(c) => d = c
  BY <1>0 DEF OrderInv, AloneInv
<1>3. OrderTyped' /\ IdleInv'
  BY <1>0, <1>1 DEF OrderInv, OrderTyped, IdleInv, orderVars
<1>4. WorkInv' /\ AloneInv'
  BY <1>0, <1>1, <1>2, SameOrder, KeyIsKey
  DEF OrderInv, OrderTyped, WorkInv, AloneInv, Working, orderVars
<1>5. StoredInv'
  BY <1>0, <1>1, NoBodyIsNone DEF OrderInv, OrderTyped, StoredInv, Agrees, orderVars
<1>6. ReportInv'
  BY <1>0, <1>1, SameOrder, NoBodyIsNone, KeyIsKey
  DEF OrderInv, OrderTyped, ReportInv, Fits, orderVars
<1>7. EffectInv'
  <2>1. c \notin Ended /\ Cardinality(Ended') = Cardinality(Ended) + 1
    BY <1>0, <1>1, EndedGrows DEF Ended
  <2>2. keyed => effects = 0
    <3> SUFFICES ASSUME keyed, effects # 0 PROVE FALSE
      BY DEF OrderInv, EffectInv
    <3>1. \A d \in Callers : Key(d) = "order"
      BY DEF Key
    <3>2. PICK d \in Callers : job[d] = "performed"
      BY <1>0, <3>1, NoBodyIsNone DEF OrderInv, EffectInv
    <3> QED
      BY <1>1, <1>2, <3>1, <3>2 DEF Working
  <2>3. job'[c] = "performed"
    BY <1>0, <1>1 DEF OrderTyped
  <2> QED
    BY <1>1, <2>1, <2>2, <2>3, EndedCounts DEF OrderInv, EffectInv, orderVars
<1> QED
  BY <1>3, <1>4, <1>5, <1>6, <1>7 DEF OrderInv

\* A pending order is settled.
LEMMA SettleStep == ASSUME OrderInv, NEW k \in Keys, Settle(k) PROVE OrderInv'
<1>0. OrderTyped
  BY DEF OrderInv
<1>1. PICK f \in {"done", "failed"} :
        /\ fate[k] = "pending" /\ fate' = [fate EXCEPT ![k] = f]
        /\ UNCHANGED <<orderVars, call, report, job, stored, effects>>
  BY DEF Settle
<1>2. \A c \in Callers : Key(c) = k => job[c] # "performed"
  BY DEF Settle
<1>3. OrderTyped' /\ IdleInv'
  BY <1>0, <1>1 DEF OrderInv, OrderTyped, IdleInv, orderVars
<1>4. WorkInv' /\ AloneInv'
  BY <1>0, <1>1, <1>2, SameOrder, KeyIsKey
  DEF OrderInv, OrderTyped, WorkInv, AloneInv, Working, orderVars
<1>5. StoredInv'
  BY <1>0, <1>1 DEF OrderInv, OrderTyped, StoredInv, Agrees, orderVars
<1>6. ReportInv'
  BY <1>1, SameOrder DEF OrderInv, ReportInv, Fits, orderVars
<1>7. EffectInv'
  BY <1>1 DEF OrderInv, EffectInv, Ended, orderVars
<1> QED
  BY <1>3, <1>4, <1>5, <1>6, <1>7 DEF OrderInv

\* The steps that end an order's work: its key gets an answer, or is free again
\* after an error status.
LEMMA ClosingStep ==
  ASSUME OrderInv, NEW c \in Callers, Working(c), UNCHANGED <<orderVars, effects>>,
         NEW b \in Body \union {NoBody}, stored' = [stored EXCEPT ![Key(c)] = b],
         NEW f \in {"pending", "done", "declined"} \union Reasons,
         fate' = [fate EXCEPT ![Key(c)] = f],
         b \in Body =>
           /\ Deliver(c, b)
           /\ IF b.shape = "refusal"
                THEN op.decode \in MayBeRefusedWith2xx /\ b.says = "nothing"
                ELSE Agrees(b.says, f),
         b = NoBody => job[c] = "serving" /\ \E a : DeliverError(c, a)
  PROVE  OrderInv'
<1>0. /\ OrderTyped /\ Key(c) \in Keys /\ stored[Key(c)] = Busy
      /\ job[c] \in {"serving", "performed"} /\ op.method # "GET"
  BY KeyIsKey DEF OrderInv, WorkInv, Working
<1>1. \A d \in Callers : Working(d) /\ Key(d) = Key(c) => d = c
  BY <1>0 DEF OrderInv, AloneInv, Working
<1>2. /\ job' = [job EXCEPT ![c] = "closed"]
      /\ call' \in [Callers -> {"idle", "waiting", "returned"}]
      /\ report' \in [Callers -> Reports]
      /\ \A d \in Callers :
           report'[d] \in {"pending", "done", "nothing", "empty"} =>
             report'[d] = report[d] \/ (d = c /\ b \in Body /\ report'[d] = Decode(b))
  <2>1. CASE b \in Body
    BY <1>0, <2>1, AnswerReports
  <2>2. CASE b = NoBody
    BY <1>0, <2>2, ErrorReports
  <2> QED
    BY <2>1, <2>2
<1>3. OrderTyped'
  BY <1>0, <1>2 DEF OrderTyped, orderVars
<1>4. IdleInv'
  <2>1. call' = call \/ call' = [call EXCEPT ![c] = "returned"]
    BY NoBodyIsNone DEF Deliver, DeliverError, Returns
  <2>2. call[c] # "idle"
    BY <1>0 DEF OrderInv, IdleInv
  <2> QED
    BY <1>0, <1>2, <2>1, <2>2 DEF OrderInv, IdleInv, OrderTyped
<1>5. WorkInv' /\ AloneInv'
  BY <1>0, <1>1, <1>2, SameOrder, KeyIsKey
  DEF OrderInv, OrderTyped, WorkInv, AloneInv, Working, orderVars
<1>6. StoredInv'
  BY <1>0, NoBodyIsNone DEF OrderInv, OrderTyped, StoredInv, orderVars, Agrees
<1>7. ReportInv'
  BY <1>0, <1>2, SameOrder, NoBodyIsNone, KeyIsKey
  DEF OrderInv, OrderTyped, ReportInv, Fits, orderVars
<1>8. EffectInv'
  <2>1. Cardinality(Ended') \in Nat /\ Cardinality(Ended') >= Cardinality(Ended)
    BY <1>0, <1>2, EndedGrows
  <2>2. keyed => \A d \in Callers : Key(d) = "order"
    BY DEF Key
  <2>3. keyed /\ effects > 0 => job[c] = "performed" /\ effects = 1
    BY <1>0, <1>1, <2>2, NoBodyIsNone DEF OrderInv, EffectInv, Working
  <2>4. keyed /\ effects > 0 => stored'["order"] \in Body
    BY <1>0, <2>2, <2>3 DEF OrderTyped
  <2> QED
    BY <2>1, <2>3, <2>4, EndedCounts DEF OrderInv, EffectInv, orderVars
<1> QED
  BY <1>3, <1>4, <1>5, <1>6, <1>7, <1>8 DEF OrderInv

\* An order that was executed is answered.
LEMMA RespondStep == ASSUME OrderInv, NEW c \in Callers, Respond(c) PROVE OrderInv'
<1>0. /\ OrderTyped /\ Key(c) \in Keys /\ Working(c)
      /\ fate[Key(c)] \in {"pending", "done"}
  BY KeyIsKey DEF OrderInv, Respond, WorkInv, Working
<1>1. PICK s \in Shapes :
        LET b == [shape |-> s, says |-> fate[Key(c)]] IN
          Deliver(c, b) /\ stored' = [stored EXCEPT ![Key(c)] = b]
  BY DEF Respond
<1> DEFINE b == [shape |-> s, says |-> fate[Key(c)]]
<1>2. b \in Body /\ b.shape # "refusal" /\ Agrees(b.says, fate[Key(c)])
  BY <1>0 DEF Shapes, Body, Agrees
<1>3. fate' = [fate EXCEPT ![Key(c)] = fate[Key(c)]] /\ UNCHANGED <<orderVars, effects>>
  BY <1>0 DEF Respond, OrderTyped
<1>4. b # NoBody
  BY <1>2, NoBodyIsNone
<1>5. Deliver(c, b) /\ stored' = [stored EXCEPT ![Key(c)] = b]
  BY <1>1
<1> DEFINE f == fate[Key(c)]
<1>6. /\ f \in {"pending", "done"} /\ fate' = [fate EXCEPT ![Key(c)] = f]
      /\ Agrees(b.says, f)
  BY <1>0, <1>2, <1>3
<1> HIDE DEF b, f
<1>7. b \in Body => /\ Deliver(c, b)
                   /\ IF b.shape = "refusal"
                        THEN op.decode \in MayBeRefusedWith2xx /\ b.says = "nothing"
                        ELSE Agrees(b.says, f)
  BY <1>2, <1>5, <1>6
<1>8. b = NoBody => job[c] = "serving" /\ \E a : DeliverError(c, a)
  BY <1>4
<1>9. f \in {"pending", "done", "declined"} \union Reasons /\ b \in Body \union {NoBody}
  BY <1>2, <1>6
<1> QED
  BY <1>0, <1>3, <1>5, <1>6, <1>7, <1>8, <1>9, ClosingStep

\* An order is refused, in an error status or in a 2xx.
LEMMA RefuseStep == ASSUME OrderInv, NEW c \in Callers, Refuse(c) PROVE OrderInv'
<1>0. OrderTyped /\ Working(c) /\ job[c] = "serving" /\ UNCHANGED <<orderVars, effects>>
  BY DEF OrderInv, Refuse, Working
<1>1. ASSUME NEW r \in Reasons, fate' = [fate EXCEPT ![Key(c)] = r],
             \E a : DeliverError(c, a), stored' = [stored EXCEPT ![Key(c)] = NoBody]
      PROVE  OrderInv'
  BY <1>0, <1>1, ClosingStep, NoBodyIsNone
<1> DEFINE b == [shape |-> "refusal", says |-> "nothing"]
<1>2. CASE /\ op.decode \in MayBeRefusedWith2xx
           /\ fate' = [fate EXCEPT ![Key(c)] = "declined"]
           /\ Deliver(c, b) /\ stored' = [stored EXCEPT ![Key(c)] = b]
  <2>1. b \in Body /\ b # NoBody /\ b.shape = "refusal" /\ b.says = "nothing"
    BY DEF Body, NoBody
  <2> HIDE DEF b
  <2> QED
    BY <1>0, <1>2, <2>1, ClosingStep
<1> QED
  BY <1>1, <1>2 DEF Refuse

\* Every step keeps the invariant.
LEMMA OrderNext == OrderInv /\ [OperationsNext]_operationVars => OrderInv'
<1> SUFFICES ASSUME OrderInv, [OperationsNext]_operationVars PROVE OrderInv'
  OBVIOUS
<1>1. CASE UNCHANGED operationVars
  <2>1. /\ UNCHANGED <<orderVars, call, report, job, stored, fate, effects>>
        /\ Ended' = Ended
    BY <1>1 DEF operationVars, serverVars, Ended
  <2>2. OrderTyped' /\ IdleInv'
    BY <2>1 DEF OrderInv, OrderTyped, IdleInv, orderVars
  <2> QED
    BY <2>1, <2>2, QuietStep, EndedCounts
<1>2. ASSUME NEW k \in Keys, Settle(k) PROVE OrderInv'
  BY <1>2, SettleStep
<1>3. ASSUME NEW c \in Callers,
             \/ Reject(c) \/ Submit(c) \/ GiveUp(c) \/ RetryConflicts(c)
             \/ AnswerRead(c) \/ TurnAway(c) \/ Conflict(c) \/ Replay(c)
      PROVE  OrderInv'
  BY <1>3, CallerSteps, AnswerSteps
<1>4. ASSUME NEW c \in Callers, Accept(c) \/ Perform(c) \/ Respond(c) \/ Refuse(c)
      PROVE  OrderInv'
  BY <1>4, AcceptStep, PerformStep, RespondStep, RefuseStep
<1> QED
  BY <1>1, <1>2, <1>3, <1>4 DEF OperationsNext

--------------------------------------------------------------------------------

\* The variables of an order keep their types, whatever the operation (types.go:25-30).
THEOREM OperationsTypeCorrect == OperationsSpec => []OperationsTypeOK
<1>1. OrderInv => OperationsTypeOK
  <2> SUFFICES ASSUME OrderInv PROVE OperationsTypeOK
    OBVIOUS
  <2>1. Ended \subseteq Callers
    BY DEF Ended
  <2>2. Cardinality(Ended) <= Cardinality(Callers) /\ Cardinality(Callers) \in Nat
    BY <2>1, OperationsAssumption, FS_Subset, FS_CardinalityType
  <2>3. effects \in 0..Cardinality(Callers)
    BY <2>2, EndedCounts DEF OrderInv, EffectInv
  <2> QED
    BY <2>3 DEF OrderInv, OrderTyped, OperationsTypeOK
<1> QED
  BY <1>1, OrderInit, OrderNext, PTL DEF OperationsSpec

\* An order is executed once under a key, and once per call without
\* (idempotency.go:7-13, middleware.go:253-270).
THEOREM OrdersHappenOnce == OperationsSpec => []OrderOnce
<1>1. OrderInv => OrderOnce
  <2> SUFFICES ASSUME OrderInv PROVE OrderOnce
    OBVIOUS
  <2> DEFINE Begun == {c \in Callers : job[c] # "none"}
  <2>1. Ended \subseteq Begun /\ IsFiniteSet(Begun)
    BY OperationsAssumption, FS_Subset DEF Ended
  <2>2. Cardinality(Ended) <= Cardinality(Begun) /\ Cardinality(Begun) \in Nat
    BY <2>1, FS_Subset, FS_CardinalityType
  <2> HIDE DEF Begun
  <2>3. effects <= Cardinality(Begun) /\ (keyed => effects <= 1)
    BY <2>2, EndedCounts DEF OrderInv, EffectInv
  <2> QED
    BY <2>3 DEF OrderOnce, Begun
<1> QED
  BY <1>1, OrderInit, OrderNext, PTL DEF OperationsSpec

\* What a method reports as done was done (cards.go:310-316, 386-391, cashin.go:85-101).
THEOREM DoneIsDone == OperationsSpec => []DoneMeansDone
<1>1. OrderInv => DoneMeansDone
  <2> SUFFICES ASSUME OrderInv, NEW c \in Callers, report[c] = "done"
               PROVE  fate[Key(c)] = "done"
    BY DEF DoneMeansDone
  <2> DEFINE b == stored[Key(c)]
  <2>0. OrderTyped /\ Key(c) \in Keys /\ op.decode \in Decoders
    BY KeyIsKey, PostHasKey DEF OrderInv, Wellformed
  <2>1. b \in Body /\ Decode(b) = "done"
    BY DEF OrderInv, ReportInv, Fits
  <2>2. IF b.shape = "refusal"
          THEN op.decode \in MayBeRefusedWith2xx /\ b.says = "nothing"
          ELSE Agrees(b.says, fate[Key(c)])
    BY <2>0, <2>1 DEF OrderInv, StoredInv
  <2> HIDE DEF b
  <2>3. b.shape # "refusal"
    BY <2>1, <2>2, DecodeByName
    DEF MayBeRefusedWith2xx, Enveloped, DecodeStrict, DecodeEnvelope, DecodeList,
        DecodeCardCreate
  <2>4. b.says = "done"
    BY <2>0, <2>1, <2>2, <2>3, DecodeByName
    DEF Decoders, Agrees, DecodeStrict, DecodeEnvelope, DecodeList, DecodeDirect,
        DecodeCardCreate, DecodeCardMove
  <2> QED
    BY <2>2, <2>3, <2>4 DEF Agrees
<1> QED
  BY <1>1, OrderInit, OrderNext, PTL DEF OperationsSpec

\* A cash-in, cash-out or card creation that was refused returns an error
\* (cashin.go:95-99, cashout.go:87-91, cards.go:310-316).
THEOREM RefusalsAreErrors == OperationsSpec => []RefusalIsError
<1>1. OrderInv => RefusalIsError
  <2> SUFFICES ASSUME OrderInv, NEW c \in Callers, op.decode \in {"strict", "cardCreate"},
                      report[c] \in {"pending", "done", "nothing", "empty"}
               PROVE  fate[Key(c)] \in {"pending", "done", "failed"}
    BY DEF RefusalIsError
  <2>0. OrderTyped /\ Key(c) \in Keys /\ op.method # "GET"
    BY KeyIsKey, PostHasKey DEF OrderInv, Wellformed
  <2>1. stored[Key(c)] \in Body /\ report[c] = Decode(stored[Key(c)])
    BY <2>0 DEF OrderInv, ReportInv, Fits
  <2>2. stored[Key(c)].shape # "refusal"
    BY <2>1, DecodeByName DEF DecodeStrict, DecodeCardCreate
  <2> QED
    BY <2>0, <2>1, <2>2 DEF OrderInv, StoredInv, Agrees
<1> QED
  BY <1>1, OrderInit, OrderNext, PTL DEF OperationsSpec

--------------------------------------------------------------------------------

\* The codes of the sentinels, by what their status says: a refusal of the order
\* (400, 402, 403, 404, 409, 422) or a failure of something else (errors.go:12-131).
RefusalCodes ==
  {"validation_error", "missing_required_field", "wallet_balance_insufficient",
   "wallet_not_found", "kyc_not_approved", "wallet_frozen", "country_not_activated",
   "sandbox_key_required", "sandbox_path_required", "idempotency_key_conflict",
   "duplicate_reference", "invalid_amount", "invalid_operator_country", "missing_phone",
   "invalid_phone", "operator_not_available", "currency_mismatch", "amount_exceeds_limit",
   "daily_limit_exceeded", "cashout_refused", "invalid_merchant_id", "invalid_brand",
   "customer_not_enrolled", "environment_mismatch", "card_not_active",
   "card_not_eligible", "card_not_frozen", "card_already_terminated", "invalid_action",
   "invalid_card_id", "invalid_customer_id", "invalid_customer", "invalid_body",
   "missing_documents", "invalid_document", "ambiguous_amount",
   "plan_feature_not_available", "transaction_token_ip_mismatch", "card_not_found",
   "customer_not_found", "customer_exists", "request_in_progress", "amount_above_max",
   "amount_too_small", "max_cards_reached", "insufficient_card_balance",
   "card_creation_rejected", "card_topup_rejected", "card_withdraw_rejected",
   "card_action_rejected", "quote_failed"}

OtherCodes ==
  {"missing_api_key", "invalid_api_key", "missing_transaction_token",
   "invalid_transaction_token", "rate_limit_exceeded", "plan_tx_limit_reached",
   "too_many_requests", "internal_error", "provider_not_configured",
   "provider_unavailable", "provider_timeout", "card_withdraw_credit_failed",
   "provider_error", "card_action_failed", "rate_unavailable", "idempotency_unavailable"}

\* A sentinel is a status with a code of its side (errors.go:12-131).
LEMMA SentinelsByStatus ==
  \A s \in Sentinels :
    /\ s = <<s[1], s[2]>> /\ s[1] \in Nat
    /\ s[1] \in RefusalStatuses => s[2] \in RefusalCodes
    /\ s[1] \notin RefusalStatuses => s[2] \in OtherCodes
<1>1. \A s \in MoneySentinels :
    /\ s = <<s[1], s[2]>> /\ s[1] \in Nat
    /\ s[1] \in RefusalStatuses => s[2] \in RefusalCodes
    /\ s[1] \notin RefusalStatuses => s[2] \in OtherCodes
  BY DEF MoneySentinels, RefusalStatuses, RefusalCodes, OtherCodes
<1>2. \A s \in CardSentinels :
    /\ s = <<s[1], s[2]>> /\ s[1] \in Nat
    /\ s[1] \in RefusalStatuses => s[2] \in RefusalCodes
    /\ s[1] \notin RefusalStatuses => s[2] \in OtherCodes
  BY DEF CardSentinels, RefusalStatuses, RefusalCodes, OtherCodes
<1> QED
  BY <1>1, <1>2 DEF Sentinels

\* No code is on both sides, and API_ERROR on none: errors.Is can tell a refusal
\* from a failure by the code alone (errors.go:154-160).
LEMMA CodesAreDistinct ==
  /\ \A x \in RefusalCodes : x \notin OtherCodes
  /\ "api_error" \notin RefusalCodes /\ "api_error" \notin OtherCodes
BY DEF RefusalCodes, OtherCodes

\* The codes of older backends (errors.go:296-310).
Aliases ==
  {"invalid_request", "insufficient_balance", "duplicate_transaction",
   "idempotency_conflict", "kyc_required", "operator_unavailable", "service_unavailable"}

\* Every alias stands for a code of the table, and one card code for the code of
\* another wallet (errors.go:289-310).
LEMMA AliasTable ==
  /\ DOMAIN LegacyCodeAliases = Aliases
  /\ \A a \in Aliases : LegacyCodeAliases[a] \in RefusalCodes \union OtherCodes
  /\ LegacyCodeAliases["insufficient_balance"] = "wallet_balance_insufficient"
<1>1. DOMAIN LegacyCodeAliases = Aliases
  BY DEF LegacyCodeAliases, Aliases
<1>2. \A a \in Aliases : LegacyCodeAliases[a] \in RefusalCodes \union OtherCodes
  BY DEF LegacyCodeAliases, Aliases, RefusalCodes, OtherCodes
<1>3. LegacyCodeAliases["insufficient_balance"] = "wallet_balance_insufficient"
  BY DEF LegacyCodeAliases
<1> QED
  BY <1>1, <1>2, <1>3

\* An alias is no code of its own, and no code is empty.
LEMMA AliasesAreNoCodes ==
  /\ \A x \in RefusalCodes \union OtherCodes : x \notin Aliases /\ x # NoCode
  /\ NoCode \notin Aliases
BY DEF Aliases, NoCode, RefusalCodes, OtherCodes

\* Normalising a code twice is normalising it once: no alias stands for another alias,
\* so the order in which the table is read does not matter (errors.go:313-318).
THEOREM NormalizeOnce ==
  \A code : NormalizeCode(NormalizeCode(code)) = NormalizeCode(code)
BY AliasTable, AliasesAreNoCodes DEF NormalizeCode

\* Whatever alias a server uses for a code, ParseApiError makes the same error of it
\* (errors.go:320-372).
LEMMA SpellingsNormalize ==
  ASSUME NEW s, s[2] \in RefusalCodes \union OtherCodes, s = <<s[1], s[2]>>, NEW a \in Spellings(s)
  PROVE  ParseApiError(a[1], a[2]) = [type |-> ErrorType(s[1]), code |-> s[2]]
<1>1. CASE a = s
  BY <1>1, AliasTable, AliasesAreNoCodes DEF ParseApiError, NormalizeCode
<1>2. CASE a # s
  <2>1. PICK b \in Aliases : LegacyCodeAliases[b] = s[2] /\ a = <<s[1], b>>
    BY <1>2, AliasTable DEF Spellings
  <2>2. a[1] = s[1] /\ a[2] = b
    BY <2>1
  <2>3. NormalizeCode(b) = s[2] /\ b # NoCode
    BY <2>1, AliasTable, AliasesAreNoCodes DEF NormalizeCode
  <2> QED
    BY <2>2, <2>3 DEF ParseApiError
<1> QED
  BY <1>1, <1>2

\* errors.Is takes both codes of a key in use for a conflict, whatever the type of
\* the error (errors.go:154-160).
LEMMA LearnsConflict ==
  \A t : /\ Learns([type |-> t, code |-> "idempotency_key_conflict"]) = "conflict"
         /\ Learns([type |-> t, code |-> "request_in_progress"]) = "conflict"
BY DEF Learns, Is, ConflictSentinels

\* The type of the error tells the two empty wallets apart, which share a sentinel
\* (errors.go:289-295).
LEMMA LearnsNoFunds ==
  \A t : Learns([type |-> t, code |-> "wallet_balance_insufficient"])
            = IF t = "WalletError" THEN "noFunds" ELSE "noCardFunds"
BY DEF Learns, Is

\* A code that says nothing of the order is a mere error (errors.go:154-160).
LEMMA LearnsError ==
  \A t : \A x \in OtherCodes \union AccessSentinels \union {"api_error"} :
    Learns([type |-> t, code |-> x]) = "error"
<1> SUFFICES ASSUME NEW t, NEW x \in OtherCodes \union AccessSentinels \union {"api_error"}
             PROVE  Learns([type |-> t, code |-> x]) = "error"
  OBVIOUS
<1>1. x # "wallet_balance_insufficient" /\ x \notin ConflictSentinels
  BY DEF OtherCodes, AccessSentinels, ConflictSentinels
<1>2. x \notin RefusalSentinels
  BY SentinelsByStatus, CodesAreDistinct DEF RefusalSentinels
<1> QED
  BY <1>1, <1>2 DEF Learns, Is

\* Every code that refuses an order is one errors.Is finds (errors.go:154-160).
LEMMA LearnsRefused ==
  \A t : \A x \in RefusalSentinels \ {"wallet_balance_insufficient"} :
    Learns([type |-> t, code |-> x]) = "refused"
BY DEF Learns, Is, RefusalSentinels

\* What the status alone says, when the server leaves the code out (errors.go:376-404).
LEMMA ByStatus ==
  /\ \A s \in {500, 502, 503, 504, 401, 429} : Learns(ParseApiError(s, NoCode)) = "error"
  /\ Learns(ParseApiError(409, NoCode)) = "conflict"
  /\ Learns(ParseApiError(402, NoCode)) = "noFunds"
  /\ \A s \in {400, 403, 422} : Learns(ParseApiError(s, NoCode)) = "refused"
<1>1. \A s \in {500, 502, 503, 504, 401, 429} :
        DefaultCodeForStatus(s) \in OtherCodes \union {"api_error"}
  BY DEF DefaultCodeForStatus, OtherCodes
<1>2. /\ DefaultCodeForStatus(409) = "idempotency_key_conflict"
      /\ DefaultCodeForStatus(402) = "wallet_balance_insufficient"
      /\ DefaultCodeForStatus(400) = "validation_error"
      /\ DefaultCodeForStatus(422) = "validation_error"
      /\ DefaultCodeForStatus(403) = "kyc_not_approved"
      /\ ErrorType(402) = "WalletError"
  BY DEF DefaultCodeForStatus, ErrorType
<1>3. {"validation_error", "kyc_not_approved"} \subseteq
        RefusalSentinels \ {"wallet_balance_insufficient"}
  <2>1. <<400, "validation_error">> \in Sentinels /\ <<403, "kyc_not_approved">> \in Sentinels
    BY DEF Sentinels, MoneySentinels
  <2> QED
    BY <2>1 DEF RefusalSentinels, RefusalStatuses, ConflictSentinels, AccessSentinels
<1>4. \A s : ParseApiError(s, NoCode) = [type |-> ErrorType(s), code |-> DefaultCodeForStatus(s)]
  BY DEF ParseApiError
<1>5. \A s \in {500, 502, 503, 504, 401, 429} : Learns(ParseApiError(s, NoCode)) = "error"
  BY <1>1, <1>4, LearnsError
<1>6. \A s \in {400, 403, 422} : Learns(ParseApiError(s, NoCode)) = "refused"
  BY <1>2, <1>3, <1>4, LearnsRefused
<1> QED
  BY <1>2, <1>4, <1>5, <1>6, LearnsConflict, LearnsNoFunds

\* A spelling of some sentinel is a spelling of one of them.
LEMMA SpeltSentinel ==
  ASSUME NEW S, NEW a \in AllSpellings(S)
  PROVE  \E s \in S : a \in Spellings(s)
<1>1. PICK T \in {Spellings(s) : s \in S} : a \in T
  BY DEF AllSpellings
<1>2. PICK s \in S : T = Spellings(s)
  BY <1>1
<1> QED
  BY <1>1, <1>2

\* A refusal reads as what it was refused for, under every code, every alias and with
\* no code at all (errors.go:320-404).
LEMMA RefusalTold ==
  \A r \in Reasons : \A a \in RefusalAnswers(r) : Learns(ParseApiError(a[1], a[2])) = r
<1> SUFFICES ASSUME NEW r \in Reasons, NEW a \in RefusalAnswers(r)
             PROVE  Learns(ParseApiError(a[1], a[2])) = r
  OBVIOUS
<1>0. "wallet_balance_insufficient" \in RefusalCodes
  BY DEF RefusalCodes
<1>1. CASE r = "noFunds"
  <2>1. RefusalAnswers(r) = Spellings(<<402, "wallet_balance_insufficient">>) \union WithoutCode({402})
    BY <1>1 DEF RefusalAnswers
  <2>2. CASE a \in Spellings(<<402, "wallet_balance_insufficient">>)
    <3>1. ParseApiError(a[1], a[2]) = [type |-> ErrorType(402), code |-> "wallet_balance_insufficient"]
      BY <2>2, <1>0, SpellingsNormalize
    <3> QED
      BY <3>1, <1>1, LearnsNoFunds DEF ErrorType
  <2>3. CASE a \in WithoutCode({402})
    BY <2>3, <1>1, ByStatus DEF WithoutCode
  <2> QED
    BY <2>1, <2>2, <2>3
<1>2. CASE r = "noCardFunds"
  <2>1. a = <<422, "insufficient_balance">>
    BY <1>2 DEF RefusalAnswers
  <2>2. ParseApiError(422, "insufficient_balance")
          = [type |-> "ValidationError", code |-> "wallet_balance_insufficient"]
    <3>1. NormalizeCode("insufficient_balance") = "wallet_balance_insufficient"
      BY AliasTable DEF NormalizeCode, Aliases
    <3>2. ErrorType(422) = "ValidationError"
      BY DEF ErrorType
    <3>3. "insufficient_balance" # NoCode
      BY DEF NoCode
    <3> QED
      BY <3>1, <3>2, <3>3 DEF ParseApiError
  <2> QED
    BY <1>2, <2>1, <2>2, LearnsNoFunds
<1>3. CASE r = "refused"
  <2>1. \/ \E s \in Sentinels : /\ s[1] \in RefusalStatuses /\ s[2] \in RefusalSentinels
                               /\ s[2] # "wallet_balance_insufficient"
                               /\ a \in Spellings(s)
        \/ a \in WithoutCode({400, 403, 422})
    <3> DEFINE Refusals ==
                 {s \in Sentinels : s[1] \in RefusalStatuses /\ s[2] \in RefusalSentinels
                                     /\ s[2] # "wallet_balance_insufficient"}
    <3>1. RefusalAnswers("refused") = AllSpellings(Refusals) \union WithoutCode({400, 403, 422})
      BY DEF RefusalAnswers
    <3>2. a \in AllSpellings(Refusals) \/ a \in WithoutCode({400, 403, 422})
      BY <3>1, <1>3
    <3>3. a \in AllSpellings(Refusals) => \E s \in Refusals : a \in Spellings(s)
      BY SpeltSentinel
    <3> QED
      BY <3>2, <3>3
  <2>2. ASSUME NEW s \in Sentinels, s[1] \in RefusalStatuses, s[2] \in RefusalSentinels,
               s[2] # "wallet_balance_insufficient", a \in Spellings(s)
        PROVE  Learns(ParseApiError(a[1], a[2])) = r
    <3>1. ParseApiError(a[1], a[2]) = [type |-> ErrorType(s[1]), code |-> s[2]]
      BY <2>2, SentinelsByStatus, SpellingsNormalize
    <3> QED
      BY <3>1, <2>2, <1>3, LearnsRefused
  <2>3. CASE a \in WithoutCode({400, 403, 422})
    BY <2>3, <1>3, ByStatus DEF WithoutCode
  <2> QED
    BY <2>1, <2>2, <2>3
<1> QED
  BY <1>1, <1>2, <1>3 DEF Reasons

\* A 409 about the key reads as a conflict (errors.go:320-404).
LEMMA ConflictTold ==
  \A a \in ConflictAnswers : Learns(ParseApiError(a[1], a[2])) = "conflict"
<1> SUFFICES ASSUME NEW a \in ConflictAnswers
             PROVE  Learns(ParseApiError(a[1], a[2])) = "conflict"
  OBVIOUS
<1>0. {"idempotency_key_conflict", "request_in_progress"} \subseteq RefusalCodes
  BY DEF RefusalCodes
<1>1. \/ a = <<409, "request_in_progress">>
      \/ a \in Spellings(<<409, "idempotency_key_conflict">>)
      \/ a \in WithoutCode({409})
  BY DEF ConflictAnswers
<1>2. CASE a = <<409, "request_in_progress">>
  <2>1. a \in Spellings(<<409, "request_in_progress">>)
    BY <1>2 DEF Spellings
  <2>2. ParseApiError(a[1], a[2]) = [type |-> ErrorType(409), code |-> "request_in_progress"]
    BY <2>1, <1>0, SpellingsNormalize
  <2> QED
    BY <2>2, LearnsConflict
<1>3. CASE a \in Spellings(<<409, "idempotency_key_conflict">>)
  <2>1. ParseApiError(a[1], a[2])
          = [type |-> ErrorType(409), code |-> "idempotency_key_conflict"]
    BY <1>3, <1>0, SpellingsNormalize
  <2> QED
    BY <2>1, LearnsConflict
<1>4. CASE a \in WithoutCode({409})
  BY <1>4, ByStatus DEF WithoutCode
<1> QED
  BY <1>1, <1>2, <1>3, <1>4

\* What turns a request away before the order is looked at reads as a mere error, never
\* as a refusal or a conflict (errors.go:320-404).
LEMMA AccessTold ==
  \A a \in AccessAnswers : Learns(ParseApiError(a[1], a[2])) = "error"
<1> SUFFICES ASSUME NEW a \in AccessAnswers
             PROVE  Learns(ParseApiError(a[1], a[2])) = "error"
  OBVIOUS
<1>1. CASE a \in Sentinels /\ (a[1] \in {401, 429, 503} \/ a[2] \in AccessSentinels)
  <2>1. a[2] \in OtherCodes \union AccessSentinels
    BY <1>1, SentinelsByStatus DEF RefusalStatuses
  <2>2. a \in Spellings(a) /\ a = <<a[1], a[2]>> /\ a[2] \in RefusalCodes \union OtherCodes
    BY <1>1, SentinelsByStatus DEF Spellings
  <2>3. ParseApiError(a[1], a[2]) = [type |-> ErrorType(a[1]), code |-> a[2]]
    BY <2>2, SpellingsNormalize
  <2> QED
    BY <2>1, <2>3, LearnsError
<1>2. CASE a \in WithoutCode({401, 429, 503})
  BY <1>2, ByStatus DEF WithoutCode
<1> QED
  BY <1>1, <1>2 DEF AccessAnswers

--------------------------------------------------------------------------------

\* Somebody works on an order whose key is busy (idempotency.go:7-13).
BusyInv ==
  \A k \in Keys : stored[k] = Busy => \E d \in Callers : Working(d) /\ Key(d) = k

\* Every step keeps somebody at work on a busy key.
LEMMA BusyNext ==
  OrderInv /\ BusyInv /\ [OperationsNext]_operationVars => BusyInv'
<1> SUFFICES ASSUME OrderInv, BusyInv, [OperationsNext]_operationVars,
                    NEW k \in Keys, stored'[k] = Busy
             PROVE  \E d \in Callers : Working(d)' /\ Key(d)' = k
  BY DEF BusyInv
<1>0. OrderTyped /\ \A c \in Callers : Key(c) \in Keys
  BY KeyIsKey DEF OrderInv
<1>1. UNCHANGED orderVars => \A c : Key(c)' = Key(c)
  BY SameOrder
<1>2. ASSUME UNCHANGED <<orderVars, stored>>,
             \A d \in Callers : Working(d) => Working(d)'
      PROVE  \E d \in Callers : Working(d)' /\ Key(d)' = k
  BY <1>1, <1>2 DEF BusyInv
<1>3. CASE UNCHANGED operationVars
  BY <1>2, <1>3 DEF operationVars, serverVars, Working
<1>4. ASSUME NEW j \in Keys, Settle(j) PROVE \E d \in Callers : Working(d)' /\ Key(d)' = k
  BY <1>2, <1>4 DEF Settle, Working
<1>5. ASSUME NEW c \in Callers,
             Reject(c) \/ GiveUp(c) \/ RetryConflicts(c) \/ Submit(c)
      PROVE  \E d \in Callers : Working(d)' /\ Key(d)' = k
  <2>1. UNCHANGED <<orderVars, stored>>
    BY <1>5 DEF Reject, GiveUp, RetryConflicts, Submit, serverVars
  <2>2. \A d \in Callers : Working(d) => Working(d)'
    BY <1>0, <1>5
    DEF Reject, GiveUp, RetryConflicts, Submit, serverVars, Working, OrderInv, IdleInv, OrderTyped
  <2> QED
    BY <1>2, <2>1, <2>2
<1>6. ASSUME NEW c \in Callers,
             AnswerRead(c) \/ TurnAway(c) \/ Conflict(c) \/ Replay(c) \/ Perform(c)
      PROVE  \E d \in Callers : Working(d)' /\ Key(d)' = k
  <2>1. UNCHANGED <<orderVars, stored>>
    BY <1>6 DEF AnswerRead, TurnAway, Conflict, Replay, Perform
  <2>2. \/ job[c] = "sent" /\ job' = [job EXCEPT ![c] = "closed"]
        \/ job' = [job EXCEPT ![c] = "performed"]
    BY <1>6 DEF AnswerRead, TurnAway, Conflict, Replay, Perform, Deliver, DeliverError
  <2> QED
    BY <1>0, <1>2, <2>1, <2>2 DEF Working, OrderTyped
<1>7. ASSUME NEW c \in Callers, Accept(c)
      PROVE  \E d \in Callers : Working(d)' /\ Key(d)' = k
  <2>1. /\ HasKey /\ UNCHANGED orderVars /\ job[c] = "sent"
        /\ job' = [job EXCEPT ![c] = "serving"]
        /\ stored' = [stored EXCEPT ![Key(c)] = Busy]
    BY <1>0, <1>7, PostHasKey DEF Accept
  <2>2. CASE k = Key(c)
    BY <1>0, <1>1, <2>1, <2>2 DEF Working, OrderTyped
  <2>3. CASE k # Key(c)
    BY <1>0, <1>1, <2>1, <2>3 DEF Working, OrderTyped, BusyInv
  <2> QED
    BY <2>2, <2>3
<1>8. ASSUME NEW c \in Callers, Refuse(c) \/ Respond(c)
      PROVE  \E d \in Callers : Working(d)' /\ Key(d)' = k
  <2>1. /\ UNCHANGED orderVars
        /\ job' = [job EXCEPT ![c] = "closed"]
    BY <1>8 DEF Refuse, Respond, Deliver, DeliverError
  <2>2. \E b : b # Busy /\ stored' = [stored EXCEPT ![Key(c)] = b]
    <3>1. \A s, x : s # "busy" => [shape |-> s, says |-> x] # Busy
      <4> SUFFICES ASSUME NEW s, NEW x, s # "busy" PROVE [shape |-> s, says |-> x] # Busy
        OBVIOUS
      <4>1. [shape |-> s, says |-> x].shape # Busy.shape
        BY DEF Busy
      <4> QED
        BY <4>1
    <3>2. CASE Respond(c)
      BY <3>1, <3>2 DEF Respond, Shapes
    <3>3. CASE Refuse(c)
      BY <3>1, <3>3, NoBodyIsNone DEF Refuse
    <3> QED
      BY <1>8, <3>2, <3>3
  <2>3. k # Key(c) /\ stored[k] = Busy
    BY <1>0, <2>2 DEF OrderTyped
  <2>4. PICK d \in Callers : Working(d) /\ Key(d) = k
    BY <2>3 DEF BusyInv
  <2>5. d # c
    BY <2>3, <2>4
  <2> QED
    BY <1>0, <1>1, <2>1, <2>4, <2>5 DEF Working, OrderTyped
<1> QED
  BY <1>3, <1>4, <1>5, <1>6, <1>7, <1>8 DEF OperationsNext

\* What c learns when it returns is what became of its order (errors.go:154-160).
Truthful(c) ==
  /\ op.method # "GET" /\ report'[c] \in Reasons => fate'[Key(c)] = report'[c]
  /\ op.method # "GET" /\ report'[c] = "conflict" =>
       \E d \in Callers : Key(d) = Key(c) /\ Working(d)
  /\ job[c] = "serving" /\ job'[c] = "closed" /\ fate'[Key(c)] \in Reasons
       => report'[c] = fate'[Key(c)]

\* A body never reads as a reason or as a conflict (types.go:25-30).
LEMMA BodiesAreNoErrors ==
  ASSUME OrderTyped, NEW b \in Body, NEW c \in Callers,
         call[c] = "waiting", Deliver(c, b)
  PROVE  report'[c] \notin Reasons \union {"conflict"}
<1>1. Decode(b) \in {"pending", "done", "nothing", "empty", "error"}
  BY DecodeReports
<1>2. report'[c] = Decode(b)
  BY DEF Deliver, Returns, OrderTyped
<1> QED
  BY <1>1, <1>2 DEF Reasons

\* An error answer is reported as what the application learns of it.
LEMMA ErrorsAreLearnt ==
  ASSUME OrderTyped, NEW c \in Callers, NEW a, call[c] = "waiting", DeliverError(c, a)
  PROVE  report'[c] = Learns(ParseApiError(a[1], a[2]))
BY DEF DeliverError, Returns, OrderTyped

\* A call that returns learns the truth, whichever step ends it.
LEMMA ReturnsTruth ==
  ASSUME OrderInv, BusyInv, NEW c \in Callers, call[c] = "waiting",
         \/ GiveUp(c) \/ AnswerRead(c) \/ TurnAway(c) \/ Conflict(c) \/ RetryConflicts(c)
         \/ Replay(c) \/ Refuse(c) \/ Respond(c)
  PROVE  Truthful(c)
<1>0. OrderTyped /\ Key(c) \in Keys
  BY KeyIsKey DEF OrderInv
<1> USE DEF Truthful
<1>1. CASE GiveUp(c)
  <2>1. report'[c] = "error"
    BY <1>0, <1>1, ByStatus DEF GiveUp, Returns, OrderTyped
  <2>2. job'[c] = job[c]
    BY <1>1 DEF GiveUp, serverVars
  <2> QED
    BY <2>1, <2>2 DEF Reasons
<1>2. CASE AnswerRead(c)
  BY <1>2 DEF AnswerRead
<1>3. CASE TurnAway(c)
  <2>1. PICK a \in AccessAnswers : DeliverError(c, a)
    BY <1>3 DEF TurnAway
  <2>2. report'[c] = "error"
    BY <1>0, <2>1, ErrorsAreLearnt, AccessTold
  <2> QED
    BY <1>3, <2>2 DEF TurnAway, Reasons
<1>4. CASE Conflict(c)
  <2>1. PICK a \in ConflictAnswers : DeliverError(c, a)
    BY <1>4 DEF Conflict
  <2>2. report'[c] = "conflict"
    BY <1>0, <2>1, ErrorsAreLearnt, ConflictTold
  <2>3. job[c] = "sent" /\ stored[Key(c)] = Busy
    BY <1>4 DEF Conflict
  <2> QED
    BY <1>0, <2>2, <2>3 DEF BusyInv, Reasons
<1>5. CASE RetryConflicts(c)
  <2>1. PICK a \in ConflictAnswers : Returns(c, Learns(ParseApiError(a[1], a[2])))
    BY <1>5 DEF RetryConflicts
  <2>2. report'[c] = "conflict"
    BY <1>0, <2>1, ConflictTold DEF Returns, OrderTyped
  <2>3. Working(c) /\ job'[c] = job[c]
    BY <1>5 DEF RetryConflicts, Working, serverVars
  <2> QED
    BY <2>2, <2>3 DEF Reasons, Working
<1>6. CASE Replay(c)
  <2>1. job[c] = "sent" /\ stored[Key(c)] \in Body /\ Deliver(c, stored[Key(c)])
    BY <1>6 DEF Replay
  <2> QED
    BY <1>0, <2>1, BodiesAreNoErrors
<1>7. CASE Refuse(c)
  <2>1. CASE \E r \in Reasons : /\ fate' = [fate EXCEPT ![Key(c)] = r]
                                /\ \E a \in RefusalAnswers(r) : DeliverError(c, a)
    <3>1. PICK r \in Reasons : /\ fate' = [fate EXCEPT ![Key(c)] = r]
                               /\ \E a \in RefusalAnswers(r) : DeliverError(c, a)
      BY <2>1
    <3>2. report'[c] = r
      BY <1>0, <3>1, ErrorsAreLearnt, RefusalTold
    <3>3. fate'[Key(c)] = r
      BY <1>0, <3>1 DEF OrderTyped
    <3> QED
      BY <3>1, <3>2, <3>3 DEF Reasons
  <2>2. CASE /\ fate' = [fate EXCEPT ![Key(c)] = "declined"]
             /\ Deliver(c, [shape |-> "refusal", says |-> "nothing"])
    <3>1. [shape |-> "refusal", says |-> "nothing"] \in Body
      BY DEF Body
    <3>2. fate'[Key(c)] \notin Reasons
      BY <1>0, <2>2 DEF OrderTyped, Reasons
    <3> QED
      BY <1>0, <2>2, <3>1, <3>2, BodiesAreNoErrors
  <2> QED
    BY <1>7, <2>1, <2>2 DEF Refuse
<1>8. CASE Respond(c)
  <2>1. job[c] = "performed" /\ fate[Key(c)] \in {"pending", "done"}
    BY <1>8 DEF Respond, OrderInv, WorkInv, Working
  <2>2. PICK s \in Shapes : Deliver(c, [shape |-> s, says |-> fate[Key(c)]])
    BY <1>8 DEF Respond
  <2>3. [shape |-> s, says |-> fate[Key(c)]] \in Body
    BY <2>1 DEF Shapes, Body
  <2> QED
    BY <1>0, <2>1, <2>2, <2>3, BodiesAreNoErrors
<1> QED
  BY <1>1, <1>2, <1>3, <1>4, <1>5, <1>6, <1>7, <1>8

\* A call returns by a step of its own.
LEMMA ReturnsItself ==
  ASSUME OrderInv, [OperationsNext]_operationVars, NEW c \in Callers,
         call[c] = "waiting", call'[c] = "returned"
  PROVE  \/ GiveUp(c) \/ AnswerRead(c) \/ TurnAway(c) \/ Conflict(c) \/ RetryConflicts(c)
         \/ Replay(c) \/ Refuse(c) \/ Respond(c)
<1>0. call \in [Callers -> {"idle", "waiting", "returned"}]
  BY DEF OrderInv, OrderTyped
<1>1. ~(UNCHANGED operationVars) /\ \A k \in Keys : ~Settle(k)
  BY DEF operationVars, Settle
<1>2. PICK d \in Callers :
        \/ Reject(d) \/ Submit(d) \/ GiveUp(d) \/ AnswerRead(d) \/ TurnAway(d)
        \/ Accept(d) \/ Conflict(d) \/ RetryConflicts(d) \/ Replay(d)
        \/ Refuse(d) \/ Perform(d) \/ Respond(d)
  BY <1>1 DEF OperationsNext
<1>3. ~Reject(d) /\ ~Submit(d) /\ ~Accept(d) /\ ~Perform(d)
  BY <1>0 DEF Reject, Submit, Accept, Perform, Returns
<1>4. \A e \in Callers \ {d} : call'[e] = call[e]
  BY <1>0, <1>2, <1>3
  DEF GiveUp, AnswerRead, TurnAway, Conflict, RetryConflicts, Replay, Refuse, Respond,
      Deliver, DeliverError, Returns
<1> QED
  BY <1>2, <1>3, <1>4

\* errors.Is tells the truth of an order, under every code and every spelling of it,
\* whatever the other calls and the settlement do (errors.go:154-160, 287-404).
THEOREM ErrorsTellTheTruth == OperationsSpec => ErrorTellsFate
<1> DEFINE Told ==
      \A c \in Callers : call[c] = "waiting" /\ call'[c] = "returned" => Truthful(c)
<1>1. OperationsInit => BusyInv
  BY DEF OperationsInit, BusyInv, NoBody, Busy
<1>2. OrderInv /\ BusyInv /\ [OperationsNext]_operationVars => Told
  BY ReturnsItself, ReturnsTruth
<1>3. Told =>
        \A c \in Callers : call[c] = "waiting" /\ call'[c] = "returned" =>
          /\ op.method # "GET" /\ report'[c] \in Reasons => fate'[Key(c)] = report'[c]
          /\ op.method # "GET" /\ report'[c] = "conflict" =>
               \E d \in Callers : Key(d) = Key(c) /\ job[d] \in {"serving", "performed"}
          /\ job[c] = "serving" /\ job'[c] = "closed" /\ fate'[Key(c)] \in Reasons
               => report'[c] = fate'[Key(c)]
  BY DEF Truthful, Working
<1> HIDE DEF Told
<1> QED
  BY <1>1, <1>2, <1>3, OrderInit, OrderNext, BusyNext, PTL DEF OperationsSpec, ErrorTellsFate

--------------------------------------------------------------------------------

\* What was executed or declined has its answer under the key, or soon will have
\* (idempotency.go:7-13).
FinalInv ==
  \A k \in Keys : fate[k] \in {"pending", "done", "failed", "declined"} =>
    stored[k] \in Body \/ \E c \in Callers : job[c] = "performed" /\ Key(c) = k

\* A call that has not returned has reported nothing (client.go:161).
SilentInv == \A c \in Callers : call[c] # "returned" => report[c] = "none"

\* An order that somebody is let in for was neither executed nor declined.
LEMMA ServedIsOpen ==
  ASSUME OrderInv, FinalInv, NEW c \in Callers, job[c] = "serving"
  PROVE  fate[Key(c)] \notin {"pending", "done", "failed", "declined"}
<1>0. OrderTyped /\ Key(c) \in Keys
  BY KeyIsKey DEF OrderInv
<1>1. stored[Key(c)] \notin Body
  BY NoBodyIsNone DEF OrderInv, WorkInv, Working
<1>2. \A d \in Callers : job[d] = "performed" => Key(d) # Key(c)
  BY DEF OrderInv, AloneInv, Working
<1> QED
  BY <1>0, <1>1, <1>2 DEF FinalInv

\* Every step keeps the answers of what was executed or declined.
LEMMA FinalNext == OrderInv /\ FinalInv /\ [OperationsNext]_operationVars => FinalInv'
<1> SUFFICES ASSUME OrderInv, FinalInv, [OperationsNext]_operationVars, NEW k \in Keys,
                    fate'[k] \in {"pending", "done", "failed", "declined"}
             PROVE  stored'[k] \in Body \/ \E c \in Callers : job'[c] = "performed" /\ Key(c)' = k
  BY DEF FinalInv, Body
<1> DEFINE Final == {"pending", "done", "failed", "declined"}
           Kept == stored'[k] \in Body \/ \E c \in Callers : job'[c] = "performed" /\ Key(c)' = k
<1>0. OrderTyped /\ \A c \in Callers : Key(c) \in Keys
  BY KeyIsKey DEF OrderInv
<1>1. UNCHANGED orderVars => \A c : Key(c)' = Key(c)
  BY SameOrder
<1>2. ASSUME UNCHANGED <<orderVars, stored>>, fate[k] \in Final,
             \A c \in Callers : job[c] = "performed" => job'[c] = "performed"
      PROVE  Kept
  BY <1>1, <1>2 DEF FinalInv
<1>3. CASE UNCHANGED operationVars
  BY <1>2, <1>3 DEF operationVars, serverVars
<1>4. ASSUME NEW j \in Keys, Settle(j) PROVE Kept
  <2>1. UNCHANGED <<orderVars, stored, job>>
    BY <1>4 DEF Settle
  <2>2. fate[k] \in Final
    BY <1>0, <1>4 DEF Settle, OrderTyped
  <2> QED
    BY <1>2, <2>1, <2>2
<1>5. ASSUME NEW c \in Callers,
             \/ Reject(c) \/ GiveUp(c) \/ RetryConflicts(c) \/ Submit(c)
             \/ AnswerRead(c) \/ TurnAway(c) \/ Conflict(c) \/ Replay(c)
      PROVE  Kept
  <2>1. UNCHANGED <<orderVars, stored, fate>>
    BY <1>5 DEF Reject, GiveUp, RetryConflicts, Submit, AnswerRead, TurnAway, Conflict,
                Replay, serverVars
  <2>2. \/ job' = job
        \/ job[c] # "performed" /\ \E j : job' = [job EXCEPT ![c] = j]
    BY <1>5 DEF Reject, GiveUp, RetryConflicts, Submit, AnswerRead, TurnAway, Conflict,
                Replay, serverVars, Deliver, DeliverError, OrderInv, IdleInv
  <2>3. \A d \in Callers : job[d] = "performed" => job'[d] = "performed"
    BY <1>0, <2>2 DEF OrderTyped
  <2> QED
    BY <1>2, <2>1, <2>3
<1>6. ASSUME NEW c \in Callers, Accept(c) PROVE Kept
  <2>1. /\ UNCHANGED <<orderVars, fate>> /\ job[c] = "sent"
        /\ job' = [job EXCEPT ![c] = "serving"]
        /\ stored[Key(c)] = NoBody /\ stored' = [stored EXCEPT ![Key(c)] = Busy]
    BY <1>0, <1>6, PostHasKey DEF Accept
  <2>2. \A d \in Callers : job[d] = "performed" => job'[d] = "performed"
    BY <1>0, <2>1 DEF OrderTyped
  <2>3. stored[k] \in Body => stored'[k] = stored[k]
    BY <1>0, <2>1, NoBodyIsNone DEF OrderTyped
  <2> QED
    BY <1>1, <2>1, <2>2, <2>3 DEF FinalInv
<1>7. ASSUME NEW c \in Callers, Perform(c) PROVE Kept
  <2>1. /\ UNCHANGED <<orderVars, stored>> /\ job' = [job EXCEPT ![c] = "performed"]
        /\ \E f : fate' = [fate EXCEPT ![Key(c)] = f]
    BY <1>7 DEF Perform
  <2>2. CASE k = Key(c)
    BY <1>0, <1>1, <2>1, <2>2 DEF OrderTyped
  <2>3. CASE k # Key(c)
    <3>1. fate[k] \in Final
      BY <1>0, <2>1, <2>3 DEF OrderTyped
    <3> QED
      BY <1>0, <1>2, <2>1, <3>1 DEF OrderTyped
  <2> QED
    BY <2>2, <2>3
<1>8. ASSUME NEW c \in Callers, Refuse(c) \/ Respond(c) PROVE Kept
  <2>1. /\ UNCHANGED orderVars
        /\ job' = [job EXCEPT ![c] = "closed"]
    BY <1>8 DEF Refuse, Respond, Deliver, DeliverError
  <2>2. \/ /\ \E r \in Reasons : fate' = [fate EXCEPT ![Key(c)] = r]
           /\ stored' = [stored EXCEPT ![Key(c)] = NoBody]
        \/ /\ fate' = fate \/ \E f : fate' = [fate EXCEPT ![Key(c)] = f]
           /\ \E b \in Body : stored' = [stored EXCEPT ![Key(c)] = b]
    <3>1. CASE Refuse(c)
      <4>1. [shape |-> "refusal", says |-> "nothing"] \in Body
        BY DEF Body
      <4> QED
        BY <3>1, <4>1 DEF Refuse
    <3>2. CASE Respond(c)
      <4>1. fate[Key(c)] \in {"pending", "done"}
        BY <3>2 DEF Respond, OrderInv, WorkInv, Working
      <4>2. \A s \in Shapes : [shape |-> s, says |-> fate[Key(c)]] \in Body
        BY <4>1 DEF Shapes, Body
      <4> QED
        BY <3>2, <4>2 DEF Respond
    <3> QED
      BY <1>8, <3>1, <3>2
  <2>3. CASE k = Key(c)
    BY <1>0, <2>2, <2>3 DEF OrderTyped, Reasons
  <2>4. CASE k # Key(c)
    <3>1. fate[k] \in Final /\ stored'[k] = stored[k]
      BY <1>0, <2>2, <2>4 DEF OrderTyped
    <3>2. \A d \in Callers : job[d] = "performed" /\ Key(d) = k => job'[d] = "performed"
      BY <1>0, <2>1, <2>4 DEF OrderTyped
    <3> QED
      BY <1>1, <2>1, <3>1, <3>2 DEF FinalInv
  <2> QED
    BY <2>3, <2>4
<1> QED
  BY <1>3, <1>4, <1>5, <1>6, <1>7, <1>8 DEF OperationsNext

\* A report is made in the step in which the call returns.
LEMMA SilentNext == OrderInv /\ SilentInv /\ [OperationsNext]_operationVars => SilentInv'
<1> SUFFICES ASSUME OrderInv, SilentInv, [OperationsNext]_operationVars
             PROVE  SilentInv'
  OBVIOUS
<1>0. OrderTyped
  BY DEF OrderInv
<1>1. \/ UNCHANGED <<call, report>>
      \/ \E c \in Callers : \E r : Returns(c, r)
      \/ \E c \in Callers : call' = [call EXCEPT ![c] = "waiting"] /\ call[c] = "idle" /\ UNCHANGED report
  <2>1. CASE UNCHANGED operationVars
    BY <2>1 DEF operationVars
  <2>2. CASE \E k \in Keys : Settle(k)
    BY <2>2 DEF Settle
  <2>3. ASSUME NEW c \in Callers,
               Reject(c) \/ GiveUp(c) \/ RetryConflicts(c) \/ AnswerRead(c) \/ TurnAway(c)
      PROVE  UNCHANGED <<call, report>> \/ \E r : Returns(c, r)
    BY <2>3 DEF Reject, GiveUp, RetryConflicts, AnswerRead, TurnAway, Deliver, DeliverError
  <2>4. ASSUME NEW c \in Callers, Conflict(c) \/ Replay(c) \/ Refuse(c) \/ Respond(c)
      PROVE  UNCHANGED <<call, report>> \/ \E r : Returns(c, r)
    BY <2>4 DEF Conflict, Replay, Refuse, Respond, Deliver, DeliverError
  <2>5. ASSUME NEW c \in Callers, Accept(c) \/ Perform(c) PROVE UNCHANGED <<call, report>>
    BY <2>5 DEF Accept, Perform
  <2>6. ASSUME NEW c \in Callers, Submit(c)
        PROVE  call' = [call EXCEPT ![c] = "waiting"] /\ call[c] = "idle" /\ UNCHANGED report
    BY <2>6 DEF Submit
  <2> QED
    BY <2>1, <2>2, <2>3, <2>4, <2>5, <2>6 DEF OperationsNext
<1>2. ASSUME NEW c \in Callers, NEW r, Returns(c, r) PROVE SilentInv'
  BY <1>0, <1>2 DEF Returns, SilentInv, OrderTyped
<1> QED
  BY <1>0, <1>1, <1>2 DEF SilentInv, OrderTyped

--------------------------------------------------------------------------------

\* Where the ledger does not see a step.
LEMMA LedgerRests ==
  ASSUME UNCHANGED <<orderVars, fate, effects, report>>
  PROVE  UNCHANGED Ledger!ledgerVars
BY SameOrder DEF Ledger!ledgerVars, Says, Keys, orderVars, InLedger

\* A call that reports what the ledger says is told it.
LEMMA LedgerTells ==
  ASSUME OrderTyped, SilentInv, UNCHANGED <<orderVars, fate, effects>>,
         NEW c \in Callers, call[c] # "returned", NEW r, r # "none",
         report' = [report EXCEPT ![c] = r],
         Says(r) \in Ledger!MayBeTold(InLedger(fate[Key(c)]))
  PROVE  Ledger!Tell(c)
<1> DEFINE told == [d \in Callers |-> Says(report[d])]
<1>1. told[c] = "nothing"
  BY DEF SilentInv, Says
<1>2. \A x : Says(x)' = Says(x)
  BY DEF Says, orderVars
<1>3. told' = [told EXCEPT ![c] = Says(r)]
  BY <1>2 DEF OrderTyped
<1>4. Says(r) \in Ledger!MayBeTold([k \in Keys |-> InLedger(fate[k])][[d \in Callers |-> Key(d)][c]])
  BY KeyIsKey
<1>5. /\ [d \in Callers |-> Key(d)]' = [d \in Callers |-> Key(d)]
      /\ [k \in Keys |-> InLedger(fate[k])]' = [k \in Keys |-> InLedger(fate[k])]
  BY SameOrder DEF Keys, InLedger
<1> HIDE DEF told
<1> QED
  BY <1>1, <1>3, <1>4, <1>5 DEF Ledger!Tell, told

\* What a body or an answer lets a method report is in the ledger: a replay reports
\* what was executed, a fresh answer too (cashin.go:85-101, cards.go:310-316, 386-391).
LEMMA BodySays ==
  ASSUME OrderInv, NEW c \in Callers, NEW b \in Body,
         \/ op.method = "GET"
         \/ IF b.shape = "refusal"
              THEN op.decode \in MayBeRefusedWith2xx /\ b.says = "nothing"
              ELSE Agrees(b.says, fate[Key(c)])
  PROVE  /\ Decode(b) # "none"
         /\ Says(Decode(b)) \in Ledger!MayBeTold(InLedger(fate[Key(c)]))
<1>1. Decode(b) \in {"pending", "done", "nothing", "empty", "error"} /\ op.decode \in Decoders
  BY DecodeReports, PostHasKey DEF OrderInv, Wellformed
<1>2. CASE op.method = "GET"
  BY <1>1, <1>2 DEF Says, Ledger!MayBeTold
<1>3. CASE op.method # "GET" /\ b.shape = "refusal"
  <2>1. op.decode \in MayBeRefusedWith2xx
    BY <1>3
  <2>2. Decode(b) \in {"error", "empty"}
    BY <1>3, <2>1, DecodeByName
    DEF MayBeRefusedWith2xx, Enveloped, DecodeStrict, DecodeEnvelope, DecodeList,
        DecodeCardCreate
  <2> QED
    BY <2>2 DEF Says, Ledger!MayBeTold, Reasons
<1>4. CASE op.method # "GET" /\ b.shape # "refusal"
  <2>1. Agrees(b.says, fate[Key(c)])
    BY <1>4
  <2>2. Decode(b) = b.says
    BY <1>1, <1>4, <2>1, DecodeByName
    DEF Decoders, Agrees, DecodeStrict, DecodeEnvelope, DecodeList, DecodeDirect,
        DecodeCardCreate, DecodeCardMove
  <2>3. Says(b.says) = b.says
    BY <1>4, <2>1 DEF Says, Agrees
  <2>4. InLedger(fate[Key(c)]) = fate[Key(c)]
    BY <2>1 DEF InLedger, Agrees, Reasons
  <2> QED
    BY <2>1, <2>2, <2>3, <2>4 DEF Ledger!MayBeTold, Ledger!Executed, Agrees
<1> QED
  BY <1>2, <1>3, <1>4

\* Steps that leave the fates alone tell somebody, or are not seen.
LEMMA LedgerQuiet ==
  ASSUME OrderInv, SilentInv, NEW c \in Callers,
         \/ Reject(c) \/ Submit(c) \/ GiveUp(c) \/ AnswerRead(c) \/ TurnAway(c) \/ Accept(c)
         \/ Conflict(c) \/ RetryConflicts(c) \/ Replay(c) \/ Respond(c)
  PROVE  Ledger!Tell(c) \/ UNCHANGED Ledger!ledgerVars
<1>0. OrderTyped
  BY DEF OrderInv
<1>1. UNCHANGED <<orderVars, fate, effects>>
  BY DEF Reject, Submit, GiveUp, AnswerRead, TurnAway, Accept, Conflict, RetryConflicts,
         Replay, Respond, serverVars
<1>2. ASSUME \/ UNCHANGED report
             \/ \E r : /\ call[c] # "returned" /\ Returns(c, r)
                       /\ r \in {"error", "invalid", "conflict"} \/ (op.method = "GET" /\ r # "none")
      PROVE  Ledger!Tell(c) \/ UNCHANGED Ledger!ledgerVars
  <2>1. \A r : r \in {"error", "invalid", "conflict"} \/ (op.method = "GET" /\ r # "none")
          => r # "none" /\ Says(r) \in Ledger!MayBeTold(InLedger(fate[Key(c)]))
    BY DEF Says, Ledger!MayBeTold, Reasons
  <2>2. CASE UNCHANGED report
    BY <1>1, <2>2, LedgerRests
  <2>3. CASE ~ UNCHANGED report
    <3>1. PICK r : /\ call[c] # "returned" /\ Returns(c, r)
                   /\ r \in {"error", "invalid", "conflict"} \/ (op.method = "GET" /\ r # "none")
      BY <1>2, <2>3
    <3>2. r # "none" /\ Says(r) \in Ledger!MayBeTold(InLedger(fate[Key(c)]))
      BY <2>1, <3>1
    <3>3. report' = [report EXCEPT ![c] = r]
      BY <3>1 DEF Returns
    <3> QED
      BY <1>0, <1>1, <3>1, <3>2, <3>3, LedgerTells
  <2> QED
    BY <2>2, <2>3
<1>3. ASSUME NEW b \in Body, Deliver(c, b),
             \/ op.method = "GET"
             \/ IF b.shape = "refusal"
                  THEN op.decode \in MayBeRefusedWith2xx /\ b.says = "nothing"
                  ELSE Agrees(b.says, fate[Key(c)])
      PROVE  Ledger!Tell(c) \/ UNCHANGED Ledger!ledgerVars
  <2>1. CASE call[c] = "waiting"
    <3>1. Returns(c, Decode(b))
      BY <1>3, <2>1 DEF Deliver
    <3>2. Decode(b) # "none" /\ Says(Decode(b)) \in Ledger!MayBeTold(InLedger(fate[Key(c)]))
      BY <1>3, BodySays
    <3> QED
      BY <1>0, <1>1, <2>1, <3>1, <3>2, LedgerTells DEF Returns
  <2>2. CASE call[c] # "waiting"
    BY <1>1, <1>3, <2>2, LedgerRests DEF Deliver
  <2> QED
    BY <2>1, <2>2
<1>4. CASE Reject(c) \/ Submit(c) \/ Accept(c)
  BY <1>2, <1>4 DEF Reject, Submit, Accept
<1>5. CASE GiveUp(c)
  BY <1>2, <1>5, ByStatus DEF GiveUp
<1>6. CASE AnswerRead(c)
  <2>1. op.method = "GET"
    BY <1>6 DEF AnswerRead
  <2>2. \A s \in Shapes \union {"refusal"} : [shape |-> s, says |-> "nothing"] \in Body
    BY DEF Shapes, Body
  <2>3. CASE \E a : DeliverError(c, a)
    BY <1>2, <2>1, <2>3, LearnsReason DEF DeliverError
  <2>4. CASE \E b \in Body : Deliver(c, b)
    BY <1>3, <2>1, <2>4
  <2> QED
    BY <1>6, <2>2, <2>3, <2>4 DEF AnswerRead
<1>7. CASE TurnAway(c) \/ Conflict(c)
  <2>1. \E a \in AccessAnswers \union ConflictAnswers : DeliverError(c, a)
    BY <1>7 DEF TurnAway, Conflict
  <2> QED
    BY <1>2, <2>1, AccessTold, ConflictTold DEF DeliverError
<1>8. CASE RetryConflicts(c)
  BY <1>2, <1>8, ConflictTold DEF RetryConflicts
<1>9. CASE Replay(c)
  <2>1. stored[Key(c)] \in Body /\ Deliver(c, stored[Key(c)])
    BY <1>9 DEF Replay
  <2>2. IF stored[Key(c)].shape = "refusal"
          THEN op.decode \in MayBeRefusedWith2xx /\ stored[Key(c)].says = "nothing"
          ELSE Agrees(stored[Key(c)].says, fate[Key(c)])
    BY <1>0, <2>1, KeyIsKey DEF OrderInv, StoredInv
  <2> QED
    BY <1>3, <2>1, <2>2
<1>10. CASE Respond(c)
  <2>1. fate[Key(c)] \in {"pending", "done"}
    BY <1>10 DEF Respond, OrderInv, WorkInv, Working
  <2>2. PICK s \in Shapes : Deliver(c, [shape |-> s, says |-> fate[Key(c)]])
    BY <1>10 DEF Respond
  <2>3. [shape |-> s, says |-> fate[Key(c)]] \in Body /\ s # "refusal"
    BY <2>1 DEF Shapes, Body
  <2>4. Agrees(fate[Key(c)], fate[Key(c)])
    BY <2>1 DEF Agrees
  <2> QED
    BY <1>3, <2>2, <2>3, <2>4
<1> QED
  BY <1>4, <1>5, <1>6, <1>7, <1>8, <1>9, <1>10

\* The fates as the ledger has them, after one of them changes.
LEMMA LedgerWrites ==
  ASSUME OrderTyped, NEW k \in Keys, NEW f, UNCHANGED orderVars,
         fate' = [fate EXCEPT ![k] = f]
  PROVE  [j \in Keys |-> InLedger(fate[j])]'
           = [[j \in Keys |-> InLedger(fate[j])] EXCEPT ![k] = InLedger(f)]
BY DEF OrderTyped, InLedger, Keys, orderVars

\* The server performs an order: the ledger executes one that is open.
LEMMA LedgerExecutes ==
  ASSUME OrderInv, FinalInv, NEW c \in Callers, Perform(c)
  PROVE  Ledger!Execute(Key(c))
<1>0. OrderTyped /\ Key(c) \in Keys
  BY KeyIsKey DEF OrderInv
<1>1. fate[Key(c)] \notin {"pending", "done", "failed", "declined"}
  BY ServedIsOpen DEF Perform
<1>2. InLedger(fate[Key(c)]) \in {"open", "refused"}
  BY <1>0, <1>1 DEF InLedger, OrderTyped
<1>3. PICK f \in {"pending", "done"} : fate' = [fate EXCEPT ![Key(c)] = f]
  BY DEF Perform
<1>4. InLedger(f) = f
  BY DEF InLedger, Reasons
<1>5. UNCHANGED <<orderVars, report>> /\ effects' = effects + 1
  BY DEF Perform
<1>6. /\ [d \in Callers |-> Key(d)]' = [d \in Callers |-> Key(d)]
      /\ [d \in Callers |-> Says(report[d])]' = [d \in Callers |-> Says(report[d])]
  BY <1>5, SameOrder DEF Says, orderVars
<1>7. [j \in Keys |-> InLedger(fate[j])]'
        = [[j \in Keys |-> InLedger(fate[j])] EXCEPT ![Key(c)] = f]
  BY <1>0, <1>3, <1>4, <1>5, LedgerWrites
<1> QED
  BY <1>0, <1>2, <1>5, <1>6, <1>7 DEF Ledger!Execute, Ledger!Open

\* The server settles a pending order: the ledger does.
LEMMA LedgerSettles ==
  ASSUME OrderInv, NEW k \in Keys, Settle(k)
  PROVE  Ledger!Settle(k)
<1>0. OrderTyped
  BY DEF OrderInv
<1>1. PICK f \in {"done", "failed"} : fate' = [fate EXCEPT ![k] = f]
  BY DEF Settle
<1>2. InLedger(f) = f /\ InLedger(fate[k]) = "pending"
  BY DEF InLedger, Reasons, Settle
<1>3. UNCHANGED <<orderVars, report, effects>>
  BY DEF Settle
<1>4. /\ [d \in Callers |-> Key(d)]' = [d \in Callers |-> Key(d)]
      /\ [d \in Callers |-> Says(report[d])]' = [d \in Callers |-> Says(report[d])]
  BY <1>3, SameOrder DEF Says, orderVars
<1>5. [j \in Keys |-> InLedger(fate[j])]'
        = [[j \in Keys |-> InLedger(fate[j])] EXCEPT ![k] = f]
  BY <1>0, <1>1, <1>2, <1>3, LedgerWrites
<1> QED
  BY <1>2, <1>3, <1>4, <1>5 DEF Ledger!Settle

\* The server refuses an order, and its caller is told so unless it has given up.
LEMMA LedgerRefuses ==
  ASSUME OrderInv, FinalInv, SilentInv, NEW c \in Callers, Refuse(c)
  PROVE  Ledger!Refuse(c)
<1>0. OrderTyped /\ Key(c) \in Keys
  BY KeyIsKey DEF OrderInv
<1>1. fate[Key(c)] \notin {"pending", "done", "failed", "declined"}
  BY ServedIsOpen DEF Refuse
<1>2. InLedger(fate[Key(c)]) \in {"open", "refused"}
  BY <1>0, <1>1 DEF InLedger, OrderTyped
<1>3. UNCHANGED <<orderVars, effects>>
  BY DEF Refuse
<1> DEFINE b == [shape |-> "refusal", says |-> "nothing"]
           told == [d \in Callers |-> Says(report[d])]
<1>4. PICK f \in Reasons \union {"declined"} :
        /\ fate' = [fate EXCEPT ![Key(c)] = f]
        /\ \/ UNCHANGED report
           \/ \E r : /\ call[c] = "waiting" /\ report' = [report EXCEPT ![c] = r]
                     /\ r # "none" /\ Says(r) \in Ledger!MayBeTold(InLedger(f))
  <2>1. ASSUME NEW r \in Reasons, fate' = [fate EXCEPT ![Key(c)] = r],
               NEW a \in RefusalAnswers(r), DeliverError(c, a)
        PROVE  UNCHANGED report \/ (call[c] = "waiting" /\ report' = [report EXCEPT ![c] = r])
    BY <2>1, RefusalTold DEF DeliverError, Returns
  <2>2. ASSUME NEW r \in Reasons
        PROVE  r # "none" /\ Says(r) \in Ledger!MayBeTold(InLedger(r))
    BY <2>2 DEF Says, Ledger!MayBeTold, InLedger, Reasons
  <2>3. CASE /\ op.decode \in MayBeRefusedWith2xx
             /\ fate' = [fate EXCEPT ![Key(c)] = "declined"] /\ Deliver(c, b)
    <3>1. b \in Body /\ b.shape = "refusal"
      BY DEF Body
    <3>2. Decode(b) \in {"error", "empty"}
      BY <2>3, <3>1, DecodeByName
      DEF MayBeRefusedWith2xx, Enveloped, DecodeStrict, DecodeEnvelope, DecodeList,
          DecodeCardCreate
    <3>3. Decode(b) # "none" /\ Says(Decode(b)) \in Ledger!MayBeTold(InLedger("declined"))
      BY <3>2 DEF Says, Ledger!MayBeTold, Reasons
    <3>4. UNCHANGED report \/ (call[c] = "waiting" /\ report' = [report EXCEPT ![c] = Decode(b)])
      BY <2>3 DEF Deliver, Returns
    <3> HIDE DEF b
    <3> QED
      BY <2>3, <3>3, <3>4
  <2> QED
    BY <2>1, <2>2, <2>3 DEF Refuse
<1>5. InLedger(f) \in {"refused", "declined"}
  BY DEF InLedger, Reasons
<1>6. [d \in Callers |-> Key(d)]' = [d \in Callers |-> Key(d)]
  BY <1>3, SameOrder
<1>7. [j \in Keys |-> InLedger(fate[j])]'
        = [[j \in Keys |-> InLedger(fate[j])] EXCEPT ![Key(c)] = InLedger(f)]
  BY <1>0, <1>3, <1>4, LedgerWrites
<1>8. \/ told' = told
      \/ /\ told[c] = "nothing"
         /\ \E t \in Ledger!MayBeTold(InLedger(f)) : told' = [told EXCEPT ![c] = t]
  <2>1. CASE UNCHANGED report
    BY <1>3, <2>1 DEF Says, orderVars
  <2>2. ASSUME NEW r, call[c] = "waiting", report' = [report EXCEPT ![c] = r], r # "none",
               Says(r) \in Ledger!MayBeTold(InLedger(f))
        PROVE  /\ told[c] = "nothing"
               /\ \E t \in Ledger!MayBeTold(InLedger(f)) : told' = [told EXCEPT ![c] = t]
    <3>1. told[c] = "nothing"
      BY <2>2 DEF SilentInv, Says
    <3>2. told' = [told EXCEPT ![c] = Says(r)]
      BY <1>0, <1>3, <2>2 DEF OrderTyped, Says, orderVars
    <3> QED
      BY <2>2, <3>1, <3>2
  <2> QED
    BY <1>4, <2>1, <2>2
<1>9. [j \in Keys |-> InLedger(fate[j])][[d \in Callers |-> Key(d)][c]] \in {"open", "refused"}
  BY <1>0, <1>2
<1>10. [d \in Callers |-> Key(d)][c] = Key(c)
  OBVIOUS
<1> HIDE DEF told
<1> QED
  BY <1>3, <1>5, <1>6, <1>7, <1>8, <1>9, <1>10 DEF Ledger!Refuse, Ledger!Open, told

\* Every behaviour of the methods, the goroutines and the server is one of the ledger:
\* an order under a key is executed at most once and its fate only settles, and what
\* a method returns is what the ledger says (idempotency.go:7-13, cashin.go:85-101).
THEOREM OperationsImplementLedger == OperationsSpec => ImplementsLedger
<1>1. OperationsInit => Ledger!LedgerInit /\ FinalInv /\ SilentInv
  <2> SUFFICES ASSUME OperationsInit PROVE Ledger!LedgerInit /\ FinalInv /\ SilentInv
    OBVIOUS
  <2>1. [c \in Callers |-> Key(c)] \in [Callers -> Keys]
    BY DEF Key, Keys
  <2>2. [k \in Keys |-> InLedger(fate[k])] = [k \in Keys |-> "open"]
    BY DEF OperationsInit, InLedger
  <2>3. [c \in Callers |-> Says(report[c])] = [c \in Callers |-> "nothing"]
    BY DEF OperationsInit, Says
  <2> QED
    BY <2>1, <2>2, <2>3 DEF OperationsInit, Ledger!LedgerInit, FinalInv, SilentInv
<1>2. OrderInv /\ FinalInv /\ SilentInv /\ [OperationsNext]_operationVars
        => [Ledger!LedgerNext]_(Ledger!ledgerVars)
  <2> SUFFICES ASSUME OrderInv, FinalInv, SilentInv, [OperationsNext]_operationVars
               PROVE  Ledger!LedgerNext \/ UNCHANGED Ledger!ledgerVars
    OBVIOUS
  <2>1. CASE UNCHANGED operationVars
    BY <2>1, LedgerRests DEF operationVars, serverVars
  <2>2. ASSUME NEW k \in Keys, Settle(k) PROVE Ledger!LedgerNext
    BY <2>2, LedgerSettles DEF Ledger!LedgerNext
  <2>3. ASSUME NEW c \in Callers, Perform(c) PROVE Ledger!LedgerNext
    BY <2>3, LedgerExecutes, KeyIsKey DEF Ledger!LedgerNext, OrderInv
  <2>4. ASSUME NEW c \in Callers, Refuse(c) PROVE Ledger!LedgerNext
    BY <2>4, LedgerRefuses DEF Ledger!LedgerNext
  <2>5. ASSUME NEW c \in Callers,
               \/ Reject(c) \/ Submit(c) \/ GiveUp(c) \/ AnswerRead(c) \/ TurnAway(c)
               \/ Accept(c) \/ Conflict(c) \/ RetryConflicts(c) \/ Replay(c) \/ Respond(c)
        PROVE  Ledger!LedgerNext \/ UNCHANGED Ledger!ledgerVars
    BY <2>5, LedgerQuiet DEF Ledger!LedgerNext
  <2> QED
    BY <2>1, <2>2, <2>3, <2>4, <2>5 DEF OperationsNext
<1> QED
  BY <1>1, <1>2, OrderInit, OrderNext, FinalNext, SilentNext, PTL
  DEF OperationsSpec, ImplementsLedger, Ledger!LedgerSpec

--------------------------------------------------------------------------------

\* The orders that were executed.
ExecutedOrders == {k \in Keys : fate[k] \in {"pending", "done", "failed"}}

\* There are finitely many orders.
LEMMA FiniteOrders == \A S \in SUBSET Keys : IsFiniteSet(S) /\ Cardinality(S) \in Nat
BY OperationsAssumption, FS_AddElement, FS_Subset, FS_CardinalityType DEF Keys

\* The executions are exactly the orders executed: none is executed twice, none is lost
\* in a replay, a conflict, a late arrival or a settlement, and none is counted that was
\* refused (idempotency.go:7-13, middleware.go:253-270).
THEOREM EffectsCountOrders ==
  OperationsSpec => [](effects = Cardinality(ExecutedOrders))
<1> DEFINE Counted == effects = Cardinality(ExecutedOrders)
<1>1. OperationsInit => FinalInv /\ Counted
  <2> SUFFICES ASSUME OperationsInit PROVE FinalInv /\ Counted
    OBVIOUS
  <2>1. ExecutedOrders = {}
    BY DEF OperationsInit, ExecutedOrders
  <2> QED
    BY <2>1, FS_EmptySet DEF OperationsInit, FinalInv
<1>2. OrderInv /\ FinalInv /\ Counted /\ [OperationsNext]_operationVars => Counted'
  <2> SUFFICES ASSUME OrderInv, FinalInv, Counted, [OperationsNext]_operationVars
               PROVE  Counted'
    OBVIOUS
  <2>0. OrderTyped /\ \A c \in Callers : Key(c) \in Keys
    BY KeyIsKey DEF OrderInv
  <2>1. UNCHANGED effects /\ ExecutedOrders' = ExecutedOrders => Counted'
    OBVIOUS
  <2>2. UNCHANGED <<fate, effects>> => Counted'
    BY <2>1 DEF ExecutedOrders, Keys
  <2>3. CASE UNCHANGED operationVars
    BY <2>2, <2>3 DEF operationVars, serverVars
  <2>4. ASSUME NEW k \in Keys, Settle(k) PROVE Counted'
    <3>1. ExecutedOrders' = ExecutedOrders
      BY <2>0, <2>4 DEF Settle, ExecutedOrders, OrderTyped, Keys
    <3> QED
      BY <2>1, <2>4, <3>1 DEF Settle
  <2>5. ASSUME NEW c \in Callers, Perform(c) PROVE Counted'
    <3>1. Key(c) \notin ExecutedOrders
      BY <2>5, ServedIsOpen DEF Perform, ExecutedOrders
    <3>2. ExecutedOrders' = ExecutedOrders \union {Key(c)}
      BY <2>0, <2>5 DEF Perform, ExecutedOrders, OrderTyped, Keys
    <3>3. ExecutedOrders \in SUBSET Keys
      BY DEF ExecutedOrders
    <3>4. effects' = effects + 1
      BY <2>5 DEF Perform
    <3> QED
      BY <3>1, <3>2, <3>3, <3>4, FiniteOrders, FS_AddElement
  <2>6. ASSUME NEW c \in Callers, Refuse(c) PROVE Counted'
    <3>1. Key(c) \notin ExecutedOrders
      BY <2>6, ServedIsOpen DEF Refuse, ExecutedOrders
    <3>2. \E f : f \notin {"pending", "done", "failed"} /\ fate' = [fate EXCEPT ![Key(c)] = f]
      BY <2>6 DEF Refuse, Reasons
    <3>3. ExecutedOrders' = ExecutedOrders
      BY <2>0, <3>1, <3>2 DEF ExecutedOrders, OrderTyped, Keys
    <3> QED
      BY <2>1, <2>6, <3>3 DEF Refuse
  <2>7. ASSUME NEW c \in Callers,
               \/ Reject(c) \/ Submit(c) \/ GiveUp(c) \/ AnswerRead(c) \/ TurnAway(c)
               \/ Accept(c) \/ Conflict(c) \/ RetryConflicts(c) \/ Replay(c) \/ Respond(c)
        PROVE  Counted'
    BY <2>2, <2>7 DEF Reject, Submit, GiveUp, AnswerRead, TurnAway, Accept, Conflict,
                      RetryConflicts, Replay, Respond, serverVars
  <2> QED
    BY <2>3, <2>4, <2>5, <2>6, <2>7 DEF OperationsNext
<1> QED
  BY <1>1, <1>2, OrderInit, OrderNext, FinalNext, PTL DEF OperationsSpec

=================================================================================
