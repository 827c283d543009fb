------------------------------- MODULE Operations -------------------------------
(***************************************************************************)
(* The service methods of the SDK (cashin.go, cashout.go, cards.go, ...).    *)
(* They all check their parameters, send one request and decode its 2xx     *)
(* body; they differ in the method, in what they check and in the decoder,  *)
(* which the tables below record.                                          *)
(*                                                                         *)
(* One order of the application is submitted by several goroutines, at once *)
(* or after one another: a retry of the application.  It has either one key *)
(* of WithIdempotencyKey for all of them, or a fresh one per call.          *)
(*                                                                         *)
(* A call goes through the RequestPipeline, of which only the outcome is     *)
(* kept here: the call gives up with an error at any moment while its       *)
(* request may still be on its way, or gets an answer; ErrorModel is what    *)
(* becomes of one that is not 2xx.  The server is external: it replays the   *)
(* 2xx answer of a known key, says request_in_progress for a key at work,    *)
(* refuses for a reason, and settles pending orders later.                  *)
(***************************************************************************)
EXTENDS ErrorModel, FiniteSets

CONSTANTS Callers        \* goroutines that submit the order

ASSUME OperationsAssumption == IsFiniteSet(Callers) /\ "order" \notin Callers

VARIABLES op,        \* the operation ordered
          legal,     \* its parameters pass the checks of the SDK
          keyed,     \* it has a key of the application
          call,      \* where each goroutine is
          report,    \* what its call returned
          job,       \* server: how far each request got
          stored,    \* server: the 2xx body under each key, Busy or NoBody
          fate,      \* server: what became of the order under each key
          effects    \* server: how often the order was executed

orderVars == <<op, legal, keyed>>
serverVars == <<job, stored, fate, effects>>
operationVars == <<orderVars, call, report, serverVars>>

---------------------------------------------------------------------------------

\* method, does the SDK check parameters, how is the body decoded, and may the
\* server answer that the order is pending.
Op(name, method, checked, decode, async) ==
  [name |-> name, method |-> method, checked |-> checked, decode |-> decode, async |-> async]

Read(name, checked, decode) == Op(name, "GET", checked, decode, FALSE)
Post(name, checked, decode) == Op(name, "POST", checked, decode, FALSE)

CashInMobileMoney  == Op("CashIn.MobileMoney", "POST", TRUE, "strict", TRUE)
CashOutMobileMoney == Op("CashOut.MobileMoney", "POST", TRUE, "strict", TRUE)

TransactionsOps ==
  {Read("Transactions.Status", TRUE, "envelope"), Read("Transactions.Get", TRUE, "envelope"),
   Read("Transactions.List", TRUE, "direct")}
TransactionsRefund == Op("Transactions.Refund", "POST", TRUE, "envelope", TRUE)

WalletOps == {Read("Wallet.Balance", FALSE, "envelope"), Read("Wallet.Movements", FALSE, "direct")}
FeesList == Read("Fees.List", FALSE, "direct")

AirtimeOps ==
  {Post("Airtime.Recharge", TRUE, "envelope"), Post("Airtime.Batch", TRUE, "envelope"),
   Read("Airtime.Offers", FALSE, "list")}
DataOps == {Read("Data.Packages", FALSE, "list"), Post("Data.Send", TRUE, "envelope")}

EneoOps ==
  {Read("Eneo.Invoice", TRUE, "envelope"), Post("Eneo.Prepaid", TRUE, "envelope"),
   Post("Eneo.Postpaid", TRUE, "envelope")}
CamwaterOps ==
  {Read("Camwater.Invoice", TRUE, "envelope"), Post("Camwater.Pay", TRUE, "envelope")}
CanalPlusPay == Post("CanalPlus.Pay", TRUE, "envelope")
CustomsOps == {Read("Customs.Get", TRUE, "envelope"), Post("Customs.Pay", TRUE, "envelope")}

CommissionsOps ==
  {Read("Commissions.Rates", FALSE, "list"), Read("Commissions.History", FALSE, "list"),
   Read("Commissions.Summary", FALSE, "envelope")}
PayrollOps ==
  {Post("Payroll.Import", TRUE, "envelope"), Read("Payroll.Status", TRUE, "envelope"),
   Read("Payroll.Report", TRUE, "envelope"), Read("Payroll.List", FALSE, "direct")}
PayrollExecute == Op("Payroll.Execute", "POST", TRUE, "envelope", TRUE)
AnalyticsOps ==
  {Read("Analytics.Summary", FALSE, "envelope"), Read("Analytics.Transactions", FALSE, "envelope"),
   Read("Analytics.Revenue", FALSE, "envelope")}
PaymentLinksOps ==
  {Post("PaymentLinks.Create", TRUE, "envelope"), Read("PaymentLinks.List", FALSE, "direct")}
WebhooksEvents == Read("Webhooks.Events", FALSE, "list")

CardCustomersOps ==
  {Post("CardCustomers.Create", TRUE, "direct"), Read("CardCustomers.List", FALSE, "direct"),
   Read("CardCustomers.Get", TRUE, "direct"), Read("CardCustomers.Cards", TRUE, "direct"),
   Read("CardCustomers.Transactions", TRUE, "direct")}
CardWalletOps ==
  {Read("CardWallet.Get", FALSE, "direct"), Read("CardWallet.Quote", TRUE, "direct"),
   Post("CardWallet.Fund", TRUE, "direct"), Post("CardWallet.Withdraw", TRUE, "direct"),
   Read("CardWallet.Pricing", FALSE, "direct")}
VirtualCardsCreate == Op("VirtualCards.Create", "POST", TRUE, "cardCreate", TRUE)
VirtualCardsMoves ==
  {Op("VirtualCards.Topup", "POST", TRUE, "cardMove", TRUE),
   Op("VirtualCards.Withdraw", "POST", TRUE, "cardMove", TRUE)}
VirtualCardsReads ==
  {Read("VirtualCards.List", FALSE, "direct"), Read("VirtualCards.Get", TRUE, "direct"),
   Read("VirtualCards.Transactions", TRUE, "direct")}
VirtualCardsActions ==
  {Post("VirtualCards.Freeze", TRUE, "direct"), Post("VirtualCards.Unfreeze", TRUE, "direct"),
   Post("VirtualCards.Terminate", TRUE, "direct"), Post("VirtualCards.Cancel", TRUE, "direct")}

Operations ==
  {CashInMobileMoney, CashOutMobileMoney, TransactionsRefund, FeesList, CanalPlusPay,
   PayrollExecute, WebhooksEvents, VirtualCardsCreate}
    \union TransactionsOps \union WalletOps \union AirtimeOps \union DataOps \union EneoOps
    \union CamwaterOps \union CustomsOps \union CommissionsOps \union PayrollOps
    \union AnalyticsOps \union PaymentLinksOps \union CardCustomersOps \union CardWalletOps
    \union VirtualCardsMoves \union VirtualCardsReads \union VirtualCardsActions

---------------------------------------------------------------------------------

\* A 2xx body: what it says of the order (none for a read or a refusal), bare
\* or inside {"success": true, "data": ...}, or {"success": false}.
Body == [shape : {"wrapped", "bare", "refusal"}, says : {"pending", "done", "nothing"}]
NoBody == [shape |-> "none", says |-> "nothing"]
Busy   == [shape |-> "busy", says |-> "nothing"]

\* Only operations that look for an envelope are sent one; they and the creation
\* of a card reckon with a 2xx that lacks the result.
Enveloped == {"strict", "envelope", "list"}
MayBeRefusedWith2xx == Enveloped \union {"cardCreate"}

\* Mutant: a Transaction without a reference is no error.
LenientDecodeStrict(b) == IF b.shape = "refusal" THEN "empty" ELSE b.says

\* The body of a refusal decodes into the zero value, which lacks the reference.
DecodeStrict(b) == IF b.shape = "refusal" THEN "error" ELSE b.says

\* Mutant: what is returned is the envelope, not its data.
RawDecodeEnvelope(b) == b.shape

\* ... and here it is returned with no error.
DecodeEnvelope(b) == IF b.shape = "refusal" THEN "empty" ELSE b.says

\* An object is no list.
DecodeList(b) == IF b.shape = "refusal" THEN "error" ELSE b.says

DecodeDirect(b) == b.says

\* A card, or else status PENDING, or else an UnknownError.
DecodeCardCreate(b) == IF b.shape = "refusal" THEN "error" ELSE b.says

\* Mutant: the status of the 202 shape is not looked at.
BlindDecodeCardMove(b) == "done"

DecodeCardMove(b) == IF b.says = "pending" THEN "pending" ELSE "done"

Decode(b) ==
  [strict     |-> DecodeStrict(b),
   envelope   |-> DecodeEnvelope(b),
   list       |-> DecodeList(b),
   direct     |-> DecodeDirect(b),
   cardCreate |-> DecodeCardCreate(b),
   cardMove   |-> DecodeCardMove(b)][op.decode]

\* Mutant: a POST has no key.
PutHasKey == op.method \in {"PUT", "PATCH"}

HasKey == op.method \in {"POST", "PUT", "PATCH"}

\* The application's key, or the one of the caller's own call.
Key(c) == IF keyed THEN "order" ELSE c
Keys == Callers \union {"order"}

\* Why the server refuses an order with an error status.
Reasons == {"refused", "noFunds", "noCardFunds"}

Reports == {"none", "invalid", "error", "pending", "done", "nothing", "empty", "conflict"}
             \union Reasons

OperationsTypeOK ==
  /\ op \in Operations
  /\ legal \in BOOLEAN /\ keyed \in BOOLEAN
  /\ call \in [Callers -> {"idle", "waiting", "returned"}]
  /\ report \in [Callers -> Reports]
  /\ job \in [Callers -> {"none", "sent", "serving", "performed", "closed"}]
  /\ stored \in [Keys -> Body \union {NoBody, Busy}]
  /\ fate \in [Keys -> {"none", "pending", "done", "failed", "declined"} \union Reasons]
  /\ effects \in 0..Cardinality(Callers)

OperationsInit ==
  /\ op \in Operations
  /\ legal \in BOOLEAN /\ keyed \in BOOLEAN
  /\ call = [c \in Callers |-> "idle"]
  /\ report = [c \in Callers |-> "none"]
  /\ job = [c \in Callers |-> "none"]
  /\ stored = [k \in Keys |-> NoBody]
  /\ fate = [k \in Keys |-> "none"]
  /\ effects = 0

---------------------------------------------------------------------------------

Returns(c, r) ==
  /\ call' = [call EXCEPT ![c] = "returned"]
  /\ report' = [report EXCEPT ![c] = r]

\* Parameters that fail the checks never leave the SDK.
Reject(c) ==
  /\ call[c] = "idle"
  /\ op.checked /\ ~legal
  /\ Returns(c, "invalid")
  /\ UNCHANGED <<orderVars, serverVars>>

Submit(c) ==
  /\ call[c] = "idle"
  /\ op.checked => legal
  /\ call' = [call EXCEPT ![c] = "waiting"]
  /\ job' = [job EXCEPT ![c] = "sent"]
  /\ UNCHANGED <<orderVars, report, stored, fate, effects>>

\* Timeout, network, breaker, token exchange, panic, a body that is no JSON, or
\* a 5xx of a gateway, without a code; the request may still arrive.
GiveUp(c) ==
  /\ call[c] = "waiting"
  /\ \/ Returns(c, "error")
     \/ \E s \in {500, 502, 503, 504} : Returns(c, Learns(ParseApiError(s, NoCode)))
  /\ UNCHANGED <<orderVars, serverVars>>

\* Mutant: the answer is handed to a caller that has given up, too.
LateDeliver(c, b) ==
  /\ job' = [job EXCEPT ![c] = "closed"]
  /\ Returns(c, Decode(b))

\* The caller decodes the body unless it has given up.
Deliver(c, b) ==
  /\ job' = [job EXCEPT ![c] = "closed"]
  /\ IF call[c] = "waiting" THEN Returns(c, Decode(b)) ELSE UNCHANGED <<call, report>>

\* An answer that is not 2xx.
DeliverError(c, answer) ==
  /\ job' = [job EXCEPT ![c] = "closed"]
  /\ IF call[c] = "waiting"
       THEN Returns(c, Learns(ParseApiError(answer[1], answer[2])))
       ELSE UNCHANGED <<call, report>>

\* The ways a server has to send a sentinel, and to leave the code out.
Spellings(s) ==
  {s} \union {<<s[1], a>> : a \in {b \in DOMAIN LegacyCodeAliases : LegacyCodeAliases[b] = s[2]}}

AllSpellings(sentinels) == UNION {Spellings(s) : s \in sentinels}

WithoutCode(statuses) == statuses \X {NoCode}

RefusalAnswers(reason) ==
  CASE reason = "noFunds" ->
         Spellings(<<402, "wallet_balance_insufficient">>) \union WithoutCode({402})
    [] reason = "noCardFunds" -> {<<422, "insufficient_balance">>}
    [] reason = "refused" ->
         AllSpellings({s \in Sentinels : s[1] \in RefusalStatuses /\ s[2] \in RefusalSentinels
                                           /\ s[2] # "wallet_balance_insufficient"})
           \union WithoutCode({400, 403, 422})

ConflictAnswers ==
  {<<409, "request_in_progress">>} \union Spellings(<<409, "idempotency_key_conflict">>)
    \union WithoutCode({409})

\* Answers that say nothing of the order.
AccessAnswers ==
  {s \in Sentinels : s[1] \in {401, 429, 503} \/ s[2] \in AccessSentinels}
    \union WithoutCode({401, 429, 503})

Shapes == IF op.decode \in Enveloped THEN {"wrapped", "bare"} ELSE {"bare"}

\* The server's answer to a read.
AnswerRead(c) ==
  /\ job[c] = "sent" /\ op.method = "GET"
  /\ \/ \E s \in Shapes : Deliver(c, [shape |-> s, says |-> "nothing"])
     \/ op.decode \in MayBeRefusedWith2xx /\ Deliver(c, [shape |-> "refusal", says |-> "nothing"])
     \/ \E a \in Sentinels : DeliverError(c, a)
  /\ UNCHANGED <<orderVars, stored, fate, effects>>

\* A bad token, too many requests, a service that is not there.
TurnAway(c) ==
  /\ job[c] = "sent" /\ op.method # "GET"
  /\ \E a \in AccessAnswers : DeliverError(c, a)
  /\ UNCHANGED <<orderVars, stored, fate, effects>>

\* The server takes the order in; the key is busy from now on.
Accept(c) ==
  /\ job[c] = "sent" /\ op.method # "GET"
  /\ HasKey => stored[Key(c)] = NoBody
  /\ job' = [job EXCEPT ![c] = "serving"]
  /\ stored' = IF HasKey THEN [stored EXCEPT ![Key(c)] = Busy] ELSE stored
  /\ UNCHANGED <<orderVars, call, report, fate, effects>>

\* 409 request_in_progress.
Conflict(c) ==
  /\ job[c] = "sent" /\ op.method # "GET"
  /\ HasKey /\ stored[Key(c)] = Busy
  /\ \E a \in ConflictAnswers : DeliverError(c, a)
  /\ UNCHANGED <<orderVars, stored, fate, effects>>

\* The retry middleware sends the request again after a gateway's 5xx, and meets
\* its own first attempt at work.
RetryConflicts(c) ==
  /\ call[c] = "waiting"
  /\ HasKey /\ job[c] \in {"serving", "performed"}
  /\ \E a \in ConflictAnswers : Returns(c, Learns(ParseApiError(a[1], a[2])))
  /\ UNCHANGED <<orderVars, serverVars>>

Replay(c) ==
  /\ job[c] = "sent" /\ op.method # "GET"
  /\ HasKey /\ stored[Key(c)] \in Body
  /\ Deliver(c, stored[Key(c)])
  /\ UNCHANGED <<orderVars, stored, fate, effects>>

\* A refusal is an error status, which frees the key, or a 2xx that says so.
Refuse(c) ==
  /\ job[c] = "serving"
  /\ \/ \E r \in Reasons :
          /\ fate' = [fate EXCEPT ![Key(c)] = r]
          /\ \E a \in RefusalAnswers(r) : DeliverError(c, a)
          /\ stored' = [stored EXCEPT ![Key(c)] = NoBody]
     \/ LET b == [shape |-> "refusal", says |-> "nothing"] IN
          /\ op.decode \in MayBeRefusedWith2xx
          /\ fate' = [fate EXCEPT ![Key(c)] = "declined"]
          /\ Deliver(c, b)
          /\ stored' = [stored EXCEPT ![Key(c)] = b]
  /\ UNCHANGED <<orderVars, effects>>

Perform(c) ==
  /\ job[c] = "serving"
  /\ job' = [job EXCEPT ![c] = "performed"]
  /\ \E f \in {"done"} \union (IF op.async THEN {"pending"} ELSE {}) :
       fate' = [fate EXCEPT ![Key(c)] = f]
  /\ effects' = effects + 1
  /\ UNCHANGED <<orderVars, call, report, stored>>

Respond(c) ==
  /\ job[c] = "performed"
  /\ \E s \in Shapes :
       LET b == [shape |-> s, says |-> fate[Key(c)]] IN
         /\ Deliver(c, b)
         /\ stored' = [stored EXCEPT ![Key(c)] = b]
  /\ UNCHANGED <<orderVars, fate, effects>>

\* A pending order is settled once it was answered.
Settle(k) ==
  /\ fate[k] = "pending"
  /\ \A c \in Callers : Key(c) = k => job[c] # "performed"
  /\ \E f \in {"done", "failed"} : fate' = [fate EXCEPT ![k] = f]
  /\ UNCHANGED <<orderVars, call, report, job, stored, effects>>

OperationsNext ==
  \/ \E k \in Keys : Settle(k)
  \/ \E c \in Callers :
       \/ Reject(c) \/ Submit(c) \/ GiveUp(c) \/ AnswerRead(c) \/ TurnAway(c)
       \/ Accept(c) \/ Conflict(c) \/ RetryConflicts(c) \/ Replay(c)
       \/ Refuse(c) \/ Perform(c) \/ Respond(c)

OperationsSpec == OperationsInit /\ [][OperationsNext]_operationVars

---------------------------------------------------------------------------------

\* An order with a key of the application is executed at most once, whatever
\* its calls returned and however late their requests arrive; one without is
\* executed at most once per call (idempotency.go:7-13, middleware.go:253-270).
OrderOnce ==
  effects <= IF keyed THEN 1 ELSE Cardinality({c \in Callers : job[c] # "none"})

\* What a method reports as done was done, by this call or by the one whose
\* answer is replayed; a 202 is not taken for done (cards.go:310-316, 386-391,
\* cashin.go:85-101).
DoneMeansDone ==
  \A c \in Callers : report[c] = "done" => fate[Key(c)] = "done"

\* A cash-in, cash-out or card that the server refused is not reported without
\* an error, also when the refusal is a 2xx and is replayed (cashin.go:95-99,
\* cashout.go:87-91, cards.go:310-316).
RefusalIsError ==
  \A c \in Callers :
    op.decode \in {"strict", "cardCreate"} /\ report[c] \in {"pending", "done", "nothing", "empty"}
      => fate[Key(c)] \in {"pending", "done", "failed"}

\* errors.Is tells the truth of an order, whatever the server calls its codes: what
\* is reported as refused for a reason was refused for it, a conflict means that
\* the order is at work, maybe for the call's own first attempt, and no refusal is taken for an error
\* after which the order might be resubmitted (errors.go:154-160, 287-404,
\* README.md:1043 on the two empty wallets).
ErrorTellsFate ==
  [][\A c \in Callers : call[c] = "waiting" /\ call'[c] = "returned" =>
       /\ op.method # "GET" /\ report'[c] \in Reasons => fate'[Key(c)] = report'[c]
       /\ op.method # "GET" /\ report'[c] = "conflict" =>
            \E d \in Callers : Key(d) = Key(c) /\ job[d] \in {"serving", "performed"}
       /\ job[c] = "serving" /\ job'[c] = "closed" /\ fate'[Key(c)] \in Reasons
            => report'[c] = fate'[Key(c)]
    ]_operationVars

\* What a report says of the order; a read asks for nothing to be done.
Says(r) ==
  IF r = "none" THEN "nothing"
  ELSE IF op.method = "GET" \/ r \in {"nothing", "empty"} THEN "result"
  ELSE IF r \in {"pending", "done"} THEN r
  ELSE IF r \in Reasons THEN "refused" ELSE "error"

InLedger(f) == IF f = "none" THEN "open" ELSE IF f \in Reasons THEN "refused" ELSE f

Ledger == INSTANCE OrderLedger WITH
            Orders  <- Keys,
            orderOf <- [c \in Callers |-> Key(c)],
            fate    <- [k \in Keys |-> InLedger(fate[k])],
            told    <- [c \in Callers |-> Says(report[c])]

\* The methods, their decoders and the server's memory of keys make a ledger: an
\* order under a key is executed once, also after refusals and among calls that
\* gave up; its fate then only settles; and what a method returns is in the ledger
\* when it returns (idempotency.go:7-13, cashin.go:85-101, cards.go:310-316).
ImplementsLedger == Ledger!LedgerSpec

=================================================================================
