---------------------------------- MODULE Poll ----------------------------------
(***************************************************************************)
(* transactions.go Poll and card_customers.go PollEnrollment: one loop that *)
(* fetches a status, stops at a terminal one, gives up after MaxAttempts or *)
(* when the next fetch would begin after the deadline, and sleeps.  The     *)
(* server moves the payment or the customer meanwhile, before, during and  *)
(* after every fetch.                                                       *)
(*                                                                         *)
(* A fetch is a whole call of Status or Get, retries included; FetchMax     *)
(* bounds it and the OnStatus callback after it.  Timers fire on time.      *)
(***************************************************************************)
EXTENDS Integers

CONSTANTS Intervals, Timeouts, AttemptLimits,     \* what PollOptions may hold
          DefaultPollInterval, DefaultKYCPollInterval, DefaultPollTimeout,
          FetchMax,        \* longest fetch
          LatestStart      \* bound: when a poll begins at the latest

ASSUME PollAssumption ==
  /\ Intervals \subseteq Int /\ Timeouts \subseteq Int /\ AttemptLimits \subseteq Int
  /\ DefaultPollInterval \in Nat \ {0} /\ DefaultKYCPollInterval \in Nat \ {0}
  /\ DefaultPollTimeout \in Nat \ {0}
  /\ FetchMax \in Nat /\ LatestStart \in Nat

VARIABLES now,
          subject,       \* what is polled: a payment or a card customer
          status,        \* server: its status
          settledAt,     \* history: when it reached a terminal status
          pc, attempt, interval, deadline,
          maxAttempts,   \* 0 for no limit
          due,           \* when the fetch or the sleep under way ends at the latest
          seen,          \* the status last fetched
          cancelled,     \* the caller's context is cancelled
          result

pollVars == <<now, subject, status, settledAt, pc, attempt, interval, deadline,
              maxAttempts, due, seen, cancelled, result>>
serverVars == <<subject, status, settledAt>>
optionVars == <<interval, deadline, maxAttempts>>

PaymentStatuses == {"PENDING", "HOLD", "SUCCESS", "FAILED", "REFUNDED"}
KYCStatuses == {"PENDING_REVIEW", "ENROLLING", "ENROLLED",
                "REJECTED_PROVIDER", "REJECTED_LOCAL"}
Statuses == PaymentStatuses \union KYCStatuses
NoStatus == "noStatus"      \* the empty string in the code

TerminalStatuses == {"SUCCESS", "FAILED", "REFUNDED"}
TerminalKYCStatuses == {"ENROLLED", "REJECTED_PROVIDER", "REJECTED_LOCAL"}

\* The steps the server takes; a refund is the only one out of a terminal status.
Moves ==
  {<<"PENDING", "SUCCESS">>, <<"PENDING", "FAILED">>, <<"PENDING", "HOLD">>,
   <<"HOLD", "SUCCESS">>, <<"HOLD", "FAILED">>, <<"SUCCESS", "REFUNDED">>,
   <<"PENDING_REVIEW", "ENROLLING">>, <<"PENDING_REVIEW", "REJECTED_LOCAL">>,
   <<"ENROLLING", "ENROLLED">>, <<"ENROLLING", "REJECTED_PROVIDER">>}

\* Mutant: HOLD ends a poll.
HastyTerminal(s) == s \in {"HOLD"} \union TerminalStatuses \union TerminalKYCStatuses

Terminal(s) ==
  s \in (IF subject = "payment" THEN TerminalStatuses ELSE TerminalKYCStatuses)

Running == {"fetch", "answer", "sleep"}
Failures == {"error", "canceled", "POLL_TIMEOUT", "POLL_MAX_ATTEMPTS_REACHED"}

PollTypeOK ==
  /\ now \in Nat
  /\ subject \in {"payment", "customer"}
  /\ status \in IF subject = "payment" THEN PaymentStatuses ELSE KYCStatuses
  /\ settledAt \in Nat /\ settledAt <= now
  /\ pc \in Running \union {"idle", "done"}
  /\ attempt \in Nat
  /\ interval \in Nat /\ (pc # "idle" => interval > 0)
  /\ deadline \in Nat
  /\ maxAttempts \in Nat /\ (maxAttempts > 0 => attempt <= maxAttempts)
  /\ due \in Nat
  /\ seen \in Statuses \union {NoStatus}
  /\ cancelled \in BOOLEAN
  /\ result \in Statuses \union Failures \union {"none"}

PollInit ==
  /\ now = 0
  /\ \/ subject = "payment" /\ status = "PENDING"
     \/ subject = "customer" /\ status = "PENDING_REVIEW"
  /\ settledAt = 0
  /\ pc = "idle"
  /\ attempt = 0 /\ interval = 0 /\ deadline = 0 /\ maxAttempts = 0 /\ due = 0
  /\ seen = NoStatus
  /\ cancelled = FALSE
  /\ result = "none"

---------------------------------------------------------------------------------

\* The clock runs until the poll begins, and while it runs.
ClockMayAdvance ==
  \/ pc = "idle" /\ now < LatestStart
  \/ pc \in Running /\ now < due

Tick ==
  /\ ClockMayAdvance
  /\ now' = now + 1
  /\ UNCHANGED <<serverVars, pc, attempt, optionVars, due, seen, cancelled, result>>

ServerMoves ==
  /\ \E s \in Statuses : <<status, s>> \in Moves /\ status' = s
  /\ settledAt' = IF ~Terminal(status) /\ Terminal(status') THEN now ELSE settledAt
  /\ UNCHANGED <<now, subject, pc, attempt, optionVars, due, seen, cancelled, result>>

Cancel ==
  /\ pc \in Running
  /\ ~cancelled
  /\ cancelled' = TRUE
  /\ UNCHANGED <<now, serverVars, pc, attempt, optionVars, due, seen, result>>

OrDefault(value, default) == IF value <= 0 THEN default ELSE value

Fetch ==
  /\ pc' = "fetch"
  /\ attempt' = attempt + 1
  /\ due' = now + FetchMax

Start ==
  /\ pc = "idle"
  /\ \E i \in Intervals, t \in Timeouts, m \in AttemptLimits :
       /\ interval' = OrDefault(i, IF subject = "payment" THEN DefaultPollInterval
                                   ELSE DefaultKYCPollInterval)
       /\ deadline' = now + OrDefault(t, DefaultPollTimeout)
       /\ maxAttempts' = OrDefault(m, 0)
  /\ Fetch
  /\ UNCHANGED <<now, serverVars, seen, cancelled, result>>

\* The server reads the status; a body that says success:false, or no status,
\* decodes to the empty one.
ServerAnswers ==
  /\ pc = "fetch"
  /\ pc' = "answer"
  /\ seen' \in {status, NoStatus}
  /\ UNCHANGED <<now, serverVars, attempt, optionVars, due, cancelled, result>>

End(r) ==
  /\ pc' = "done"
  /\ result' = r
  /\ UNCHANGED <<now, serverVars, attempt, optionVars, due, seen, cancelled>>

\* Any error of a fetch, on any attempt, ends the poll.
FetchFails ==
  /\ pc = "fetch"
  /\ End("error")

Finish ==
  /\ pc = "answer"
  /\ Terminal(seen)
  /\ End(seen)

\* Mutant: the limit is compared one attempt late.
LateAtLimit == maxAttempts > 0 /\ attempt > maxAttempts

AtLimit == maxAttempts > 0 /\ attempt >= maxAttempts

StopAtLimit ==
  /\ pc = "answer"
  /\ ~Terminal(seen)
  /\ AtLimit
  /\ End("POLL_MAX_ATTEMPTS_REACHED")

\* Mutants: the deadline is compared without the interval, or with two.
LateOutOfTime == now > deadline
EarlyOutOfTime == now + 2 * interval > deadline

OutOfTime == now + interval > deadline

\* Mutant: a payment on HOLD is not given up.
PatientStopAtDeadline ==
  /\ pc = "answer"
  /\ ~Terminal(seen) /\ seen # "HOLD"
  /\ ~AtLimit /\ OutOfTime
  /\ End("POLL_TIMEOUT")

StopAtDeadline ==
  /\ pc = "answer"
  /\ ~Terminal(seen)
  /\ ~AtLimit /\ OutOfTime
  /\ End("POLL_TIMEOUT")

Sleep ==
  /\ pc = "answer"
  /\ ~Terminal(seen)
  /\ ~AtLimit /\ ~OutOfTime
  /\ pc' = "sleep"
  /\ due' = now + interval
  /\ UNCHANGED <<now, serverVars, attempt, optionVars, seen, cancelled, result>>

CancelSleep ==
  /\ pc = "sleep"
  /\ cancelled
  /\ End("canceled")

Wake ==
  /\ pc = "sleep"
  /\ now = due
  /\ Fetch
  /\ UNCHANGED <<now, serverVars, optionVars, seen, cancelled, result>>

PollStep ==
  \/ ServerAnswers \/ FetchFails \/ Finish \/ StopAtLimit \/ StopAtDeadline
  \/ Sleep \/ CancelSleep \/ Wake

PollNext == Tick \/ ServerMoves \/ Cancel \/ Start \/ PollStep

PollSpec == PollInit /\ [][PollNext]_pollVars

\* Time passes, and a fetch and its caller go on.
FairPollSpec == PollSpec /\ WF_pollVars(Tick) /\ WF_pollVars(PollStep)

---------------------------------------------------------------------------------

\* A status Poll returned is the verdict: the server never leaves it, but for a
\* refund; in particular HOLD is none (constants.go:33-41, README.md:402).
FinalIsFinal ==
  result \in Statuses => status = result \/ <<result, status>> \in Moves

\* POLL_TIMEOUT never hides a verdict that came an interval and a fetch before
\* the deadline, unless the last answer held no status (transactions.go:180-198).
TimeoutMeansUnsettled ==
  result = "POLL_TIMEOUT" /\ seen # NoStatus
    => ~Terminal(status) \/ settledAt + interval + FetchMax > deadline

\* A poll overruns its timeout by one fetch at most (transactions.go:165-204).
EndsInTime == pc \in Running => now <= deadline + FetchMax

\* Every poll returns, also while the payment stays on HOLD
\* (transactions.go:168-205).
EveryPollReturns == (pc \in Running) ~> (pc = "done")

=================================================================================
