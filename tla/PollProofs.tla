------------------------------- MODULE PollProofs -------------------------------
(***************************************************************************)
(* Proofs about Poll, for any options, defaults and fetch times.  PollInv   *)
(* adds to the types when a fetch or sleep under way ends, and what the     *)
(* last status seen says of the server's.                                   *)
(***************************************************************************)
EXTENDS Poll, TLAPS

\* A fetch begins at the deadline at the latest, a sleep ends by then.
TimeInv ==
  /\ pc \in {"fetch", "answer"} => due - FetchMax <= now /\ now <= due
                                    /\ due <= deadline + FetchMax
  /\ pc = "sleep" => now <= due /\ due <= deadline
  /\ result = "POLL_TIMEOUT" => pc = "done" /\ now + interval > deadline

\* A terminal status seen is the server's or was refunded since.
SeenInv ==
  /\ pc = "idle" => seen = NoStatus
  /\ result \in Statuses => Terminal(result) /\ result = seen
  /\ Terminal(seen) => status = seen \/ <<seen, status>> \in Moves

\* A poll under way has no result yet.
ResultInv == pc # "done" => result = "none"

\* A status that is not terminal was the server's at some time of the fetch.
UnsettledInv ==
  pc = "answer" /\ seen # NoStatus /\ ~Terminal(seen) /\ Terminal(status)
    => settledAt >= due - FetchMax

\* The attempts are counted from the first fetch on, and a sleep has one left.
CountInv ==
  /\ pc = "idle" => attempt = 0
  /\ pc = "sleep" /\ maxAttempts > 0 => attempt < maxAttempts

PollInv == CountInv /\ ResultInv /\ PollTypeOK /\ TimeInv /\ SeenInv /\ UnsettledInv /\ TimeoutMeansUnsettled

\* Settings that are zero or negative become the defaults.
LEMMA DefaultIsPositive ==
  ASSUME NEW v \in Int, NEW d \in Nat
  PROVE  /\ OrDefault(v, d) \in Nat
         /\ d > 0 => OrDefault(v, d) > 0
  BY DEF OrDefault

\* Verdicts, failures and NoStatus are told apart.
LEMMA StatusesApart ==
  /\ NoStatus \notin Statuses
  /\ Statuses \intersect (Failures \union {"none"}) = {}
  /\ \A s : Terminal(s) => s \in Statuses
  BY DEF NoStatus, Statuses, PaymentStatuses, KYCStatuses, Failures, Terminal,
         TerminalStatuses, TerminalKYCStatuses

LEMMA PollInvInit == PollInit => PollInv
<1> SUFFICES ASSUME PollInit PROVE PollInv
  OBVIOUS
<1>1. PollTypeOK
  <2>1. /\ subject \in {"payment", "customer"}
        /\ status \in IF subject = "payment" THEN PaymentStatuses ELSE KYCStatuses
    BY DEF PollInit, PaymentStatuses, KYCStatuses
  <2>2. /\ pc \in Running \union {"idle", "done"}
        /\ seen \in Statuses \union {NoStatus}
        /\ cancelled \in BOOLEAN
        /\ result \in Statuses \union Failures \union {"none"}
    BY DEF PollInit
  <2>3. /\ now \in Nat /\ settledAt \in Nat /\ settledAt <= now
        /\ attempt \in Nat /\ interval \in Nat /\ deadline \in Nat /\ due \in Nat
    BY DEF PollInit
  <2>4. maxAttempts \in Nat /\ ~(maxAttempts > 0) /\ ~(pc # "idle")
    BY DEF PollInit
  <2> QED
    BY <2>1, <2>2, <2>3, <2>4 DEF PollTypeOK
<1>2. CountInv /\ ResultInv /\ TimeInv /\ UnsettledInv /\ TimeoutMeansUnsettled
  BY DEF PollInit, CountInv, ResultInv, TimeInv, UnsettledInv, TimeoutMeansUnsettled
<1>3. SeenInv
  BY StatusesApart DEF PollInit, SeenInv
<1> QED
  BY <1>1, <1>2, <1>3 DEF PollInv

\* A server step leads from a status of the subject to another one, and out of
\* a terminal status to a terminal one that has no way out.
LEMMA MovesStayInSubject ==
  ASSUME PollTypeOK, NEW s \in Statuses, <<status, s>> \in Moves
  PROVE  /\ s \in IF subject = "payment" THEN PaymentStatuses ELSE KYCStatuses
         /\ Terminal(status) => Terminal(s) /\ status = "SUCCESS" /\ s = "REFUNDED"
  BY DEF PollTypeOK, Moves, PaymentStatuses, KYCStatuses, Terminal, TerminalStatuses,
         TerminalKYCStatuses

LEMMA PollInvNext == PollInv /\ [PollNext]_pollVars => PollInv'
<1> SUFFICES ASSUME PollInv, [PollNext]_pollVars
             PROVE  PollInv'
  OBVIOUS
<1> USE PollAssumption DEF PollInv
<1>1. ASSUME Tick
      PROVE  PollInv'
  <2>1. pc # "done" /\ now' = now + 1
        /\ UNCHANGED <<serverVars, pc, attempt, optionVars, due, seen, cancelled, result>>
    BY <1>1 DEF Tick, ClockMayAdvance, Running
  <2>2. PollTypeOK'
    BY <2>1 DEF PollTypeOK, serverVars, optionVars
  <2>3. TimeInv'
    BY <1>1, <2>1 DEF Tick, ClockMayAdvance, Running, TimeInv, PollTypeOK, optionVars
  <2>4. SeenInv' /\ UnsettledInv' /\ TimeoutMeansUnsettled'
    BY <2>1 DEF SeenInv, UnsettledInv, TimeoutMeansUnsettled, Terminal, serverVars, optionVars
  <2> QED
    BY <2>1, <2>2, <2>3, <2>4 DEF CountInv, ResultInv, optionVars
<1>2. ASSUME ServerMoves
      PROVE  PollInv'
  <2> PICK s \in Statuses : <<status, s>> \in Moves /\ status' = s
    BY <1>2 DEF ServerMoves
  <2>1. UNCHANGED <<now, subject, pc, attempt, optionVars, due, seen, cancelled, result>>
    BY <1>2 DEF ServerMoves
  <2>2. \A x : Terminal(x)' <=> Terminal(x)
    BY <2>1 DEF Terminal
  <2>3. settledAt' = IF ~Terminal(status) /\ Terminal(s) THEN now ELSE settledAt
    BY <1>2, <2>2 DEF ServerMoves, Terminal
  <2>4. settledAt' \in Nat /\ settledAt' <= now
    BY <2>3 DEF PollTypeOK
  <2>5. PollTypeOK'
    BY <2>1, <2>4, MovesStayInSubject DEF PollTypeOK, optionVars
  <2>6. TimeInv'
    BY <2>1 DEF TimeInv, optionVars
  <2>7. SeenInv'
    BY <2>1, <2>2, MovesStayInSubject DEF SeenInv, Terminal, Moves, TerminalStatuses, TerminalKYCStatuses
  <2>8. UnsettledInv'
    <3>1. CASE ~Terminal(status) /\ Terminal(s)
      BY <2>1, <2>3, <3>1 DEF UnsettledInv, TimeInv, PollTypeOK
    <3>2. CASE Terminal(status)
      BY <2>1, <2>2, <2>3, <3>2 DEF UnsettledInv
    <3>3. CASE ~Terminal(s)
      BY <2>2, <3>3 DEF UnsettledInv, Terminal
    <3> QED
      BY <3>1, <3>2, <3>3
  <2>9. TimeoutMeansUnsettled'
    <3>1. CASE ~Terminal(status) /\ Terminal(s)
      BY <2>1, <2>3, <3>1 DEF TimeoutMeansUnsettled, TimeInv, PollTypeOK, optionVars
    <3>2. CASE Terminal(status)
      BY <2>1, <2>2, <2>3, <3>2 DEF TimeoutMeansUnsettled, optionVars
    <3>3. CASE ~Terminal(s)
      BY <2>2, <3>3 DEF TimeoutMeansUnsettled, Terminal
    <3> QED
      BY <3>1, <3>2, <3>3
  <2> QED
    BY <2>1, <2>5, <2>6, <2>7, <2>8, <2>9 DEF CountInv, ResultInv, optionVars
<1>3. ASSUME Cancel
      PROVE  PollInv'
  BY <1>3 DEF Cancel, PollTypeOK, CountInv, ResultInv, TimeInv, SeenInv, UnsettledInv,
              TimeoutMeansUnsettled, Terminal, serverVars, optionVars
<1>4. ASSUME Start
      PROVE  PollInv'
  <2>1. pc = "idle" /\ pc' = "fetch" /\ attempt' = attempt + 1 /\ due' = now + FetchMax
        /\ UNCHANGED <<now, serverVars, seen, cancelled, result>>
    BY <1>4 DEF Start, Fetch
  <2> PICK i \in Intervals, t \in Timeouts, m \in AttemptLimits :
           /\ interval' = OrDefault(i, IF subject = "payment" THEN DefaultPollInterval
                                       ELSE DefaultKYCPollInterval)
           /\ deadline' = now + OrDefault(t, DefaultPollTimeout)
           /\ maxAttempts' = OrDefault(m, 0)
    BY <1>4 DEF Start
  <2>2. interval' \in Nat /\ interval' > 0
    <3> DEFINE d == IF subject = "payment" THEN DefaultPollInterval ELSE DefaultKYCPollInterval
    <3>1. d \in Nat /\ d > 0 /\ i \in Int
      OBVIOUS
    <3> HIDE DEF d
    <3>2. OrDefault(i, d) \in Nat /\ OrDefault(i, d) > 0
      BY <3>1, DefaultIsPositive
    <3> QED
      BY <3>2 DEF d
  <2>3. deadline' \in Nat /\ deadline' >= now
    <3>1. OrDefault(t, DefaultPollTimeout) \in Nat
      BY DefaultIsPositive
    <3> QED
      BY <3>1 DEF PollTypeOK
  <2>4. maxAttempts' \in Nat
    <3>1. m \in Int
      OBVIOUS
    <3> QED
      BY <3>1, DefaultIsPositive
  <2>5. PollTypeOK'
    BY <2>1, <2>2, <2>3, <2>4 DEF PollTypeOK, CountInv, Running, serverVars
  <2>6. TimeInv' /\ CountInv'
    BY <2>1, <2>3 DEF TimeInv, CountInv, PollTypeOK, ResultInv
  <2>7. SeenInv' /\ UnsettledInv' /\ TimeoutMeansUnsettled'
    BY <2>1 DEF SeenInv, UnsettledInv, TimeoutMeansUnsettled, TimeInv, Terminal, serverVars
  <2> QED
    BY <2>1, <2>5, <2>6, <2>7 DEF ResultInv
<1>5. ASSUME ServerAnswers
      PROVE  PollInv'
  <2>1. pc = "fetch" /\ pc' = "answer" /\ seen' \in {status, NoStatus}
        /\ UNCHANGED <<now, serverVars, attempt, optionVars, due, cancelled, result>>
    BY <1>5 DEF ServerAnswers
  <2>2. status \in Statuses
    BY DEF PollTypeOK, Statuses
  <2>3. PollTypeOK' /\ TimeInv' /\ CountInv'
    BY <2>1, <2>2 DEF PollTypeOK, TimeInv, CountInv, Running, serverVars, optionVars
  <2>4. result \notin Statuses
    BY <2>1, StatusesApart DEF ResultInv
  <2>5. SeenInv' /\ UnsettledInv' /\ TimeoutMeansUnsettled'
    BY <2>1, <2>4, StatusesApart
    DEF SeenInv, UnsettledInv, TimeoutMeansUnsettled, TimeInv, Terminal, serverVars, optionVars
  <2> QED
    BY <2>3, <2>5, <2>1 DEF ResultInv
<1>6. ASSUME NEW r \in Failures, End(r), pc \in Running,
             r = "POLL_TIMEOUT" => pc = "answer" /\ ~Terminal(seen) /\ OutOfTime
      PROVE  PollInv'
  <2>1. pc' = "done" /\ result' = r /\ r \notin Statuses
        /\ UNCHANGED <<now, serverVars, attempt, optionVars, due, seen, cancelled>>
    BY <1>6, StatusesApart DEF End
  <2>2. PollTypeOK' /\ TimeInv' /\ CountInv' /\ ResultInv'
    BY <1>6, <2>1 DEF PollTypeOK, TimeInv, CountInv, ResultInv, OutOfTime, Running, serverVars, optionVars
  <2>3. SeenInv' /\ UnsettledInv'
    BY <2>1 DEF SeenInv, UnsettledInv, Terminal, serverVars
  <2>4. TimeoutMeansUnsettled'
    BY <1>6, <2>1
    DEF TimeoutMeansUnsettled, UnsettledInv, TimeInv, OutOfTime, PollTypeOK, Terminal,
        serverVars, optionVars
  <2> QED
    BY <2>2, <2>3, <2>4
<1>7. ASSUME FetchFails \/ StopAtLimit \/ StopAtDeadline \/ CancelSleep
      PROVE  PollInv'
  BY <1>6, <1>7 DEF FetchFails, StopAtLimit, StopAtDeadline, CancelSleep, Failures, Running
<1>8. ASSUME Finish
      PROVE  PollInv'
  <2>1. pc = "answer" /\ pc' = "done" /\ Terminal(seen) /\ result' = seen
        /\ UNCHANGED <<now, serverVars, attempt, optionVars, due, seen, cancelled>>
    BY <1>8 DEF Finish, End
  <2>2. seen \in Statuses /\ seen \notin Failures
    BY <2>1, StatusesApart
  <2>3. PollTypeOK' /\ TimeInv' /\ CountInv' /\ ResultInv'
    BY <2>1, <2>2 DEF PollTypeOK, TimeInv, CountInv, ResultInv, Running, Failures, serverVars, optionVars
  <2>4. SeenInv' /\ UnsettledInv' /\ TimeoutMeansUnsettled'
    BY <2>1, <2>2
    DEF SeenInv, UnsettledInv, TimeoutMeansUnsettled, Terminal, Failures, serverVars
  <2> QED
    BY <2>3, <2>4
<1>9. ASSUME Sleep
      PROVE  PollInv'
  <2>1. pc = "answer" /\ pc' = "sleep" /\ ~AtLimit /\ ~OutOfTime /\ due' = now + interval
        /\ UNCHANGED <<now, serverVars, attempt, optionVars, seen, cancelled, result>>
    BY <1>9 DEF Sleep
  <2>2. PollTypeOK' /\ TimeInv' /\ CountInv' /\ ResultInv'
    BY <2>1 DEF PollTypeOK, TimeInv, CountInv, ResultInv, AtLimit, OutOfTime, Running,
                serverVars, optionVars
  <2>3. SeenInv' /\ UnsettledInv' /\ TimeoutMeansUnsettled'
    BY <2>1 DEF SeenInv, UnsettledInv, TimeoutMeansUnsettled, TimeInv, Terminal, serverVars, optionVars
  <2> QED
    BY <2>2, <2>3
<1>10. ASSUME Wake
       PROVE  PollInv'
  <2>1. pc = "sleep" /\ pc' = "fetch" /\ now = due /\ attempt' = attempt + 1
        /\ due' = now + FetchMax
        /\ UNCHANGED <<now, serverVars, optionVars, seen, cancelled, result>>
    BY <1>10 DEF Wake, Fetch
  <2>2. PollTypeOK' /\ TimeInv' /\ CountInv' /\ ResultInv'
    BY <2>1 DEF PollTypeOK, TimeInv, CountInv, ResultInv, Running, serverVars, optionVars
  <2>3. SeenInv' /\ UnsettledInv' /\ TimeoutMeansUnsettled'
    BY <2>1 DEF SeenInv, UnsettledInv, TimeoutMeansUnsettled, TimeInv, Terminal, serverVars, optionVars
  <2> QED
    BY <2>2, <2>3
<1>11. CASE UNCHANGED pollVars
  BY <1>11 DEF pollVars, PollTypeOK, CountInv, ResultInv, TimeInv, SeenInv, UnsettledInv,
               TimeoutMeansUnsettled, Terminal
<1> QED
  BY <1>1, <1>2, <1>3, <1>4, <1>5, <1>7, <1>8, <1>9, <1>10, <1>11 DEF PollNext, PollStep

--------------------------------------------------------------------------------

\* The variables keep their types, and no poll makes more than MaxAttempts
\* fetches (transactions.go:155-206).
THEOREM PollTypeCorrect == PollSpec => []PollTypeOK
  BY PollInvInit, PollInvNext, PTL DEF PollSpec, PollInv

\* A status Poll returns is the server's verdict for good, but for a refund
\* (transactions.go:180, card_customers.go:301).
THEOREM PollReturnsVerdict == PollSpec => []FinalIsFinal
<1>1. PollInv => FinalIsFinal
  BY DEF PollInv, SeenInv, FinalIsFinal
<1> QED
  BY <1>1, PollInvInit, PollInvNext, PTL DEF PollSpec

\* POLL_TIMEOUT hides no verdict older than an interval and a fetch before the
\* deadline (transactions.go:192).
THEOREM TimeoutIsHonest == PollSpec => []TimeoutMeansUnsettled
  BY PollInvInit, PollInvNext, PTL DEF PollSpec, PollInv

\* A poll overruns its timeout by one fetch at most (transactions.go:192).
THEOREM PollEndsInTime == PollSpec => []EndsInTime
<1>1. PollInv => EndsInTime
  BY PollAssumption DEF PollInv, PollTypeOK, TimeInv, EndsInTime, Running
<1> QED
  BY <1>1, PollInvInit, PollInvNext, PTL DEF PollSpec

--------------------------------------------------------------------------------

\* How much a poll under way may still do: five for every unit of time to the end
\* of the last fetch possible, and what tells fetch, answer and sleep apart.  A
\* sleep counts the units it skips once, and the next fetch from its end.
EndOfLastFetch == deadline + FetchMax

PollRank ==
  IF pc = "fetch" THEN 5 * (EndOfLastFetch - now) + 3
  ELSE IF pc = "answer" THEN 5 * (EndOfLastFetch - now) + 2
  ELSE 5 * (EndOfLastFetch - due) + (due - now) + 4

\* While a poll runs, nothing raises its rank, and a unit of time or a step of
\* the loop lowers it, if it does not end the poll.
PollCountsDown ==
  pc \in Running =>
    /\ PollRank \in Nat
    /\ pc' = "done" \/ PollRank' <= PollRank
    /\ Tick \/ PollStep => pc' = "done" \/ PollRank' < PollRank

\* The deadline is compared with the end of the sleep, so a sleep costs time that is
\* left, and the next fetch begins with less of it (transactions.go:192-204).
LEMMA PollCountsDownNext == PollInv /\ [PollNext]_pollVars => PollCountsDown
<1> SUFFICES ASSUME PollInv, [PollNext]_pollVars, pc \in Running
             PROVE  /\ PollRank \in Nat
                    /\ pc' = "done" \/ PollRank' <= PollRank
                    /\ Tick \/ PollStep => pc' = "done" \/ PollRank' < PollRank
  BY DEF PollCountsDown
<1> USE PollAssumption
<1>t. /\ now \in Nat /\ due \in Nat /\ deadline \in Nat /\ FetchMax \in Nat
      /\ interval \in Nat /\ interval > 0
      /\ pc \in {"fetch", "answer"} => now <= due /\ due <= deadline + FetchMax
      /\ pc = "sleep" => now <= due /\ due <= deadline
  BY DEF PollInv, PollTypeOK, TimeInv, Running
<1>n. PollRank \in Nat
  BY <1>t DEF PollRank, EndOfLastFetch, Running
<1> USE DEF PollRank, EndOfLastFetch, Running, optionVars
<1>1. ASSUME Tick
      PROVE  PollRank' < PollRank
  BY <1>1, <1>t DEF Tick, ClockMayAdvance
<1>2. ASSUME ServerAnswers \/ Sleep \/ Wake
      PROVE  PollRank' < PollRank
  <2>1. CASE ServerAnswers
    BY <1>t, <2>1 DEF ServerAnswers
  <2>2. CASE Sleep
    BY <1>t, <2>2 DEF Sleep
  <2>3. CASE Wake
    BY <1>t, <2>3 DEF Wake, Fetch
  <2> QED
    BY <1>2, <2>1, <2>2, <2>3
<1>3. ASSUME FetchFails \/ Finish \/ StopAtLimit \/ StopAtDeadline \/ CancelSleep
      PROVE  pc' = "done"
  BY <1>3 DEF FetchFails, Finish, StopAtLimit, StopAtDeadline, CancelSleep, End
<1>4. ASSUME ServerMoves \/ Cancel \/ UNCHANGED pollVars
      PROVE  PollRank' = PollRank /\ pc' = pc
  BY <1>4 DEF ServerMoves, Cancel, pollVars
<1>5. ~Start
  BY DEF Start
<1>6. PollRank' < PollRank => PollRank' <= PollRank
  <2>1. CASE Tick \/ PollStep
    <3>1. now' \in Int /\ due' \in Int /\ deadline' \in Int
      BY PollInvNext DEF PollInv, PollTypeOK
    <3> QED
      BY <1>n, <3>1
  <2>2. CASE ~(Tick \/ PollStep)
    BY <1>4, <1>5, <1>n, <2>2 DEF PollNext
  <2> QED
    BY <2>1, <2>2
<1>7. (Tick \/ PollStep) => pc' = "done" \/ PollRank' < PollRank
  BY <1>1, <1>2, <1>3 DEF PollStep
<1>8. ~(Tick \/ PollStep) => PollRank' = PollRank
  BY <1>4, <1>5 DEF PollNext
<1> QED
  BY <1>n, <1>6, <1>7, <1>8

\* Every unit of time and every step of a poll brings it nearer to its end, and
\* neither the server nor a cancellation takes it away from it: a poll takes a
\* bounded number of steps (transactions.go:155-206, card_customers.go:276-327).
THEOREM EveryPollCountsDown == PollSpec => [][PollCountsDown]_pollVars
  BY PollInvInit, PollInvNext, PollCountsDownNext, PTL DEF PollSpec

================================================================================
