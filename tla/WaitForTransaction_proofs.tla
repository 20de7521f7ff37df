--------------------- MODULE WaitForTransaction_proofs ---------------------
(***************************************************************************)
(* Proofs about WaitForTransaction for every timeout, first interval and   *)
(* duration of the requests, and about CommandLine for any number of       *)
(* callers, limit of their waiting and duration of the checks.             *)
(***************************************************************************)
EXTENDS WaitForTransaction, CommandLine, FiniteSetTheorems, TLAPS

\* The factor 1.5 of the backoff, in whole units.
LEMMA GrowthFacts ==
  ASSUME NEW b \in Nat
  PROVE  /\ (b * 3) \div 2 \in Nat
         /\ 2 * ((b * 3) \div 2) <= 3 * b
  OBVIOUS

\* Half of the timeout, in whole units.
LEMMA HalfFacts ==
  ASSUME NEW t \in Nat
  PROVE  /\ t \div 2 \in Nat
         /\ 2 * (t \div 2) >= t - 1
  OBVIOUS

\* undefined is no string.
LEMMA UndefinedFacts ==
  /\ Undefined # "success" /\ Undefined # "failure" /\ Undefined # "pending"
  /\ Undefined \notin Committed \cup Errors \cup Transactions
  /\ Undefined # "WaitForTransactionError" /\ Undefined # "FailedTransactionError"
  BY UndefinedAssumption DEF Outcomes, Committed, Errors, Retried, Transactions

\* The initial state satisfies the inductive invariant.
LEMMA InitIInv == WaitInit => WaitIInv
<1> SUFFICES ASSUME WaitInit PROVE WaitIInv
  OBVIOUS
<1> USE DEF WaitInit
<1>1. WaitTypeOK
  BY BackoffAssumption DEF WaitTypeOK, Transactions, Requesting
<1>2. WaitShape
  BY DEF WaitShape
<1>3. AnswersAreTrue
  BY UndefinedFacts DEF AnswersAreTrue, Committed
<1>4. TimeIsCounted
  BY BackoffAssumption DEF TimeIsCounted
<1>5. OutcomeMatchesChain /\ TimeoutIsHonest
  BY UndefinedFacts DEF OutcomeMatchesChain, TimeoutIsHonest, Committed, Transactions
<1>6. OvershootIsBounded
  BY DEF OvershootIsBounded
<1> QED BY <1>1, <1>2, <1>3, <1>4, <1>5, <1>6 DEF WaitIInv

\* What the code after the polling loop settles the promise with.
LEMMA ConcludeFacts ==
  ASSUME NEW txn \in Transactions \cup {Undefined}, NEW error \in Errors \cup {Undefined},
         Conclude(txn, error)
  PROVE  /\ awaited' = "done"
         /\ outcome' \in Outcomes
         /\ outcome' \in Committed => outcome' = txn
         /\ outcome' = "FailedTransactionError" => txn = "failure"
         /\ outcome' = "failure" => ~checkSuccess
         /\ outcome' = "WaitForTransactionError" =>
               txn = "pending" \/ (txn = Undefined /\ error = Undefined)
  BY UndefinedFacts DEF Conclude, Settle, Outcomes, Errors, Retried, Committed, Transactions

\* FirstLook keeps the inductive invariant (waitForTransaction, its first request).
LEMMA FirstLookIInv == WaitIInv /\ FirstLook => WaitIInv'
<1> SUFFICES ASSUME WaitIInv, FirstLook PROVE WaitIInv'
  OBVIOUS
<1> USE DEF WaitIInv, FirstLook, nodeVars
<1>1. /\ awaited = "first" /\ outcome = Undefined /\ answer' = Undefined
      /\ lastTxn' \in Transactions \cup {Undefined} /\ lastError' \in Errors \cup {Undefined}
      /\ lastTxn' \in Committed => chain = lastTxn'
  BY UndefinedFacts DEF Learn, handleAPIError, WaitTypeOK, WaitShape, AnswersAreTrue, Requesting
<1>2. \/ awaited' = "longWait" /\ outcome' = Undefined
      \/ Conclude(answer, lastError) /\ answer \in Committed /\ lastTxn' = answer
      \/ Settle(answer) /\ answer \in Errors \ Retried
  BY <1>1 DEF Learn, handleAPIError, GoOn
<1>3. /\ awaited' \in {"longWait", "done"} /\ outcome' \in Outcomes \cup {Undefined}
      /\ outcome' # Undefined => awaited' = "done"
      /\ outcome' # "WaitForTransactionError"
      /\ outcome' \in Committed => lastTxn' = outcome'
      /\ outcome' = "FailedTransactionError" => lastTxn' = "failure"
      /\ outcome' = "failure" => ~checkSuccess
  <2>1. CASE awaited' = "longWait" /\ outcome' = Undefined
    BY <2>1, UndefinedFacts
  <2>2. CASE Conclude(answer, lastError) /\ answer \in Committed /\ lastTxn' = answer
    BY <2>2, ConcludeFacts, UndefinedFacts DEF WaitTypeOK, Committed, Transactions
  <2>3. CASE Settle(answer) /\ answer \in Errors \ Retried
    BY <2>3 DEF Settle, Outcomes, Errors, Retried, Committed
  <2> QED BY <1>2, <2>1, <2>2, <2>3
<1>4. WaitTypeOK'
  BY <1>1, <1>3 DEF WaitTypeOK, Requesting
<1>5. WaitShape'
  BY <1>1, <1>3 DEF WaitShape
<1>6. AnswersAreTrue'
  BY <1>1, UndefinedFacts DEF AnswersAreTrue
<1>7. TimeIsCounted'
  BY <1>1, <1>3 DEF TimeIsCounted, WaitTypeOK
<1>8. OutcomeMatchesChain' /\ TimeoutIsHonest'
  BY <1>1, <1>3, UndefinedFacts DEF OutcomeMatchesChain, TimeoutIsHonest, Committed
<1>9. OvershootIsBounded'
  BY <1>1 DEF OvershootIsBounded, TimeIsCounted
<1> QED BY <1>4, <1>5, <1>6, <1>7, <1>8, <1>9

\* LongWaited keeps the inductive invariant (the long wait, up to the head of
\* the polling loop).
LEMMA LongWaitedIInv == WaitIInv /\ LongWaited => WaitIInv'
<1> SUFFICES ASSUME WaitIInv, LongWaited PROVE WaitIInv'
  OBVIOUS
<1> USE DEF WaitIInv, LongWaited, nodeVars
<1>1. /\ awaited = "longWait" /\ outcome = Undefined /\ answer' = Undefined
      /\ lastTxn' \in Transactions \cup {Undefined} /\ lastError' \in Errors \cup {Undefined}
      /\ lastTxn' \in Committed => chain = lastTxn'
      /\ lastTxn' # Undefined \/ lastError' # Undefined \/ answer = "unexpected"
  BY UndefinedFacts DEF Learn, handleAPIError, WaitTypeOK, WaitShape, AnswersAreTrue, Requesting,
                   Transactions, Retried, Errors
<1>2. /\ timeElapsed' \in LongWaits \cup {0} /\ timeElapsed' \in Nat
      /\ clock = startTime + timeElapsed'
  BY DurationAssumption DEF TimeIsCounted, WaitTypeOK
<1>3. \/ awaited' = "poll" /\ outcome' = Undefined /\ timeElapsed' < timeoutSecs /\ answer # "unexpected"
      \/ /\ Conclude(lastTxn', lastError') /\ answer # "unexpected"
         /\ timeElapsed' >= timeoutSecs \/ lastTxn' \in Committed
      \/ Settle(answer) /\ answer \in Errors \ Retried
  BY <1>1 DEF Learn, handleAPIError, PollOrConclude, GoOn, Retried, Committed, Transactions
<1>4. /\ awaited' \in {"poll", "done"} /\ outcome' \in Outcomes \cup {Undefined}
      /\ outcome' # Undefined => awaited' = "done"
      /\ awaited' = "poll" => timeElapsed' < timeoutSecs /\ answer # "unexpected"
      /\ outcome' = "WaitForTransactionError" =>
            lastTxn' = "pending" /\ timeElapsed' >= timeoutSecs
      /\ outcome' \in Committed => lastTxn' = outcome'
      /\ outcome' = "FailedTransactionError" => lastTxn' = "failure"
      /\ outcome' = "failure" => ~checkSuccess
  <2>1. CASE awaited' = "poll" /\ outcome' = Undefined /\ timeElapsed' < timeoutSecs /\ answer # "unexpected"
    BY <2>1, UndefinedFacts
  <2>2. CASE /\ Conclude(lastTxn', lastError') /\ answer # "unexpected"
             /\ timeElapsed' >= timeoutSecs \/ lastTxn' \in Committed
    BY <1>1, <2>2, ConcludeFacts, UndefinedFacts DEF Committed, Transactions
  <2>3. CASE Settle(answer) /\ answer \in Errors \ Retried
    BY <2>3 DEF Settle, Outcomes, Errors, Retried, Committed
  <2> QED BY <1>3, <2>1, <2>2, <2>3
<1>5. WaitTypeOK'
  BY <1>1, <1>2, <1>4 DEF WaitTypeOK, Requesting
<1>6. WaitShape'
  BY <1>1, <1>4 DEF WaitShape
<1>7. AnswersAreTrue'
  BY <1>1, UndefinedFacts DEF AnswersAreTrue
<1>8. TimeIsCounted'
  <2>1. 2 * (backoffIntervalMs - FirstBackoff) <= timeElapsed'
    BY <1>1, <1>2, BackoffAssumption DEF TimeIsCounted, WaitTypeOK
  <2> QED BY <1>1, <1>2, <1>4, <2>1 DEF TimeIsCounted, WaitTypeOK
<1>9. OutcomeMatchesChain' /\ TimeoutIsHonest'
  BY <1>1, <1>2, <1>4, UndefinedFacts, TimeoutAssumption
  DEF OutcomeMatchesChain, TimeoutIsHonest, Committed, WaitTypeOK
<1>10. OvershootIsBounded'
  BY <1>2 DEF OvershootIsBounded
<1> QED BY <1>5, <1>6, <1>7, <1>8, <1>9, <1>10

\* Polled keeps the inductive invariant (a poll, up to its sleep).
LEMMA PolledIInv == WaitIInv /\ Polled => WaitIInv'
<1> SUFFICES ASSUME WaitIInv, Polled PROVE WaitIInv'
  OBVIOUS
<1> USE DEF WaitIInv, Polled, nodeVars
<1>1. /\ awaited = "poll" /\ outcome = Undefined /\ answer' = Undefined
      /\ lastTxn' \in Transactions \cup {Undefined} /\ lastError' \in Errors \cup {Undefined}
      /\ lastTxn' \in Committed => chain = lastTxn'
      /\ lastTxn' # Undefined \/ lastError' # Undefined
  BY UndefinedFacts DEF Learn, handleAPIError, WaitTypeOK, WaitShape, AnswersAreTrue, Requesting
<1>2. \/ awaited' = "sleep" /\ outcome' = Undefined
      \/ Conclude(answer, lastError) /\ answer \in Committed /\ lastTxn' = answer
      \/ Settle(answer) /\ answer \in Errors \ Retried
  BY <1>1 DEF Learn, handleAPIError, GoOn
<1>3. /\ awaited' \in {"sleep", "done"} /\ outcome' \in Outcomes \cup {Undefined}
      /\ outcome' # Undefined => awaited' = "done"
      /\ outcome' # "WaitForTransactionError"
      /\ outcome' \in Committed => lastTxn' = outcome'
      /\ outcome' = "FailedTransactionError" => lastTxn' = "failure"
      /\ outcome' = "failure" => ~checkSuccess
  <2>1. CASE awaited' = "sleep" /\ outcome' = Undefined
    BY <2>1, UndefinedFacts
  <2>2. CASE Conclude(answer, lastError) /\ answer \in Committed /\ lastTxn' = answer
    BY <2>2, ConcludeFacts, UndefinedFacts DEF WaitTypeOK, Committed, Transactions
  <2>3. CASE Settle(answer) /\ answer \in Errors \ Retried
    BY <2>3 DEF Settle, Outcomes, Errors, Retried, Committed
  <2> QED BY <1>2, <2>1, <2>2, <2>3
<1>4. WaitTypeOK'
  BY <1>1, <1>3 DEF WaitTypeOK, Requesting
<1>5. WaitShape'
  BY <1>1, <1>3 DEF WaitShape
<1>6. AnswersAreTrue'
  BY <1>1, UndefinedFacts DEF AnswersAreTrue
<1>7. TimeIsCounted'
  BY <1>1, <1>3 DEF TimeIsCounted, WaitTypeOK
<1>8. OutcomeMatchesChain' /\ TimeoutIsHonest'
  BY <1>1, <1>3, UndefinedFacts DEF OutcomeMatchesChain, TimeoutIsHonest, Committed
<1>9. OvershootIsBounded'
  BY <1>1 DEF OvershootIsBounded
<1> QED BY <1>4, <1>5, <1>6, <1>7, <1>8, <1>9

\* EndSleep keeps the inductive invariant (the sleep, up to the head of the loop).
\* The interval slept is at most half of the sleeps before it, which were
\* shorter than the timeout, and the first interval.
LEMMA WakeUpIInv == WaitIInv /\ EndSleep => WaitIInv'
<1> SUFFICES ASSUME WaitIInv, EndSleep PROVE WaitIInv'
  OBVIOUS
<1> USE DEF WaitIInv, EndSleep, nodeVars
<1>1. /\ awaited = "sleep" /\ outcome = Undefined /\ answer = Undefined /\ answer' = Undefined
      /\ lastTxn' \in Transactions \cup {Undefined} /\ lastError' \in Errors \cup {Undefined}
      /\ lastTxn' \in Committed => chain = lastTxn'
      /\ lastTxn' # Undefined \/ lastError' # Undefined
  BY UndefinedFacts DEF WaitTypeOK, WaitShape, AnswersAreTrue, Requesting
<1>2. /\ timeElapsed' \in Nat /\ clock' \in Nat /\ backoffIntervalMs' \in Nat
      /\ clock' >= startTime' + timeElapsed'
      /\ 2 * (backoffIntervalMs' - FirstBackoff) <= timeElapsed'
  BY <1>1, GrowthFacts, BackoffAssumption DEF TimeIsCounted, WaitTypeOK
<1>3. timeElapsed' <= timeoutSecs + (timeoutSecs \div 2) + FirstBackoff
  <2>1. timeElapsed < timeoutSecs /\ 2 * (backoffIntervalMs - FirstBackoff) <= timeElapsed
    BY <1>1 DEF TimeIsCounted
  <2>2. 2 * (timeoutSecs \div 2) >= timeoutSecs - 1 /\ timeoutSecs \div 2 \in Nat
    BY HalfFacts, TimeoutAssumption
  <2>3. timeElapsed' = timeElapsed + backoffIntervalMs
    OBVIOUS
  <2> HIDE DEF WaitIInv, EndSleep
  <2>4. timeElapsed \in Nat /\ backoffIntervalMs \in Nat
    BY DEF WaitIInv, WaitTypeOK
  <2> QED BY <2>1, <2>2, <2>3, <2>4, TimeoutAssumption, BackoffAssumption
<1>4. \/ awaited' = "poll" /\ outcome' = Undefined /\ timeElapsed' < timeoutSecs
      \/ Conclude(lastTxn', lastError') /\ timeElapsed' >= timeoutSecs
  BY <1>1 DEF PollOrConclude, GoOn
<1>5. /\ awaited' \in {"poll", "done"} /\ outcome' \in Outcomes \cup {Undefined}
      /\ outcome' # Undefined => awaited' = "done"
      /\ awaited' = "poll" => timeElapsed' < timeoutSecs
      /\ outcome' = "WaitForTransactionError" =>
            lastTxn' = "pending" /\ timeElapsed' >= timeoutSecs
      /\ outcome' \in Committed => lastTxn' = outcome'
      /\ outcome' = "FailedTransactionError" => lastTxn' = "failure"
      /\ outcome' = "failure" => ~checkSuccess
  <2>1. CASE awaited' = "poll" /\ outcome' = Undefined /\ timeElapsed' < timeoutSecs
    BY <2>1, UndefinedFacts
  <2>2. CASE Conclude(lastTxn', lastError') /\ timeElapsed' >= timeoutSecs
    BY <1>1, <2>2, ConcludeFacts, UndefinedFacts DEF Committed, Transactions
  <2> QED BY <1>4, <2>1, <2>2
<1>6. WaitTypeOK'
  BY <1>1, <1>2, <1>5 DEF WaitTypeOK, Requesting
<1>7. WaitShape'
  BY <1>1, <1>5 DEF WaitShape
<1>8. AnswersAreTrue'
  BY <1>1, UndefinedFacts DEF AnswersAreTrue
<1>9. TimeIsCounted'
  BY <1>1, <1>2, <1>5 DEF TimeIsCounted
<1>10. OutcomeMatchesChain' /\ TimeoutIsHonest'
  BY <1>1, <1>2, <1>5, UndefinedFacts, TimeoutAssumption
  DEF OutcomeMatchesChain, TimeoutIsHonest, Committed, WaitTypeOK
<1>11. OvershootIsBounded'
  BY <1>3 DEF OvershootIsBounded
<1> QED BY <1>6, <1>7, <1>8, <1>9, <1>10, <1>11

\* Whatever the response, the call sees a transaction or an error, and a
\* committed transaction only if the chain holds it.
LEMMA AnswersAreResponses ==
  ASSUME chain \in {"unknown"} \cup Transactions, NEW seen \in Answers
  PROVE  /\ seen \in Transactions \cup Errors
         /\ seen \in Committed => chain = seen
<1> USE DEF Seen, endlessRequest, Response, Data, EndlessApiError, TypeError,
            Transactions, Errors, Retried, Committed
<1>1. CASE seen = "unexpected"
  BY <1>1
<1>2. ASSUME NEW response \in Responses, seen = Seen(endlessRequest("Full node", response))
      PROVE  /\ seen \in Transactions \cup Errors
             /\ seen \in Committed => chain = seen
  <2>1. CASE response = Response(404, "apiError")
    BY <1>2, <2>1
  <2>2. CASE response = Response(200, chain) /\ chain # "unknown"
    <3>1. response.status = 200 /\ response.body = chain
      BY <2>2
    <3>2. endlessRequest("Full node", response) = Data(chain)
      BY <3>1
    <3>3. seen = chain
      BY <1>2, <3>2
    <3> QED BY <2>2, <3>3
  <2>3. CASE response \in ErrorResponses
    <3>1. /\ response.status \in {400, 401, 403, 404, 429, 500, 502, 503, 504}
          /\ response.body \in {"apiError", "text", "none"}
      BY <2>3 DEF ErrorResponses, ErrorStatuses
    <3>2. endlessRequest("Full node", response) \in {TypeError, EndlessApiError(response)}
      BY <3>1
    <3>3. seen \in Errors
      BY <1>2, <3>1, <3>2
    <3> QED BY <3>3
  <2> QED BY <2>1, <2>2, <2>3 DEF Responses
<1> QED BY <1>1, <1>2 DEF Answers

\* The node's steps keep the inductive invariant: an answer says what the chain
\* holds, and the chain forgets nothing that is committed.
LEMMA NodeIInv == WaitIInv /\ (AnswerRequest \/ Appear \/ CommitTransaction \/ Drop) => WaitIInv'
<1>1. ASSUME WaitIInv, AnswerRequest PROVE WaitIInv'
  <2> USE DEF WaitIInv, AnswerRequest, waitCallVars, nodeVars
  <2>1. /\ clock' \in Nat /\ clock' >= clock
        /\ awaited = "longWait" => \E time \in LongWaits : clock' = clock + time
    <3>1. PICK time \in (IF awaited = "longWait" THEN LongWaits ELSE RequestTimes) :
             clock' = clock + time
      BY <1>1
    <3>2. time \in Nat /\ clock \in Nat
      BY <1>1, <3>1, DurationAssumption DEF WaitTypeOK
    <3> HIDE DEF WaitIInv, AnswerRequest
    <3>3. clock' \in Nat /\ clock' >= clock
      BY <3>1, <3>2
    <3>4. awaited = "longWait" => time \in LongWaits
      BY <3>1
    <3> QED BY <3>1, <3>3, <3>4
  <2>2. /\ answer' \in Transactions \cup Errors
        /\ answer' \in Committed => chain = answer'
    BY <1>1, AnswersAreResponses DEF WaitTypeOK
  <2>3. WaitTypeOK'
    BY <1>1, <2>1, <2>2 DEF WaitTypeOK
  <2>4. WaitShape' /\ AnswersAreTrue' /\ OvershootIsBounded'
    BY <1>1, <2>2 DEF WaitShape, AnswersAreTrue, OvershootIsBounded
  <2>5. TimeIsCounted'
    BY <1>1, <2>1, <2>2, UndefinedFacts, DurationAssumption DEF TimeIsCounted, WaitTypeOK
  <2>6. OutcomeMatchesChain' /\ TimeoutIsHonest'
    BY <1>1, <2>1, UndefinedFacts, TimeoutAssumption
    DEF OutcomeMatchesChain, TimeoutIsHonest, WaitShape, Requesting, WaitTypeOK
  <2> QED BY <2>3, <2>4, <2>5, <2>6
<1>2. ASSUME WaitIInv, Appear \/ CommitTransaction \/ Drop PROVE WaitIInv'
  <2> USE DEF WaitIInv, Appear, CommitTransaction, Drop, waitCallVars
  <2>1. /\ UNCHANGED <<waitCallVars, answer, clock>>
        /\ chain \notin Committed
        /\ chain' \in {"unknown"} \cup Transactions
        /\ committedAt' \in Nat \cup {Undefined}
    BY <1>2 DEF WaitTypeOK, Committed, Transactions
  <2>2. WaitTypeOK'
    BY <1>2, <2>1 DEF WaitTypeOK
  <2>3. WaitShape' /\ OvershootIsBounded' /\ TimeIsCounted' /\ TimeoutIsHonest'
    BY <1>2, <2>1 DEF WaitShape, OvershootIsBounded, TimeIsCounted, TimeoutIsHonest
  <2>4. AnswersAreTrue'
    BY <1>2, <2>1 DEF AnswersAreTrue
  <2>5. OutcomeMatchesChain'
    BY <1>2, <2>1 DEF OutcomeMatchesChain, Committed
  <2> QED BY <2>2, <2>3, <2>4, <2>5
<1> QED BY <1>1, <1>2

\* Every reachable state satisfies the inductive invariant.
THEOREM Invariance == WaitSpec => []WaitIInv
<1>1. WaitIInv /\ [WaitNext]_waitVars => WaitIInv'
  <2> SUFFICES ASSUME WaitIInv, [WaitNext]_waitVars PROVE WaitIInv'
    OBVIOUS
  <2>1. CASE WaitStep
    BY <2>1, FirstLookIInv, LongWaitedIInv, PolledIInv, WakeUpIInv DEF WaitStep
  <2>2. CASE AnswerRequest \/ Appear \/ CommitTransaction \/ Drop
    BY <2>2, NodeIInv
  <2>3. CASE UNCHANGED waitVars
    BY <2>3 DEF waitVars, waitCallVars, nodeVars, WaitIInv, WaitTypeOK, WaitShape, AnswersAreTrue,
                TimeIsCounted, OutcomeMatchesChain, TimeoutIsHonest, OvershootIsBounded
  <2> QED BY <2>1, <2>2, <2>3 DEF WaitNext
<1> QED BY <1>1, InitIInv, PTL DEF WaitSpec

\* Every variable keeps its type, in particular the times never go negative.
THEOREM TypeCorrectness == WaitSpec => []WaitTypeOK
BY Invariance, PTL DEF WaitIInv

\* The outcome of an execution is what the chain holds.
THEOREM OutcomeMatchesChainHolds == WaitSpec => []OutcomeMatchesChain
BY Invariance, PTL DEF WaitIInv

\* The timeout error carries a pending transaction and is not early.
THEOREM TimeoutIsHonestHolds == WaitSpec => []TimeoutIsHonest
BY Invariance, PTL DEF WaitIInv

\* For every timeout, the sleeps end at most half of it and one first interval
\* after it.
THEOREM OvershootIsBoundedHolds == WaitSpec => []OvershootIsBounded
BY Invariance, PTL DEF WaitIInv

\* The timeout comes neither early nor late, whatever the node answers.
THEOREM TimeoutIsOnTimeHolds == WaitSpec => []TimeoutIsOnTime
<1>1. WaitIInv => TimeoutIsOnTime
  BY DEF WaitIInv, TimeoutIsOnTime
<1> QED BY <1>1, Invariance, PTL
-----------------------------------------------------------------------------
\* CommandLine: the processes that the SDK starts.

\* How far a run is: every sleep begins in time, and what is left of a sleep or a
\* check was counted when it began.
InTime(call) ==
    /\ call \in Calls
    /\ call.pc \in {"asked", "waiting"} => call.elapsed = 0
    /\ call.pc = "sleeping" => call.elapsed + call.left <= MAXIMUM_WAIT_TIME_SEC
    /\ call.pc = "polling" => call.elapsed + call.left <= MAXIMUM_WAIT_TIME_SEC + LongestCheck
    /\ call.pc \in {"returned", "threw"} => call.elapsed <= MAXIMUM_WAIT_TIME_SEC + LongestCheck
    /\ call.pc = "returned" => call.answer
    /\ call.pc = "threw" => ~call.answer /\ call.elapsed >= MAXIMUM_WAIT_TIME_SEC

RunsInv == run = [c \in Runners |-> run[c]] /\ \A c \in Runners : InTime(run[c])

LEMMA Limits == MAXIMUM_WAIT_TIME_SEC \in Nat \ {0} /\ LongestCheck \in Nat
BY CommandLineAssumption DEF CommandLineAssumption

\* A step of one run.
LEMMA OneRun ==
  ASSUME RunsInv, NEW c \in Runners, NEW call, InTime(call), run' = [run EXCEPT ![c] = call]
  PROVE  RunsInv'
BY DEF RunsInv

LEMMA CheckBegins ==
  ASSUME NEW call \in Calls, NEW stage \in Checking, call.elapsed \in Nat,
         stage # "polling" => call.elapsed = 0, call.elapsed <= MAXIMUM_WAIT_TIME_SEC
  PROVE  InTime(Check(call, stage))
<1>1. Check(call, stage) = [call EXCEPT !.pc = stage, !.left = LongestCheck]
  BY DEF Check
<1>2. Check(call, stage) \in Calls
  BY <1>1, Limits DEF Calls, Checking
<1>3. /\ Check(call, stage).pc = stage /\ Check(call, stage).left = LongestCheck
      /\ Check(call, stage).elapsed = call.elapsed
  BY <1>1 DEF Calls
<1> QED
  BY <1>2, <1>3, Limits DEF InTime, Checking

\* The loop of waitUntilProcessIsUp sleeps only while there is time.
LEMMA LoopContinues ==
  ASSUME NEW call \in Calls, NEW operational \in BOOLEAN,
         call.elapsed <= MAXIMUM_WAIT_TIME_SEC + LongestCheck
  PROVE  InTime(Continue(call, operational, call.elapsed))
<1> DEFINE known == [call EXCEPT !.answer = operational, !.left = 0]
<1>1. /\ known \in Calls /\ known.elapsed = call.elapsed /\ known.answer = operational
      /\ call.elapsed \in Nat
  BY DEF Calls
<1> HIDE DEF known
<1>2. CASE operational
  <2>1. Continue(call, operational, call.elapsed) = [known EXCEPT !.pc = "returned"]
    BY <1>2 DEF Continue, known
  <2> QED
    BY <1>1, <1>2, <2>1 DEF InTime, Calls
<1>3. CASE ~operational /\ call.elapsed < MAXIMUM_WAIT_TIME_SEC
  <2>1. Continue(call, operational, call.elapsed) = [known EXCEPT !.pc = "sleeping", !.left = 1]
    BY <1>3 DEF Continue, known
  <2> DEFINE sleeps == [known EXCEPT !.pc = "sleeping", !.left = 1]
  <2>2. sleeps \in Calls /\ sleeps.pc = "sleeping" /\ sleeps.left = 1 /\ sleeps.elapsed = call.elapsed
    BY <1>1 DEF Calls
  <2> HIDE DEF sleeps
  <2>3. InTime(sleeps)
    BY <1>1, <1>3, <2>2, Limits DEF InTime
  <2> QED
    BY <2>1, <2>3 DEF sleeps
<1>4. CASE ~operational /\ ~(call.elapsed < MAXIMUM_WAIT_TIME_SEC)
  <2>1. Continue(call, operational, call.elapsed) = [known EXCEPT !.pc = "threw"]
    BY <1>4 DEF Continue, known
  <2> QED
    BY <1>1, <1>4, <2>1, Limits DEF InTime, Calls
<1> QED
  BY <1>2, <1>3, <1>4

LEMMA AnswersAreBoolean == AnswersToCheck \subseteq BOOLEAN
BY DEF AnswersToCheck

LEMMA RunsKeep ==
  ASSUME RunsInv, NEW c \in Runners, Run(c) \/ AnswerRun(c) \/ AnswerFirst(c) \/ Wake(c) \/ AnswerPoll(c)
  PROVE  RunsInv'
<1>0. InTime(run[c]) /\ run[c] \in Calls /\ run[c].elapsed \in Nat /\ run[c].left \in Nat
  BY DEF RunsInv, InTime, Calls
<1>1. CASE Run(c)
  <2> DEFINE asked == [Check(run[c], "asked") EXCEPT !.elapsed = 0]
             fresh == [run[c] EXCEPT !.elapsed = 0]
  <2>1. asked = Check(fresh, "asked")
    BY <1>0 DEF Check, Calls
  <2>2. fresh \in Calls /\ fresh.elapsed = 0
    BY <1>0 DEF Calls
  <2>3. InTime(asked)
    <3> HIDE DEF fresh
    <3> QED
      BY <2>1, <2>2, Limits, CheckBegins DEF Checking
  <2> QED
    BY <1>1, <2>3, OneRun DEF Run
<1>2. CASE AnswerRun(c)
  <2>1. run[c].pc = "asked" /\ run[c].elapsed = 0
    BY <1>0, <1>2 DEF AnswerRun, InTime
  <2>2. CASE run' = [run EXCEPT ![c].pc = "returned", ![c].answer = TRUE, ![c].left = 0]
    <3> DEFINE done == [run[c] EXCEPT !.pc = "returned", !.answer = TRUE, !.left = 0]
    <3>1. InTime(done)
      <4>1. done \in Calls /\ done.pc = "returned" /\ done.answer /\ done.elapsed = 0
        BY <1>0, <2>1 DEF Calls
      <4> HIDE DEF done
      <4> QED
        BY <4>1, Limits DEF InTime
    <3>2. run' = [run EXCEPT ![c] = done]
      BY <2>2 DEF RunsInv
    <3> QED
      BY <3>1, <3>2, OneRun
  <2>3. CASE run' = [run EXCEPT ![c] = [Check(run[c], "waiting") EXCEPT !.answer = FALSE]]
    <3> DEFINE known == [run[c] EXCEPT !.answer = FALSE]
               waits == [Check(run[c], "waiting") EXCEPT !.answer = FALSE]
    <3>1. waits = Check(known, "waiting") /\ known \in Calls /\ known.elapsed = 0
      BY <1>0, <2>1 DEF Check, Calls
    <3>2. InTime(waits)
      <4> HIDE DEF known, waits
      <4> QED
        BY <3>1, Limits, CheckBegins DEF Checking
    <3> QED
      BY <2>3, <3>2, OneRun
  <2> QED
    BY <1>2, <2>2, <2>3 DEF AnswerRun
<1>3. CASE AnswerFirst(c)
  <2>1. run[c].pc = "waiting" /\ run[c].elapsed = 0
    BY <1>0, <1>3 DEF AnswerFirst, InTime
  <2>2. PICK operational \in BOOLEAN : run' = [run EXCEPT ![c] = Continue(run[c], operational, 0)]
    BY <1>3, AnswersAreBoolean DEF AnswerFirst
  <2>3. InTime(Continue(run[c], operational, run[c].elapsed))
    BY <1>0, <2>1, Limits, LoopContinues
  <2> QED
    BY <2>1, <2>2, <2>3, OneRun
<1>4. CASE Wake(c)
  <2>1. run[c].pc = "sleeping" /\ run[c].left = 0 /\ run' = [run EXCEPT ![c] = Check(run[c], "polling")]
    BY <1>4 DEF Wake
  <2>2. run[c].elapsed <= MAXIMUM_WAIT_TIME_SEC
    BY <1>0, <2>1, Limits DEF InTime
  <2>3. InTime(Check(run[c], "polling"))
    BY <1>0, <2>2, CheckBegins DEF Checking
  <2> QED
    BY <2>1, <2>3, OneRun
<1>5. CASE AnswerPoll(c)
  <2>1. run[c].pc = "polling" /\ run[c].elapsed <= MAXIMUM_WAIT_TIME_SEC + LongestCheck
    BY <1>0, <1>5, Limits DEF AnswerPoll, InTime
  <2>2. PICK operational \in BOOLEAN : run' = [run EXCEPT ![c] = Continue(run[c], operational, run[c].elapsed)]
    BY <1>5, AnswersAreBoolean DEF AnswerPoll
  <2>3. InTime(Continue(run[c], operational, run[c].elapsed))
    BY <1>0, <2>1, LoopContinues
  <2> QED
    BY <2>2, <2>3, OneRun
<1> QED
  BY <1>1, <1>2, <1>3, <1>4, <1>5

LEMMA SecondKeeps ==
  ASSUME RunsInv, SecondPasses
  PROVE  RunsInv'
<1>1. ASSUME NEW c \in Runners
      PROVE  InTime(run'[c])
  <2>1. InTime(run[c]) /\ run[c] \in Calls /\ run[c].elapsed \in Nat /\ run[c].left \in Nat
    BY DEF RunsInv, InTime, Calls
  <2>2. CASE ~Busy(c)
    BY <2>1, <2>2 DEF SecondPasses
  <2>3. CASE Busy(c)
    <3> DEFINE call == [run[c] EXCEPT !.left = @ - 1, !.elapsed = IF run[c].pc \in Started THEN @ + 1 ELSE @]
    <3>1. run'[c] = call /\ run[c].left > 0
      BY <2>3 DEF SecondPasses
    <3>2. call \in Calls
      <4> DEFINE e == IF run[c].pc \in Started THEN run[c].elapsed + 1 ELSE run[c].elapsed
                 l == run[c].left - 1
      <4>1. e \in Nat /\ l \in Nat
        BY <2>1, <3>1
      <4>2. call = [run[c] EXCEPT !.left = l, !.elapsed = e]
        OBVIOUS
      <4> HIDE DEF e, l, call
      <4> QED
        BY <2>1, <4>1, <4>2 DEF Calls
    <3>3. /\ call.pc = run[c].pc /\ call.left = run[c].left - 1
          /\ call.elapsed = IF run[c].pc \in Started THEN run[c].elapsed + 1 ELSE run[c].elapsed
      BY <2>1 DEF Calls
    <3> HIDE DEF call
    <3>4. run[c].pc \in {"asked", "waiting", "polling", "sleeping"}
      BY <2>3 DEF Busy, Checking
    <3> QED
      BY <2>1, <3>1, <3>2, <3>3, <3>4, Limits DEF InTime, Started
  <2> QED
    BY <2>2, <2>3
<1>2. run' = [c \in Runners |-> run'[c]]
  BY DEF SecondPasses
<1> QED
  BY <1>1, <1>2 DEF RunsInv

LEMMA RunsInvInitially == CommandLineInit => RunsInv
BY DEF CommandLineInit, RunsInv, InTime, Calls

LEMMA CommandLineStep == RunsInv /\ [CommandLineNext]_commandLineVars => RunsInv'
<1> SUFFICES ASSUME RunsInv, [CommandLineNext]_commandLineVars
             PROVE  RunsInv'
  OBVIOUS
<1>1. ASSUME NEW c \in Runners, Run(c) \/ AnswerRun(c) \/ AnswerFirst(c) \/ Wake(c) \/ AnswerPoll(c)
      PROVE  RunsInv'
  BY <1>1, RunsKeep
<1>2. CASE SecondPasses
  BY <1>2, SecondKeeps
<1>3. ASSUME \/ Stop \/ SpawnFails \/ Elsewhere \/ UNCHANGED commandLineVars
             \/ \E i \in DOMAIN nodes : NodeComesUp(i) \/ NodeDies(i)
             \/ \E named \in NamedAddresses : RunCommand(named)
             \/ \E code \in Codes : Close(code)
      PROVE  RunsInv'
  <2>1. run' = run
    BY <1>3 DEF Stop, SpawnFails, Elsewhere, commandLineVars, localVars, NodeComesUp, NodeDies, RunCommand, Close
  <2> QED
    BY <2>1 DEF RunsInv
<1> QED
  BY <1>1, <1>2, <1>3 DEF CommandLineNext, Program

LEMMA RunsInvariance == CommandLineSpec => []RunsInv
BY RunsInvInitially, CommandLineStep, PTL DEF CommandLineSpec

\* RunTellsTheTruth for any number of callers, waiting time and checks: what
\* LocalNode.run says of the node its last check said.
THEOREM RunTellsTheTruthHolds == CommandLineSpec => []RunTellsTheTruth
<1>1. RunsInv => RunTellsTheTruth
  BY DEF RunsInv, InTime, RunTellsTheTruth
<1> QED
  BY <1>1, RunsInvariance, PTL

\* RunIsPunctual for any of them: no run waits longer than MAXIMUM_WAIT_TIME_SEC and
\* one check.
THEOREM RunIsPunctualHolds == CommandLineSpec => []RunIsPunctual
<1>1. ASSUME NEW c \in Runners, InTime(run[c]), run[c].pc # "idle"
      PROVE  run[c].elapsed <= MAXIMUM_WAIT_TIME_SEC + LongestCheck
  <2> DEFINE call == run[c]
  <2>1. call.elapsed \in Nat /\ call.left \in Nat
        /\ call.pc \in {"asked", "waiting", "sleeping", "polling", "returned", "threw"}
    BY <1>1 DEF InTime, Calls
  <2> QED
    BY <1>1, <2>1, Limits DEF InTime
<1>2. RunsInv => RunIsPunctual
  BY <1>1 DEF RunsInv, RunIsPunctual
<1> QED
  BY <1>2, RunsInvariance, PTL

\* Both.
THEOREM ProcessesKeepTheirPromisesHolds == CommandLineSpec => []ProcessesKeepTheirPromises
<1>1. RunTellsTheTruth /\ RunIsPunctual => ProcessesKeepTheirPromises
  BY DEF ProcessesKeepTheirPromises
<1> QED
  BY <1>1, RunTellsTheTruthHolds, RunIsPunctualHolds, PTL
=============================================================================
