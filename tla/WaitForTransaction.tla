------------------------ MODULE WaitForTransaction ------------------------
(***************************************************************************)
(* waitForTransaction (internal/transaction.ts): one call that waits for   *)
(* one transaction, beside a node on which the transaction appears, is     *)
(* committed, or is dropped.                                               *)
(*                                                                         *)
(* An action is the code between two awaits.  awaited is the await the     *)
(* call is suspended on:                                                   *)
(*   first     getTransactionByHash before anything else                   *)
(*   longWait  longWaitForTransaction                                      *)
(*   poll      getTransactionByHash in the polling loop                    *)
(*   sleep     the sleep of the polling loop                               *)
(*   done      the promise is settled                                      *)
(* A request is answered with what the node knows then; the call sees the  *)
(* answer later.                                                           *)
(*                                                                         *)
(* Time is counted in units of 1/2560 s: 200 ms are 512 units, and the     *)
(* factor 1.5 stays exact through nine intervals, as many as 20 s take.    *)
(***************************************************************************)
EXTENDS Integers

(***************************************************************************)
(* endlessRequest (client/core.ts): what a response of a service becomes   *)
(* for the caller.  A response has a status and a body: data of the        *)
(* service, its description of an error ("apiError", with a message and an *)
(* error_code), errors in an answer to a query ("errors"), the text of     *)
(* something on the way ("text"), or "none".                               *)
(***************************************************************************)
\* The statuses that have a message of their own, and one that has not.
ErrorStatuses == {400, 401, 403, 404, 429, 500, 502, 503, 504}

Response(status, body) == [status |-> status, body |-> body]
ErrorResponses == [status : ErrorStatuses, body : {"apiError", "text", "none"}]

Data(body) == [thrown |-> "none", status |-> 200, body |-> body]
EndlessApiError(response) ==
    [thrown |-> "EndlessApiError", status |-> response.status, body |-> response.body]
\* "message" in data, where data is a string, and data.errors without data.
TypeError == [thrown |-> "TypeError", status |-> 0, body |-> "none"]

\* The status decides, but an answer to a query that holds errors is refused
\* whatever its status, and a text in the place of an error cannot be read.
endlessRequest(apiType, response) ==
    LET isQuery == apiType = "Indexer"
    IN  CASE response.status = 401 \/ (isQuery /\ response.body = "errors") ->
               EndlessApiError(response)
          [] response.status # 401 /\ isQuery /\ response.body = "none" -> TypeError
          [] OTHER ->
               IF response.status \in 200..299 THEN Data(response.body)
               ELSE IF response.body = "text" THEN TypeError
               ELSE EndlessApiError(response)
-----------------------------------------------------------------------------

CONSTANTS Undefined,            \* undefined
          timeoutSecs,     \* options.timeoutSecs, in units
          FirstBackoff,    \* the first backoffIntervalMs, in units
          RequestTimes,    \* how long a request can take, in units
          LongWaits        \* how long the node's long wait can take, in units

ASSUME TimeoutAssumption == timeoutSecs \in Nat
ASSUME BackoffAssumption == FirstBackoff \in Nat \ {0}
ASSUME DurationAssumption == RequestTimes \subseteq Nat /\ LongWaits \subseteq Nat

VARIABLES
    awaited, checkSuccess,
    lastTxn, lastError,     \* the last transaction and the last error seen
    timeElapsed, backoffIntervalMs,
    startTime,              \* Date.now() before the long wait
    outcome,                \* how the promise is settled, or Undefined
    answer,                 \* the answer on its way to the call, or Undefined
    chain,                  \* the transaction at the node
    clock,                  \* the time since the call
    committedAt             \* history: the clock at the commit, or Undefined

waitCallVars == <<awaited, checkSuccess, lastTxn, lastError, timeElapsed,
              backoffIntervalMs, startTime, outcome>>
nodeVars == <<chain, committedAt>>
waitVars == <<waitCallVars, nodeVars, answer, clock>>

Committed == {"success", "failure"}
Transactions == {"pending"} \cup Committed   \* what a response can hold

\* An EndlessApiError with status 404 or 5xx, one with another 4xx, and any
\* other exception (no response, or one that endlessRequest cannot read).
Retried == {"notFound", "serverError"}
Errors == Retried \cup {"requestError", "unexpected"}

Outcomes == {"WaitForTransactionError", "FailedTransactionError"} \cup Committed \cup Errors

ASSUME UndefinedAssumption == Undefined \notin Int /\ Undefined \notin Transactions \cup Outcomes

Requesting == {"first", "longWait", "poll"}

WaitTypeOK ==
    /\ awaited \in Requesting \cup {"sleep", "done"}
    /\ checkSuccess \in BOOLEAN
    /\ lastTxn \in Transactions \cup {Undefined}
    /\ lastError \in Errors \cup {Undefined}
    /\ timeElapsed \in Nat
    /\ backoffIntervalMs \in Nat
    /\ startTime \in Nat
    /\ outcome \in Outcomes \cup {Undefined}
    /\ answer \in Transactions \cup Errors \cup {Undefined}
    /\ chain \in {"unknown"} \cup Transactions
    /\ clock \in Nat
    /\ committedAt \in Nat \cup {Undefined}

WaitInit ==
    /\ awaited = "first"
    /\ checkSuccess \in BOOLEAN
    /\ lastTxn = Undefined
    /\ lastError = Undefined
    /\ timeElapsed = 0
    /\ backoffIntervalMs = FirstBackoff
    /\ startTime = 0
    /\ outcome = Undefined
    /\ answer = Undefined
    /\ chain \in {"unknown", "pending"}
    /\ clock = 0
    /\ committedAt = Undefined
-----------------------------------------------------------------------------
\* The promise is settled.
Settle(how) ==
    /\ awaited' = "done"
    /\ outcome' = how

\* Mutant: checkSuccess is not looked at.
Conclude_NoCheck(txn, error) ==
    \/ txn = Undefined /\ error # Undefined /\ Settle(error)
    \/ txn = Undefined /\ error = Undefined /\ Settle("WaitForTransactionError")
    \/ txn = "pending" /\ Settle("WaitForTransactionError")
    \/ txn \in Committed /\ Settle(txn)

\* What follows the polling loop, with the transaction and error seen last.
Conclude(txn, error) ==
    \/ txn = Undefined /\ error # Undefined /\ Settle(error)
    \/ txn = Undefined /\ error = Undefined /\ Settle("WaitForTransactionError")
    \/ txn = "pending" /\ Settle("WaitForTransactionError")
    \/ txn = "failure" /\ checkSuccess /\ Settle("FailedTransactionError")
    \/ txn \in Committed /\ ~(txn = "failure" /\ checkSuccess) /\ Settle(txn)

\* The call goes on to its next await.
GoOn(where) ==
    /\ awaited' = where
    /\ UNCHANGED outcome

\* Mutant: the loop is only left once the transaction was seen.
PollOrConclude_UntilSeen(elapsed) ==
    \/ (elapsed < timeoutSecs \/ lastTxn' = Undefined) /\ GoOn("poll")
    \/ elapsed >= timeoutSecs /\ lastTxn' # Undefined /\ Conclude(lastTxn', lastError')

\* The test at the head of the polling loop.
PollOrConclude(elapsed) ==
    \/ elapsed < timeoutSecs /\ GoOn("poll")
    \/ elapsed >= timeoutSecs /\ Conclude(lastTxn', lastError')

\* An exception: a 404 or 5xx is remembered and the wait goes on, any other
\* EndlessApiError and any other exception ends the call.
handleAPIError(stillWaiting) ==
    /\ answer \in Errors
    /\ lastError' = IF answer = "unexpected" THEN lastError ELSE answer
    /\ UNCHANGED lastTxn
    /\ \/ answer \in Retried /\ stillWaiting
       \/ answer \in Errors \ Retried /\ Settle(answer)

\* The end of a request: a committed transaction concludes the call, and
\* stillWaiting is what it does otherwise.
Learn(stillWaiting) ==
    /\ answer' = Undefined
    /\ \/ /\ answer \in Transactions
          /\ lastTxn' = answer
          /\ UNCHANGED lastError
          /\ \/ answer = "pending" /\ stillWaiting
             \/ answer \in Committed /\ Conclude(answer, lastError)
       \/ handleAPIError(stillWaiting)

\* The first look at the transaction.
FirstLook ==
    /\ awaited = "first"
    /\ Learn(GoOn("longWait"))
    /\ startTime' = IF awaited' = "longWait" THEN clock ELSE startTime
    /\ UNCHANGED <<nodeVars, checkSuccess, timeElapsed, backoffIntervalMs, clock>>

\* The answer of the long wait.
LongWaited ==
    /\ awaited = "longWait"
    /\ timeElapsed' = clock - startTime
    /\ Learn(PollOrConclude(timeElapsed'))
    /\ UNCHANGED <<nodeVars, checkSuccess, startTime, backoffIntervalMs, clock>>

\* Mutant: a poll that learns nothing is repeated at once.
Polled_NoSleep ==
    /\ awaited = "poll"
    /\ Learn(GoOn("poll"))
    /\ UNCHANGED <<nodeVars, checkSuccess, timeElapsed, startTime,
                   backoffIntervalMs, clock>>

\* The answer of a poll.
Polled ==
    /\ awaited = "poll"
    /\ Learn(GoOn("sleep"))
    /\ UNCHANGED <<nodeVars, checkSuccess, timeElapsed, startTime,
                   backoffIntervalMs, clock>>

\* The end of the sleep, up to the head of the loop.
EndSleep ==
    /\ awaited = "sleep"
    /\ clock' = clock + backoffIntervalMs
    /\ timeElapsed' = timeElapsed + backoffIntervalMs
    /\ backoffIntervalMs' = (backoffIntervalMs * 3) \div 2
    /\ UNCHANGED <<lastTxn, lastError>>
    /\ PollOrConclude(timeElapsed')
    /\ UNCHANGED <<nodeVars, checkSuccess, startTime, answer>>
-----------------------------------------------------------------------------
\* What a request is answered: the transaction as it is, a 404 when the node
\* does not have it, or an error of the node or of what lies before it.
Responses ==
    {IF chain = "unknown" THEN Response(404, "apiError") ELSE Response(200, chain)}
    \cup {response \in ErrorResponses : response.status # 404}

\* What handleAPIError tells apart.
Seen(result) ==
    CASE result.thrown = "none" -> result.body
      [] result.thrown = "EndlessApiError" ->
           IF result.status = 404 THEN "notFound"
           ELSE IF result.status \in 400..499 THEN "requestError" ELSE "serverError"
      [] result.thrown = "TypeError" -> "unexpected"

\* Or the request gets no response.
Answers ==
    {"unexpected"} \cup {Seen(endlessRequest("Full node", response)) : response \in Responses}

AnswerRequest ==
    /\ awaited \in Requesting
    /\ answer = Undefined
    /\ answer' \in Answers
    /\ \E time \in (IF awaited = "longWait" THEN LongWaits ELSE RequestTimes) :
          clock' = clock + time
    /\ UNCHANGED <<waitCallVars, nodeVars>>

\* The node receives the transaction, executes and commits it, or drops it.
Appear ==
    /\ awaited # "done"
    /\ chain = "unknown"
    /\ chain' = "pending"
    /\ UNCHANGED <<waitCallVars, committedAt, answer, clock>>

CommitTransaction ==
    /\ awaited # "done"
    /\ chain = "pending"
    /\ chain' \in Committed
    /\ committedAt' = clock
    /\ UNCHANGED <<waitCallVars, answer, clock>>

Drop ==
    /\ awaited # "done"
    /\ chain = "pending"
    /\ chain' = "unknown"
    /\ UNCHANGED <<waitCallVars, committedAt, answer, clock>>

WaitStep == FirstLook \/ LongWaited \/ Polled \/ EndSleep

WaitNext == WaitStep \/ AnswerRequest \/ Appear \/ CommitTransaction \/ Drop

\* The call is resumed when it can be, and every request ends in an answer or
\* in an exception. The transaction need not move.
WaitFairness == WF_waitVars(WaitStep) /\ WF_waitVars(AnswerRequest)

WaitSpec == WaitInit /\ [][WaitNext]_waitVars
WaitFairSpec == WaitSpec /\ WaitFairness
-----------------------------------------------------------------------------
\* The outcome of an execution is never invented: a transaction, or the error
\* for a failed one, is what the chain holds, however late the answer was, and
\* a failed transaction is returned only to a caller that asked for it.
OutcomeMatchesChain ==
    /\ outcome \in Committed => chain = outcome
    /\ outcome = "FailedTransactionError" => chain = "failure"
    /\ outcome = "failure" => ~checkSuccess

\* A WaitForTransactionError always carries a pending transaction (the branch
\* that throws it with none is dead), and never comes before the timeout.
TimeoutIsHonest ==
    outcome = "WaitForTransactionError" => lastTxn = "pending" /\ clock >= timeoutSecs

\* The sleeps stop soon after the timeout: at most half of it, and the first
\* interval, later.
OvershootIsBounded ==
    awaited # "first" =>
       \/ timeElapsed \in LongWaits \cup {0}
       \/ timeElapsed <= timeoutSecs + (timeoutSecs \div 2) + FirstBackoff

\* The timeout comes neither early nor late.
TimeoutIsOnTime == TimeoutIsHonest /\ OvershootIsBounded

\* What the invariants above need to be inductive. An answer is on its way
\* only while a request is open, and a call with an outcome is over.
WaitShape ==
    /\ answer # Undefined => awaited \in Requesting
    /\ outcome # Undefined => awaited = "done"
    /\ awaited \in {"poll", "sleep"} => lastTxn # Undefined \/ lastError # Undefined

\* A committed transaction is never uncommitted, so an answer that holds one
\* stays true.
AnswersAreTrue ==
    /\ answer \in Committed => chain = answer
    /\ lastTxn \in Committed => chain = lastTxn

\* timeElapsed is the long wait and the sleeps, and the intervals grow no faster
\* than their sum.
TimeIsCounted ==
    /\ clock >= startTime + timeElapsed
    /\ awaited \in {"first", "longWait"} => timeElapsed = 0
    /\ awaited = "longWait" => (clock - startTime) \in LongWaits \cup {0}
    /\ awaited = "longWait" /\ answer = Undefined => clock = startTime
    /\ awaited \in {"poll", "sleep"} => timeElapsed < timeoutSecs
    /\ 2 * (backoffIntervalMs - FirstBackoff) <= timeElapsed

WaitIInv ==
    /\ WaitTypeOK /\ WaitShape /\ AnswersAreTrue /\ TimeIsCounted
    /\ OutcomeMatchesChain /\ TimeoutIsHonest /\ OvershootIsBounded

\* The promise is settled, whatever the node answers.
WaitingEnds == <>(awaited = "done")

=============================================================================
