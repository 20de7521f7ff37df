------------------------- MODULE TransactionWorker -------------------------
(***************************************************************************)
(* TransactionWorker (transactions/management/transactionWorker.ts): the   *)
(* payload, task and outstanding queues, the run loop of every start(),    *)
(* the account's sequence numbers (AccountSequenceNumber, instantiated on  *)
(* the run loops) and the part of the network the worker sees.             *)
(*                                                                         *)
(* An action is the code of one coroutine between two awaits.  at says     *)
(* which await a run loop is suspended on:                                 *)
(*   none          not started                                             *)
(*   taskPending   taskQueue.dequeue, nothing to take yet                  *)
(*   taskReady     taskQueue.dequeue, holding `task`                       *)
(*   numbering     nextSequenceNumber()                                    *)
(*   generating    generateNextTransaction(), holding `payload`            *)
(*   submitted     the await of outstandingTransactions.enqueue            *)
(*   taskDone      the await of task()                                     *)
(*   outPending    outstandingTransactions.dequeue, nothing to take yet    *)
(*   outReady      outstandingTransactions.dequeue, holding `item`         *)
(*   settling      Promise.allSettled of the batch                         *)
(*   reporting     inside the for loop over the batch, at `index`          *)
(*   checking      checkTransaction() of the entry at `index`              *)
(*   returned      run() has ended                                         *)
(*   failed        run() has been rejected; nobody awaits it               *)
(* Listeners run inside emit and may call push, start and stop, so each    *)
(* turn of the for loop is a step of its own.                              *)
(***************************************************************************)
EXTENDS AsyncQueueOps, Integers, Sequences, FiniteSets

CONSTANTS NumPayloads,      \* payloads the application pushes
          MaxStarts,        \* bound: calls of start(), each with its run loop
          MaxStops,         \* bound: calls of stop()
          Null, maximumInFlight, maxWaitTime, StartNumbers, MaxNumber

ASSUME SizeAssumption == NumPayloads \in Nat /\ MaxStarts \in Nat /\ MaxStops \in Nat

\* What AccountSequenceNumber assumes of its constants.
ASSUME NumbersAssumption ==
    /\ Null \notin Int
    /\ maximumInFlight \in Nat \ {0}
    /\ maxWaitTime \in Nat
    /\ StartNumbers \subseteq Nat
    /\ MaxNumber \in Nat

Payloads == 1 .. NumPayloads
Loops == 1 .. MaxStarts

VARIABLES
    started, taskQueue, transactionsQueue, outstandingTransactions,
    sentTransactions, executedTransactions,
    at, task, payload, item, batch, index,  \* the locals of each run loop
    submission,      \* the state of each payload's submission promise
    txnNumber,       \* the sequence number each transaction was signed with
    mempool,         \* the transactions the node has admitted
    onChain,         \* what became of each transaction on chain
    events,          \* history: the events emitted, in order
    pushed, starts, stops,  \* history: how often each method was called
    (* AccountSequenceNumber *)
    lastUncommintedNumber, currentNumber, lock, op, pc, request, reply,
    elapsed, result, chainSequence, used, grants, resynced, misread

Numbers == INSTANCE AccountSequenceNumber WITH Callers <- Loops

queueVars == <<taskQueue, transactionsQueue, outstandingTransactions>>
loopVars == <<at, task, payload, item, batch, index>>
recordVars == <<sentTransactions, executedTransactions, events>>
networkVars == <<submission, txnNumber, mempool, onChain>>
userVars == <<started, pushed, starts, stops>>
numberingVars == <<lastUncommintedNumber, currentNumber, lock, op, pc, request, reply,
                   elapsed, result, chainSequence, used, grants, resynced, misread>>
workerVars == <<userVars, queueVars, loopVars, recordVars, networkVars>>
vars == <<workerVars, numberingVars>>

Entry == [txn : Payloads, number : Nat]
Record == [txn : Payloads, number : Nat, fulfilled : BOOLEAN]
NoEntry == [txn |-> 0, number |-> 0]

Places == {"none", "taskPending", "taskReady", "numbering", "generating", "submitted",
           "taskDone", "outPending", "outReady", "settling", "reporting", "checking",
           "returned", "failed"}

TypeOK ==
    /\ started \in BOOLEAN
    /\ taskQueue \in QueueType({"submit", "process"}, Loops)
    /\ transactionsQueue \in QueueType(Payloads, Loops)
    /\ outstandingTransactions \in QueueType(Entry, Loops)
    /\ sentTransactions \in Seq(Record)
    /\ executedTransactions \in Seq(Record)
    /\ at \in [Loops -> Places]
    /\ task \in [Loops -> {"none", "submit", "process"}]
    /\ payload \in [Loops -> Payloads \cup {0}]
    /\ item \in [Loops -> Entry \cup {NoEntry}]
    /\ batch \in [Loops -> Seq(Entry)]
    /\ index \in [Loops -> Nat]
    /\ submission \in [Payloads -> {"none", "posting", "admitted", "accepted", "rejected"}]
    /\ txnNumber \in [Payloads -> Nat \cup {Null}]
    /\ mempool \subseteq Payloads
    /\ onChain \in [Payloads -> {"no", "success", "failure"}]
    /\ pushed \in 0 .. NumPayloads
    /\ starts \in 0 .. MaxStarts
    /\ stops \in 0 .. MaxStops
    /\ Numbers!TypeOK
-----------------------------------------------------------------------------
Init ==
    /\ started = FALSE
    /\ taskQueue = NewQueue
    /\ transactionsQueue = NewQueue
    /\ outstandingTransactions = NewQueue
    /\ sentTransactions = <<>>
    /\ executedTransactions = <<>>
    /\ at = [l \in Loops |-> "none"]
    /\ task = [l \in Loops |-> "none"]
    /\ payload = [l \in Loops |-> 0]
    /\ item = [l \in Loops |-> NoEntry]
    /\ batch = [l \in Loops |-> <<>>]
    /\ index = [l \in Loops |-> 0]
    /\ submission = [p \in Payloads |-> "none"]
    /\ txnNumber = [p \in Payloads |-> Null]
    /\ mempool = {}
    /\ onChain = [p \in Payloads |-> "no"]
    /\ events = <<>>
    /\ pushed = 0 /\ starts = 0 /\ stops = 0
    /\ Numbers!Init

GoTo(l, place) == at' = [at EXCEPT ![l] = place]
-----------------------------------------------------------------------------
(* What the application calls. *)

\* push: the payload is appended to transactionsQueue.
pushPayload(p) ==
    /\ p = pushed + 1 /\ p \in Payloads
    /\ pushed' = p
    /\ transactionsQueue' = Enqueue(transactionsQueue, p)

push ==
    /\ \E p \in Payloads : pushPayload(p)
    /\ UNCHANGED <<started, starts, stops, taskQueue, outstandingTransactions,
                   loopVars, recordVars, networkVars, numberingVars>>

\* start: queue the two tasks, which older run loops that wait for a task take
\* first, and let a new run loop take or await the next one.
startLoop(l) ==
    LET one == Enqueue(taskQueue, "submit")
        two == Enqueue(one, "process")
        first == IF HasWaiter(taskQueue) THEN {OldestWaiter(taskQueue)} ELSE {}
        second == IF HasWaiter(one) THEN {OldestWaiter(one)} ELSE {}
        own == IF isEmpty(two) THEN "none" ELSE Head(two.queue)
    IN  /\ ~started
        /\ l = starts + 1 /\ l \in Loops
        /\ started' = TRUE
        /\ starts' = l
        /\ taskQueue' = Dequeue(two, l)
        /\ task' = [k \in Loops |-> IF k = l THEN own
                                    ELSE IF k \in first THEN "submit"
                                    ELSE IF k \in second THEN "process" ELSE task[k]]
        /\ at' = [k \in Loops |->
                     IF k = l THEN IF isEmpty(two) THEN "taskPending" ELSE "taskReady"
                     ELSE IF k \in first \cup second THEN "taskReady" ELSE at[k]]

start ==
    /\ \E l \in Loops : startLoop(l)
    /\ UNCHANGED <<pushed, stops, transactionsQueue, outstandingTransactions, payload, item,
                   batch, index, recordVars, networkVars, numberingVars>>

\* stop: only taskQueue is cancelled. A run loop that waits for a task is
\* rejected, and run() rethrows to nobody.
stop ==
    /\ ~taskQueue.cancelled
    /\ stops < MaxStops
    /\ stops' = stops + 1
    /\ started' = FALSE
    /\ taskQueue' = Cancel(taskQueue)
    /\ at' = [k \in Loops |-> IF k \in Waiters(taskQueue) THEN "failed" ELSE at[k]]
    /\ UNCHANGED <<pushed, starts, transactionsQueue, outstandingTransactions, task, payload,
                   item, batch, index, recordVars, networkVars, numberingVars>>
-----------------------------------------------------------------------------
(* run() *)

\* `while (!isCancelled()) task = await dequeue()`, after a task has returned.
NextTask(l) ==
    /\ at[l] = "taskDone"
    /\ \/ /\ taskQueue.cancelled
          /\ GoTo(l, "returned")
          /\ UNCHANGED <<taskQueue, task>>
       \/ /\ ~taskQueue.cancelled
          /\ taskQueue' = Dequeue(taskQueue, l)
          /\ IF isEmpty(taskQueue)
             THEN GoTo(l, "taskPending") /\ UNCHANGED task
             ELSE GoTo(l, "taskReady") /\ task' = [task EXCEPT ![l] = Head(taskQueue.queue)]
    /\ UNCHANGED <<userVars, transactionsQueue, outstandingTransactions, payload, item,
                   batch, index, recordVars, networkVars, numberingVars>>
-----------------------------------------------------------------------------
(* submitNextTransaction() *)

\* The loop asks for the next sequence number.
AskNumber(l) ==
    /\ \/ at[l] = "taskReady" /\ task[l] = "submit"
       \/ at[l] = "submitted"
    /\ Numbers!nextSequenceNumber(l)
    /\ GoTo(l, "numbering")
    /\ UNCHANGED <<userVars, queueVars, task, payload, item, batch, index, recordVars, networkVars>>

\* A coroutine inside nextSequenceNumber goes on.
Numbering(l) ==
    /\ at[l] = "numbering"
    /\ Numbers!Step(l)
    /\ UNCHANGED workerVars

\* The number is there, the next payload is taken: generateNextTransaction
\* tests the queue and takes its head with no await between.
TakePayload(l) ==
    /\ at[l] = "numbering" /\ pc[l] = "idle"
    /\ ~isEmpty(transactionsQueue)
    /\ transactionsQueue' = Dequeue(transactionsQueue, l)
    /\ payload' = [payload EXCEPT ![l] = Head(transactionsQueue.queue)]
    /\ GoTo(l, "generating")
    /\ UNCHANGED <<userVars, taskQueue, outstandingTransactions, task, item, batch, index,
                   recordVars, networkVars, numberingVars>>

\* No payload is left: submitNextTransaction returns, its number is not used.
NoPayload(l) ==
    /\ at[l] = "numbering" /\ pc[l] = "idle"
    /\ isEmpty(transactionsQueue)
    /\ GoTo(l, "taskDone")
    /\ UNCHANGED <<userVars, queueVars, task, payload, item, batch, index, recordVars,
                   networkVars, numberingVars>>

\* The transaction is generated: sign it, start its submission without waiting
\* for it, and hand it to the processing task.
Submit(l) ==
    LET p == payload[l]
        entry == [txn |-> p, number |-> result[l]]
    IN  /\ at[l] = "generating"
        /\ txnNumber' = [txnNumber EXCEPT ![p] = result[l]]
        /\ submission' = [submission EXCEPT ![p] = "posting"]
        /\ outstandingTransactions' = Enqueue(outstandingTransactions, entry)
        /\ IF HasWaiter(outstandingTransactions)
           THEN /\ at' = [at EXCEPT ![l] = "submitted",
                                    ![OldestWaiter(outstandingTransactions)] = "outReady"]
                /\ item' = [item EXCEPT ![OldestWaiter(outstandingTransactions)] = entry]
           ELSE GoTo(l, "submitted") /\ UNCHANGED item
        /\ payload' = [payload EXCEPT ![l] = 0]
        /\ UNCHANGED <<userVars, taskQueue, transactionsQueue, task, batch, index, recordVars,
                       mempool, onChain, numberingVars>>

\* generateTransaction is rejected: submitNextTransaction throws, task() and
\* run() with it, and the processing task is never started by this loop.
GenerateFailed(l) ==
    /\ at[l] = "generating"
    /\ GoTo(l, "failed")
    /\ payload' = [payload EXCEPT ![l] = 0]
    /\ UNCHANGED <<userVars, queueVars, task, item, batch, index, recordVars, networkVars,
                   numberingVars>>
-----------------------------------------------------------------------------
(* processTransactions() and checkTransaction() *)

\* `await outstandingTransactions.dequeue()`.
AwaitOutstanding(l) ==
    /\ outstandingTransactions' = Dequeue(outstandingTransactions, l)
    /\ IF isEmpty(outstandingTransactions)
       THEN GoTo(l, "outPending") /\ UNCHANGED item
       ELSE /\ GoTo(l, "outReady")
            /\ item' = [item EXCEPT ![l] = Head(outstandingTransactions.queue)]

BeginProcess(l) ==
    /\ at[l] = "taskReady" /\ task[l] = "process"
    /\ AwaitOutstanding(l)
    /\ UNCHANGED <<userVars, taskQueue, transactionsQueue, task, payload, batch, index,
                   recordVars, networkVars, numberingVars>>

\* Mutant: the drain loop keeps only the last item it takes.
TakeItem_KeepLast(l) ==
    /\ at[l] = "outReady"
    /\ IF isEmpty(outstandingTransactions)
       THEN /\ GoTo(l, "settling")
            /\ batch' = [batch EXCEPT ![l] = Append(@, item[l])]
            /\ item' = [item EXCEPT ![l] = NoEntry]
            /\ UNCHANGED outstandingTransactions
       ELSE AwaitOutstanding(l) /\ UNCHANGED batch
    /\ UNCHANGED <<userVars, taskQueue, transactionsQueue, task, payload, index, recordVars,
                   networkVars, numberingVars>>

\* Put the item in the batch; take the next one if there is one.
TakeItem(l) ==
    /\ at[l] = "outReady"
    /\ batch' = [batch EXCEPT ![l] = Append(@, item[l])]
    /\ IF isEmpty(outstandingTransactions)
       THEN /\ GoTo(l, "settling")
            /\ item' = [item EXCEPT ![l] = NoEntry]
            /\ UNCHANGED outstandingTransactions
       ELSE AwaitOutstanding(l)
    /\ UNCHANGED <<userVars, taskQueue, transactionsQueue, task, payload, index, recordVars,
                   networkVars, numberingVars>>

\* Mutant: Promise.all for Promise.allSettled.
BatchSettled_All(l) ==
    /\ at[l] = "settling"
    /\ \A i \in DOMAIN batch[l] : submission[batch[l][i].txn] = "accepted"
    /\ GoTo(l, "reporting")
    /\ index' = [index EXCEPT ![l] = 1]
    /\ UNCHANGED <<userVars, queueVars, task, payload, item, batch, recordVars, networkVars,
                   numberingVars>>

\* Every submission of the batch is settled.
BatchSettled(l) ==
    /\ at[l] = "settling"
    /\ \A i \in DOMAIN batch[l] : submission[batch[l][i].txn] \in {"accepted", "rejected"}
    /\ GoTo(l, "reporting")
    /\ index' = [index EXCEPT ![l] = 1]
    /\ UNCHANGED <<userVars, queueVars, task, payload, item, batch, recordVars, networkVars,
                   numberingVars>>

Emit(kind, p) == events' = Append(events, [event |-> kind, txn |-> p])

Current(l) == batch[l][index[l]]

RecordOf(entry, ok) == [txn |-> entry.txn, number |-> entry.number, fulfilled |-> ok]

\* Mutant: the number left over from the last dequeue is recorded.
ReportSent_LastNumber(l) ==
    /\ at[l] = "reporting" /\ index[l] <= Len(batch[l])
    /\ submission[Current(l).txn] = "accepted"
    /\ sentTransactions' = Append(sentTransactions,
          [txn |-> Current(l).txn, number |-> batch[l][Len(batch[l])].number, fulfilled |-> TRUE])
    /\ Emit("transactionSent", Current(l).txn)
    /\ GoTo(l, "checking")
    /\ UNCHANGED <<userVars, queueVars, task, payload, item, batch, index, executedTransactions,
                   networkVars, numberingVars>>

\* The transaction at `index` was sent: record it, and wait for its execution.
ReportSent(l) ==
    /\ at[l] = "reporting" /\ index[l] <= Len(batch[l])
    /\ submission[Current(l).txn] = "accepted"
    /\ sentTransactions' = Append(sentTransactions, RecordOf(Current(l), TRUE))
    /\ Emit("transactionSent", Current(l).txn)
    /\ GoTo(l, "checking")
    /\ UNCHANGED <<userVars, queueVars, task, payload, item, batch, index, executedTransactions,
                   networkVars, numberingVars>>

ReportSendFailed(l) ==
    /\ at[l] = "reporting" /\ index[l] <= Len(batch[l])
    /\ submission[Current(l).txn] = "rejected"
    /\ sentTransactions' = Append(sentTransactions, RecordOf(Current(l), FALSE))
    /\ Emit("transactionSendFailed", Current(l).txn)
    /\ index' = [index EXCEPT ![l] = @ + 1]
    /\ UNCHANGED <<userVars, queueVars, at, task, payload, item, batch, executedTransactions,
                   networkVars, numberingVars>>

\* waitForTransaction settles: fulfilled with a committed success, rejected
\* with a committed failure, its timeout or any other error.
Checked(l, ok) ==
    /\ at[l] = "checking"
    /\ ok => onChain[Current(l).txn] = "success"
    /\ executedTransactions' = Append(executedTransactions, RecordOf(Current(l), ok))
    /\ Emit(IF ok THEN "transactionExecuted" ELSE "transactionExecutionFailed", Current(l).txn)
    /\ index' = [index EXCEPT ![l] = @ + 1]
    /\ GoTo(l, "reporting")
    /\ UNCHANGED <<userVars, queueVars, task, payload, item, batch, sentTransactions,
                   networkVars, numberingVars>>

\* Mutant: the arrays of the batch are declared outside the loop.
FinishBatch_KeepBatch(l) ==
    /\ at[l] = "reporting" /\ index[l] > Len(batch[l])
    /\ Emit("executionFinish", 0)
    /\ index' = [index EXCEPT ![l] = 0]
    /\ AwaitOutstanding(l)
    /\ UNCHANGED <<userVars, taskQueue, transactionsQueue, task, payload, batch,
                   sentTransactions, executedTransactions, networkVars, numberingVars>>

\* The batch is finished: announce it and await the next one.
FinishBatch(l) ==
    /\ at[l] = "reporting" /\ index[l] > Len(batch[l])
    /\ Emit("executionFinish", 0)
    /\ batch' = [batch EXCEPT ![l] = <<>>]
    /\ index' = [index EXCEPT ![l] = 0]
    /\ AwaitOutstanding(l)
    /\ UNCHANGED <<userVars, taskQueue, transactionsQueue, task, payload, sentTransactions,
                   executedTransactions, networkVars, numberingVars>>
-----------------------------------------------------------------------------
(* The network. *)

networkFrame == <<userVars, queueVars, loopVars, recordVars>>

\* The node admits a transaction unless its number is committed or taken.
Admit(p) ==
    /\ submission[p] = "posting"
    /\ txnNumber[p] >= chainSequence
    /\ \A other \in mempool : txnNumber[other] # txnNumber[p]
    /\ submission' = [submission EXCEPT ![p] = "admitted"]
    /\ mempool' = mempool \cup {p}
    /\ UNCHANGED <<networkFrame, txnNumber, onChain, numberingVars>>

\* The response to an admitted transaction arrives.
Accepted(p) ==
    /\ submission[p] = "admitted"
    /\ submission' = [submission EXCEPT ![p] = "accepted"]
    /\ UNCHANGED <<networkFrame, txnNumber, mempool, onChain, numberingVars>>

\* Signing fails, the node refuses the transaction, or the response is lost
\* although the node has admitted it.
Rejected(p) ==
    /\ submission[p] \in {"posting", "admitted"}
    /\ submission' = [submission EXCEPT ![p] = "rejected"]
    /\ UNCHANGED <<networkFrame, txnNumber, mempool, onChain, numberingVars>>

\* The transaction with the account's next number is executed.
Commit(p, outcome) ==
    /\ p \in mempool
    /\ txnNumber[p] = chainSequence
    /\ chainSequence' = chainSequence + 1
    /\ mempool' = mempool \ {p}
    /\ onChain' = [onChain EXCEPT ![p] = outcome]
    /\ UNCHANGED <<networkFrame, submission, txnNumber>>
    /\ UNCHANGED <<lastUncommintedNumber, currentNumber, lock, op, pc, request, reply,
                   elapsed, result, used, grants, resynced, misread>>

\* A transaction whose expiration time has passed leaves the mempool.
Expire(p) ==
    /\ p \in mempool
    /\ mempool' = mempool \ {p}
    /\ UNCHANGED <<networkFrame, submission, txnNumber, onChain, numberingVars>>

\* getInfo is answered, and time passes for the wait for a free number.
NumberNetwork ==
    /\ \/ \E l \in Loops : Numbers!Network(l)
       \/ Numbers!Tick
    /\ UNCHANGED workerVars
-----------------------------------------------------------------------------
User == push \/ start \/ stop

Submitting(l) ==
    AskNumber(l) \/ Numbering(l) \/ TakePayload(l) \/ NoPayload(l) \/ Submit(l) \/ GenerateFailed(l)

Processing(l) ==
    \/ BeginProcess(l) \/ TakeItem(l) \/ BatchSettled(l)
    \/ ReportSent(l) \/ ReportSendFailed(l) \/ FinishBatch(l)
    \/ \E ok \in BOOLEAN : Checked(l, ok)

Loop(l) == NextTask(l) \/ Submitting(l) \/ Processing(l)

Respond(p) == Admit(p) \/ Accepted(p) \/ Rejected(p)

Chain(p) == Expire(p) \/ \E outcome \in {"success", "failure"} : Commit(p, outcome)

Next ==
    \/ User
    \/ \E l \in Loops : Loop(l)
    \/ \E p \in Payloads : Respond(p) \/ Chain(p)
    \/ NumberNetwork

\* Suspended coroutines are resumed, every request ends and time passes. No
\* transaction needs to commit and the application needs to call nothing.
Fairness ==
    /\ \A l \in Loops : WF_vars(Loop(l)) /\ WF_vars(Numbers!Network(l) /\ UNCHANGED workerVars)
    /\ \A p \in Payloads : WF_vars(Respond(p))
    /\ WF_vars(Numbers!Tick /\ UNCHANGED workerVars)

Spec == Init /\ [][Next]_vars
FairSpec == Spec /\ Fairness
-----------------------------------------------------------------------------
\* The events of one transaction are: sent and then at most one outcome of its
\* execution, or one failure to send; never the same twice, never out of order,
\* however many run loops process the queue.
EventsFollowLifecycle ==
    /\ \A i, j \in DOMAIN events :
          i < j /\ events[i].txn = events[j].txn /\ events[i].txn # 0 =>
             /\ events[i].event = "transactionSent"
             /\ events[j].event \in {"transactionExecuted", "transactionExecutionFailed"}
    /\ \A j \in DOMAIN events :
          events[j].event \in {"transactionExecuted", "transactionExecutionFailed"} =>
             \E i \in 1 .. (j - 1) :
                events[i] = [event |-> "transactionSent", txn |-> events[j].txn]

\* A record of sentTransactions or executedTransactions names the number the
\* transaction was signed with, although submissions, batch and for loop pair
\* them by position; what is recorded as executed was committed with success.
RecordsMatchSubmissions ==
    /\ \A i \in DOMAIN sentTransactions :
          LET r == sentTransactions[i]
          IN  /\ r.number = txnNumber[r.txn]
              /\ submission[r.txn] = IF r.fulfilled THEN "accepted" ELSE "rejected"
    /\ \A i \in DOMAIN executedTransactions :
          LET r == executedTransactions[i]
          IN  /\ r.number = txnNumber[r.txn]
              /\ r.fulfilled => onChain[r.txn] = "success"

\* Where the entries of a batch begin that are not in sentTransactions yet.
Unreported(l) == IF at[l] = "checking" THEN index[l] + 1 ELSE index[l]

\* The entries of payload p in the batches that are not recorded yet.
BatchPlaces(p) ==
    UNION {{<<"batch", l, i>> : i \in {k \in DOMAIN batch[l] :
                                          batch[l][k].txn = p /\ k >= Unreported(l)}} : l \in Loops}

\* The places where payload p is kept.
Whereabouts(p) ==
    {<<"transactionsQueue", i>> : i \in {k \in DOMAIN transactionsQueue.queue :
                                            transactionsQueue.queue[k] = p}}
    \cup {<<"generating", l>> : l \in {k \in Loops : payload[k] = p}}
    \cup {<<"outstanding", i>> : i \in {k \in DOMAIN outstandingTransactions.queue :
                                            outstandingTransactions.queue[k].txn = p}}
    \cup {<<"item", l>> : l \in {k \in Loops : item[k].txn = p}}
    \cup BatchPlaces(p)
    \cup {<<"sent", i>> : i \in {k \in DOMAIN sentTransactions : sentTransactions[k].txn = p}}

\* No payload is ever in two places, and one whose transaction was submitted is
\* always in one, until it is recorded: stop and start forget and repeat none.
SubmittedIsNeverLost ==
    \A p \in Payloads :
       /\ Cardinality(Whereabouts(p)) <= 1
       /\ submission[p] # "none" => Cardinality(Whereabouts(p)) = 1

\* Two transactions are signed with the same number only after a resync or a
\* failed read, even when two run loops submit at the same time.
NumbersAreNotReused ==
    \A p, r \in Payloads :
       p # r /\ txnNumber[p] # Null /\ txnNumber[p] = txnNumber[r] => resynced \/ misread

\* The application has heard what became of p.
Reported(p) ==
    \/ \E i \in DOMAIN sentTransactions :
          sentTransactions[i].txn = p /\ ~sentTransactions[i].fulfilled
    \/ \E i \in DOMAIN executedTransactions : executedTransactions[i].txn = p

\* The application stopped the worker, or a run loop was rejected.
Interrupted == stops > 0 \/ \E l \in Loops : at[l] = "failed"

=============================================================================
