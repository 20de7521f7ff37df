---------------------- MODULE TransactionWorker_proofs ----------------------
(***************************************************************************)
(* Proofs about TransactionWorker for any number of payloads, run loops    *)
(* and calls of stop().  The inductive invariant is built in layers, each  *)
(* proved with the help of the ones before it: the control state of the    *)
(* run loops (which also gives the refinement of AccountSequenceNumber),   *)
(* the places where a payload is kept, what the records say, the events,   *)
(* and the numbers.                                                        *)
(***************************************************************************)
EXTENDS TransactionWorker, FiniteSetTheorems, TLAPS

NumberProofs == INSTANCE AccountSequenceNumber_proofs WITH Callers <- Loops

-----------------------------------------------------------------------------
(* Control: what the locals of a run loop are at each of its awaits.       *)

\* A number was returned to run loop l and is not in a transaction yet.
HoldsNumber(l) ==
    \/ at[l] = "numbering" /\ pc[l] = "idle"
    \/ at[l] = "generating"

LoopShape(l) ==
    /\ at[l] = "none" <=> l > starts
    /\ payload[l] # 0 <=> at[l] = "generating"
    /\ item[l] # NoEntry <=> at[l] = "outReady"
    /\ batch[l] # <<>> => at[l] \in {"outReady", "settling", "reporting", "checking"}
    /\ at[l] = "reporting" => index[l] \in 1 .. (Len(batch[l]) + 1)
    /\ at[l] = "checking" => index[l] \in 1 .. Len(batch[l])
    /\ at[l] \notin {"reporting", "checking"} => index[l] = 0

NumberShape(l) ==
    /\ op[l] = "next"
    /\ pc[l] # "idle" => at[l] = "numbering"
    /\ HoldsNumber(l) => result[l] # Null
    /\ result[l] # Null => result[l] \in used

\* The run loops whose promises queue q holds are suspended at `place`.
WaitersAre(q, place) ==
    /\ \A i \in DOMAIN q.pendingDequeue : at[q.pendingDequeue[i]] = place
    /\ \A i, j \in DOMAIN q.pendingDequeue : q.pendingDequeue[i] = q.pendingDequeue[j] => i = j

EventKinds == {"transactionSent", "transactionSendFailed", "transactionExecuted",
               "transactionExecutionFailed", "executionFinish"}

Event == [event : EventKinds, txn : Payloads \cup {0}]

SignedShape ==
    \A p \in Payloads :
       /\ txnNumber[p] # Null => txnNumber[p] \in used
       /\ submission[p] # "none" => txnNumber[p] # Null
       /\ p \in mempool => txnNumber[p] # Null

Control ==
    /\ TypeOK
    /\ events \in Seq(Event)
    /\ \A l \in Loops : LoopShape(l) /\ NumberShape(l)
    /\ WaitersAre(taskQueue, "taskPending")
    /\ WaitersAre(outstandingTransactions, "outPending")
    /\ transactionsQueue.pendingDequeue = <<>>
    /\ SignedShape
    /\ Numbers!IInv
-----------------------------------------------------------------------------
(* Places: where a payload is kept. *)

InQueue(p, i) == i \in DOMAIN transactionsQueue.queue /\ transactionsQueue.queue[i] = p
InPayload(p, l) == l \in Loops /\ payload[l] = p
InOutstanding(p, i) ==
    i \in DOMAIN outstandingTransactions.queue /\ outstandingTransactions.queue[i].txn = p
InItem(p, l) == l \in Loops /\ item[l].txn = p
InBatch(p, l, i) ==
    l \in Loops /\ i \in DOMAIN batch[l] /\ i >= Unreported(l) /\ batch[l][i].txn = p
InSent(p, i) == i \in DOMAIN sentTransactions /\ sentTransactions[i].txn = p

\* Payload p is in place <<k, a, b>>.
Kept(p, k, a, b) ==
    \/ k = "transactionsQueue" /\ a = 0 /\ InQueue(p, b)
    \/ k = "generating" /\ InPayload(p, a) /\ b = 0
    \/ k = "outstanding" /\ a = 0 /\ InOutstanding(p, b)
    \/ k = "item" /\ InItem(p, a) /\ b = 0
    \/ k = "batch" /\ InBatch(p, a, b)
    \/ k = "sent" /\ a = 0 /\ InSent(p, b)

Kinds == {"transactionsQueue", "generating", "outstanding", "item", "batch", "sent"}
Submitted == {"outstanding", "item", "batch", "sent"}

KeptOnce ==
    \A p \in Payloads : \A k1, k2 \in Kinds : \A a1, a2, b1, b2 \in Nat :
       Kept(p, k1, a1, b1) /\ Kept(p, k2, a2, b2) => k1 = k2 /\ a1 = a2 /\ b1 = b2

KeptWhere ==
    \A p \in Payloads : \A k \in Kinds : \A a, b \in Nat :
       Kept(p, k, a, b) => p <= pushed /\ (submission[p] # "none" <=> k \in Submitted)

SubmittedIsKept ==
    \A p \in Payloads :
       submission[p] # "none" => \E k \in Submitted : \E a, b \in Nat : Kept(p, k, a, b)

PlacesInv == KeptOnce /\ KeptWhere /\ SubmittedIsKept
-----------------------------------------------------------------------------
(* Records: what is said of a transaction is true of it. *)

\* The pair of transaction and number that the queues and batches carry.
IsTrue(e) == submission[e.txn] # "none" /\ e.number = txnNumber[e.txn]

\* Entry e is in outstandingTransactions, in the hands of a run loop, or recorded.
Carried(e) ==
    \/ \E i \in DOMAIN outstandingTransactions.queue : outstandingTransactions.queue[i] = e
    \/ \E l \in Loops : item[l] = e
    \/ \E l \in Loops : \E i \in DOMAIN batch[l] : batch[l][i] = e
    \/ \E i \in DOMAIN sentTransactions :
          sentTransactions[i].txn = e.txn /\ sentTransactions[i].number = e.number
    \/ \E i \in DOMAIN executedTransactions :
          executedTransactions[i].txn = e.txn /\ executedTransactions[i].number = e.number

EntriesAreTrue == \A e \in Entry : Carried(e) => IsTrue(e)

\* A record says what became of the submission and of the transaction.
SettledAsRecorded ==
    /\ \A i \in DOMAIN sentTransactions :
          submission[sentTransactions[i].txn] =
             IF sentTransactions[i].fulfilled THEN "accepted" ELSE "rejected"
    /\ \A i \in DOMAIN executedTransactions :
          executedTransactions[i].fulfilled => onChain[executedTransactions[i].txn] = "success"

CommittedOnce ==
    \A p \in Payloads :
       /\ p \in mempool => onChain[p] = "no" /\ submission[p] \notin {"none", "posting"}
       /\ onChain[p] # "no" => submission[p] \notin {"none", "posting"}

RecordsInv == EntriesAreTrue /\ CommittedOnce /\ SettledAsRecorded
-----------------------------------------------------------------------------
(* Events. *)

EventsAreSent ==
    \A j \in DOMAIN events : events[j].txn # 0 => \E i \in Nat : InSent(events[j].txn, i)

CheckingIsOpen ==
    \A l \in Loops : at[l] = "checking" =>
       /\ \E i \in Nat : InSent(Current(l).txn, i)
       /\ \E j \in DOMAIN events : events[j] = [event |-> "transactionSent", txn |-> Current(l).txn]
       /\ \A j \in DOMAIN events : events[j].txn = Current(l).txn => events[j].event = "transactionSent"
       /\ \A m \in Loops : at[m] = "checking" /\ Current(m).txn = Current(l).txn => m = l

EventsInv == EventsAreSent /\ CheckingIsOpen /\ EventsFollowLifecycle
-----------------------------------------------------------------------------
(* Numbers. *)

HeldNumbersDiffer ==
    ~resynced /\ ~misread =>
       /\ \A l, m \in Loops : HoldsNumber(l) /\ HoldsNumber(m) /\ result[l] = result[m] => l = m
       /\ \A l \in Loops, p \in Payloads : HoldsNumber(l) => result[l] # txnNumber[p]

NumbersInv == HeldNumbersDiffer /\ NumbersAreNotReused
-----------------------------------------------------------------------------
(* Lemmas about sequences and queues. *)

\* What the tail of a non-empty sequence is.
LEMMA TailFacts ==
  ASSUME NEW S, NEW s \in Seq(S), s # <<>>
  PROVE  /\ Tail(s) \in Seq(S) /\ Len(s) \in Nat \ {0} /\ Len(Tail(s)) = Len(s) - 1
         /\ DOMAIN s = 1 .. Len(s) /\ DOMAIN Tail(s) = 1 .. (Len(s) - 1)
         /\ \A i \in 1 .. (Len(s) - 1) : Tail(s)[i] = s[i + 1]
         /\ Head(s) = s[1] /\ Head(s) \in S
  OBVIOUS

\* What a sequence with one more element is.
LEMMA AppendFacts ==
  ASSUME NEW S, NEW s \in Seq(S), NEW x \in S
  PROVE  /\ Append(s, x) \in Seq(S) /\ Len(s) \in Nat /\ Len(Append(s, x)) = Len(s) + 1
         /\ DOMAIN s = 1 .. Len(s) /\ DOMAIN Append(s, x) = 1 .. (Len(s) + 1)
         /\ \A i \in 1 .. Len(s) : Append(s, x)[i] = s[i]
         /\ Append(s, x)[Len(s) + 1] = x
         /\ Append(s, x) # <<>>
  OBVIOUS

\* enqueue on a queue object (asyncQueue.ts, enqueue).
LEMMA EnqueueFacts ==
  ASSUME NEW T, NEW C, NEW q \in QueueType(T, C), NEW x \in T
  PROVE  /\ q.queue \in Seq(T) /\ q.pendingDequeue \in Seq(C)
         /\ Enqueue(q, x) \in QueueType(T, C)
         /\ HasWaiter(q) => /\ Enqueue(q, x).queue = q.queue
                            /\ Enqueue(q, x).pendingDequeue = Tail(q.pendingDequeue)
                            /\ OldestWaiter(q) = q.pendingDequeue[1] /\ OldestWaiter(q) \in C
                            /\ 1 \in DOMAIN q.pendingDequeue
         /\ ~HasWaiter(q) => /\ Enqueue(q, x).queue = Append(q.queue, x)
                             /\ Enqueue(q, x).pendingDequeue = q.pendingDequeue
<1>1. /\ q.queue \in Seq(T) /\ q.pendingDequeue \in Seq(C)
      /\ q = [queue |-> q.queue, pendingDequeue |-> q.pendingDequeue, cancelled |-> q.cancelled]
  BY DEF QueueType
<1>2. CASE HasWaiter(q)
  <2>1. Tail(q.pendingDequeue) \in Seq(C) /\ OldestWaiter(q) = q.pendingDequeue[1]
        /\ OldestWaiter(q) \in C /\ 1 \in DOMAIN q.pendingDequeue
    BY <1>1, <1>2, TailFacts DEF HasWaiter, OldestWaiter
  <2>2. Enqueue(q, x) = [queue |-> q.queue, pendingDequeue |-> Tail(q.pendingDequeue), cancelled |-> FALSE]
    BY <1>1, <1>2 DEF Enqueue
  <2> QED BY <1>1, <1>2, <2>1, <2>2 DEF QueueType
<1>3. CASE ~HasWaiter(q)
  <2>1. Append(q.queue, x) \in Seq(T)
    BY <1>1, AppendFacts
  <2>2. Enqueue(q, x) = [queue |-> Append(q.queue, x), pendingDequeue |-> q.pendingDequeue, cancelled |-> FALSE]
    BY <1>1, <1>3 DEF Enqueue
  <2> QED BY <1>1, <1>3, <2>1, <2>2 DEF QueueType
<1> QED BY <1>1, <1>2, <1>3

\* dequeue by coroutine c (asyncQueue.ts, dequeue).
LEMMA DequeueFacts ==
  ASSUME NEW T, NEW C, NEW q \in QueueType(T, C), NEW c \in C
  PROVE  /\ q.queue \in Seq(T) /\ q.pendingDequeue \in Seq(C)
         /\ Dequeue(q, c) \in QueueType(T, C)
         /\ isEmpty(q) => /\ Dequeue(q, c).queue = q.queue
                          /\ Dequeue(q, c).pendingDequeue = Append(q.pendingDequeue, c)
         /\ ~isEmpty(q) => /\ Dequeue(q, c).queue = Tail(q.queue)
                           /\ Dequeue(q, c).pendingDequeue = q.pendingDequeue
                           /\ Head(q.queue) = q.queue[1] /\ Head(q.queue) \in T
                           /\ 1 \in DOMAIN q.queue
<1>1. /\ q.queue \in Seq(T) /\ q.pendingDequeue \in Seq(C) /\ q.cancelled \in BOOLEAN
      /\ q = [queue |-> q.queue, pendingDequeue |-> q.pendingDequeue, cancelled |-> q.cancelled]
  BY DEF QueueType
<1>2. CASE isEmpty(q)
  <2>1. Append(q.pendingDequeue, c) \in Seq(C)
    BY <1>1, AppendFacts
  <2>2. Dequeue(q, c) = [queue |-> q.queue, pendingDequeue |-> Append(q.pendingDequeue, c), cancelled |-> q.cancelled]
    BY <1>1, <1>2 DEF Dequeue
  <2> QED BY <1>1, <1>2, <2>1, <2>2 DEF QueueType
<1>3. CASE ~isEmpty(q)
  <2>1. Tail(q.queue) \in Seq(T) /\ Head(q.queue) = q.queue[1] /\ Head(q.queue) \in T
        /\ 1 \in DOMAIN q.queue
    BY <1>1, <1>3, TailFacts DEF isEmpty
  <2>2. Dequeue(q, c) = [queue |-> Tail(q.queue), pendingDequeue |-> q.pendingDequeue, cancelled |-> q.cancelled]
    BY <1>1, <1>3 DEF Dequeue
  <2> QED BY <1>1, <1>3, <2>1, <2>2 DEF QueueType
<1> QED BY <1>1, <1>2, <1>3
-----------------------------------------------------------------------------
(* The numbers: AccountSequenceNumber's theorems hold of the instance.      *)

\* Both instances of AccountSequenceNumber define the same formulas.
LEMMA SameModule ==
  /\ NumberProofs!Init <=> Numbers!Init
  /\ NumberProofs!Next <=> Numbers!Next
  /\ NumberProofs!vars = Numbers!vars /\ (NumberProofs!vars)' = (Numbers!vars)'
  /\ NumberProofs!IInv <=> Numbers!IInv
  /\ (NumberProofs!IInv)' <=> (Numbers!IInv)'
  /\ \A l \in Loops : /\ NumberProofs!nextSequenceNumber(l) <=> Numbers!nextSequenceNumber(l)
                      /\ NumberProofs!Step(l) <=> Numbers!Step(l)
  BY DEF NumberProofs!numberVars, Numbers!numberVars, NumberProofs!historyVars,
      Numbers!historyVars, NumberProofs!callVars, Numbers!callVars, NumberProofs!vars,
      Numbers!vars, NumberProofs!Waiting, Numbers!Waiting, NumberProofs!Asking,
      Numbers!Asking, NumberProofs!Holders, Numbers!Holders, NumberProofs!TypeOK,
      Numbers!TypeOK, NumberProofs!InitWith, Numbers!InitWith, NumberProofs!Init,
      Numbers!Init, NumberProofs!SuspendOn, Numbers!SuspendOn, NumberProofs!Return,
      Numbers!Return, NumberProofs!KeepTimer, Numbers!KeepTimer, NumberProofs!ReturnValue,
      Numbers!ReturnValue, NumberProofs!WindowFull, Numbers!WindowFull,
      NumberProofs!HandOut, Numbers!HandOut, NumberProofs!HandOutNothing,
      Numbers!HandOutNothing, NumberProofs!EnterNext, Numbers!EnterNext,
      NumberProofs!EnterSync, Numbers!EnterSync, NumberProofs!PollLock, Numbers!PollLock,
      NumberProofs!unchangedByEntry, Numbers!unchangedByEntry,
      NumberProofs!nextSequenceNumber, Numbers!nextSequenceNumber, NumberProofs!synchronize,
      Numbers!synchronize, NumberProofs!TakeLock, Numbers!TakeLock,
      NumberProofs!ProceedNext, Numbers!ProceedNext, NumberProofs!ProceedSync,
      Numbers!ProceedSync, NumberProofs!StoreReply, Numbers!StoreReply,
      NumberProofs!Initialized, Numbers!Initialized, NumberProofs!Updated, Numbers!Updated,
      NumberProofs!WakeUp, Numbers!WakeUp, NumberProofs!Refreshed, Numbers!Refreshed,
      NumberProofs!Resynced, Numbers!Resynced, NumberProofs!GetInfoFailed,
      Numbers!GetInfoFailed, NumberProofs!Answer, Numbers!Answer, NumberProofs!Fail,
      Numbers!Fail, NumberProofs!Commit, Numbers!Commit, NumberProofs!Tick, Numbers!Tick,
      NumberProofs!Step, Numbers!Step, NumberProofs!Call, Numbers!Call,
      NumberProofs!Network, Numbers!Network, NumberProofs!Next, Numbers!Next,
      NumberProofs!MutualExclusion,
      Numbers!MutualExclusion, NumberProofs!WindowBounded, Numbers!WindowBounded,
      NumberProofs!GrantsAreDense, Numbers!GrantsAreDense, NumberProofs!NextNumberIsFresh,
      Numbers!NextNumberIsFresh, NumberProofs!CallShape, Numbers!CallShape,
      NumberProofs!NumberShape, Numbers!NumberShape, NumberProofs!ReadsBehindChain,
      Numbers!ReadsBehindChain, NumberProofs!UseFollowsGrants, Numbers!UseFollowsGrants,
      NumberProofs!IInv, Numbers!IInv

\* The initial states and the steps of the instance keep its invariant.
LEMMA NumbersInit == Numbers!Init => Numbers!IInv
  BY SameModule, NumberProofs!InitIInv, NumbersAssumption

LEMMA NumbersStep ==
  ASSUME Numbers!IInv, [Numbers!Next]_(Numbers!vars)
  PROVE  Numbers!IInv'
<1>1. [NumberProofs!Next]_(NumberProofs!vars)
  BY SameModule
<1> QED BY <1>1, SameModule, NumberProofs!StepIInv, NumbersAssumption

\* What a step inside nextSequenceNumber does to the loops' numbers.
LEMMA CallStep ==
  ASSUME Numbers!IInv, NEW l \in Loops,
         Numbers!nextSequenceNumber(l) \/ (op[l] = "next" /\ Numbers!Step(l))
  PROVE  /\ op'[l] = "next"
         /\ \A d \in Loops \ {l} : op'[d] = op[d] /\ pc'[d] = pc[d] /\ result'[d] = result[d]
         /\ used \subseteq used' /\ chainSequence' = chainSequence
         /\ \/ result'[l] = result[l] /\ pc'[l] # "idle" /\ used' = used
            \/ /\ result'[l] \in used' /\ result'[l] \in Nat /\ used' = used \cup {result'[l]}
               /\ ~resynced' /\ ~misread' => result'[l] \notin used
         /\ resynced \/ misread => resynced' \/ misread'
<1>1. NumberProofs!IInv
  BY SameModule
<1>2. CASE Numbers!nextSequenceNumber(l)
  <2>1. NumberProofs!nextSequenceNumber(l)
    BY <1>2, SameModule
  <2> QED BY <1>1, <2>1, NumberProofs!NextStep, NumbersAssumption
<1>3. CASE op[l] = "next" /\ Numbers!Step(l)
  <2>1. NumberProofs!Step(l)
    BY <1>3, SameModule
  <2> QED BY <1>1, <1>3, <2>1, NumberProofs!NextStep, NumbersAssumption
<1> QED BY <1>2, <1>3
-----------------------------------------------------------------------------
(* The control layer is inductive. *)

\* What Control says of the instance of AccountSequenceNumber.
LEMMA NumberTypes ==
  ASSUME Numbers!IInv
  PROVE  /\ Numbers!TypeOK
         /\ pc \in [Loops -> {"idle", "polling"} \cup Numbers!Waiting \cup Numbers!Asking]
         /\ op \in [Loops -> {"next", "sync"}]
         /\ result \in [Loops -> Nat \cup {Null}]
         /\ used \in SUBSET Nat
  BY DEF Numbers!IInv, Numbers!TypeOK

LEMMA NextNumberTypes ==
  ASSUME Numbers!IInv'
  PROVE  (Numbers!TypeOK)'
  BY DEF Numbers!IInv

\* push.
LEMMA PushControl ==
  ASSUME Control, Numbers!IInv', push
  PROVE  Control'
<1> PICK p \in Payloads : pushPayload(p)
  BY DEF push
<1> USE DEF push, pushPayload
<1>1. TypeOK'
  <2>1. transactionsQueue' \in QueueType(Payloads, Loops)
    BY EnqueueFacts DEF Control, TypeOK
  <2> QED BY <2>1, NextNumberTypes, SizeAssumption DEF Control, TypeOK, Payloads, loopVars, recordVars, networkVars
<1>2. \A l \in Loops : LoopShape(l)' /\ NumberShape(l)'
  BY DEF Control, LoopShape, NumberShape, HoldsNumber, loopVars, numberingVars
<1>3. WaitersAre(taskQueue, "taskPending")' /\ WaitersAre(outstandingTransactions, "outPending")'
  BY DEF Control, WaitersAre, loopVars
<1>4. transactionsQueue'.pendingDequeue = <<>>
  BY EnqueueFacts DEF Control, TypeOK, HasWaiter
<1>5. SignedShape' /\ events' \in Seq(Event)
  BY DEF Control, SignedShape, networkVars, numberingVars, recordVars
<1> QED BY <1>1, <1>2, <1>3, <1>4, <1>5 DEF Control

\* AskNumber.
LEMMA AskNumberControl ==
  ASSUME Control, Numbers!IInv', NEW l \in Loops, AskNumber(l)
  PROVE  Control'
<1> USE DEF AskNumber, GoTo
<1>0. at' = [at EXCEPT ![l] = "numbering"] /\ at \in [Loops -> Places] /\ at[l] \in {"taskReady", "submitted"}
  BY DEF Control, TypeOK
<1>1. TypeOK'
  BY <1>0, NextNumberTypes DEF Control, TypeOK, Places, userVars, queueVars, recordVars, networkVars
<1>6. /\ op'[l] = "next" /\ used \subseteq used'
      /\ \A d \in Loops \ {l} : op'[d] = op[d] /\ pc'[d] = pc[d] /\ result'[d] = result[d]
      /\ \/ result'[l] = result[l] /\ pc'[l] # "idle"
         \/ result'[l] \in used' /\ result'[l] \in Nat
  BY CallStep DEF Control
<1>2. \A k \in Loops : LoopShape(k)' /\ NumberShape(k)'
  BY <1>0, <1>6, NumbersAssumption DEF Control, LoopShape, NumberShape, HoldsNumber, userVars
<1>3. WaitersAre(taskQueue, "taskPending")' /\ WaitersAre(outstandingTransactions, "outPending")'
  BY <1>0 DEF Control, WaitersAre, queueVars
<1>5. SignedShape' /\ events' \in Seq(Event) /\ transactionsQueue'.pendingDequeue = <<>>
  BY <1>6 DEF Control, SignedShape, networkVars, recordVars, queueVars
<1> QED BY <1>1, <1>2, <1>3, <1>5 DEF Control

\* A run loop that waits for a task is taken out of the queue's promises.
LEMMA TakeWaiter ==
  ASSUME NEW q \in QueueType({"submit", "process"}, Loops), NEW x \in {"submit", "process"},
         NEW f, \A i \in DOMAIN q.pendingDequeue : f[q.pendingDequeue[i]] = "taskPending",
         \A i, j \in DOMAIN q.pendingDequeue : q.pendingDequeue[i] = q.pendingDequeue[j] => i = j
  PROVE  LET r == Enqueue(q, x)
             taken == IF HasWaiter(q) THEN {OldestWaiter(q)} ELSE {}
         IN  /\ r \in QueueType({"submit", "process"}, Loops)
             /\ \A i \in DOMAIN r.pendingDequeue : r.pendingDequeue[i] \in Loops \ taken
             /\ \A i \in DOMAIN r.pendingDequeue : f[r.pendingDequeue[i]] = "taskPending"
             /\ \A i, j \in DOMAIN r.pendingDequeue : r.pendingDequeue[i] = r.pendingDequeue[j] => i = j
             /\ \A k \in taken : k \in Loops /\ f[k] = "taskPending"
             /\ \A i \in DOMAIN r.pendingDequeue : \E j \in DOMAIN q.pendingDequeue :
                   r.pendingDequeue[i] = q.pendingDequeue[j]
<1> DEFINE r == Enqueue(q, x)
           W == q.pendingDequeue
<1>1. r \in QueueType({"submit", "process"}, Loops) /\ W \in Seq(Loops) /\ r.pendingDequeue \in Seq(Loops)
  <2>1. r \in QueueType({"submit", "process"}, Loops) /\ W \in Seq(Loops)
    BY EnqueueFacts
  <2> QED BY <2>1 DEF QueueType
<1>2. CASE HasWaiter(q)
  <2>1. r.pendingDequeue = Tail(W) /\ OldestWaiter(q) = W[1] /\ W # <<>>
    BY <1>2, EnqueueFacts DEF HasWaiter
  <2>2. /\ DOMAIN W = 1 .. Len(W) /\ DOMAIN Tail(W) = 1 .. (Len(W) - 1) /\ Len(W) \in Nat \ {0}
        /\ \A i \in 1 .. (Len(W) - 1) : Tail(W)[i] = W[i + 1]
        /\ W[1] \in Loops
    BY <1>1, <2>1, TailFacts
  <2> HIDE DEF r, W
  <2>3. \A i \in DOMAIN Tail(W) : i + 1 \in DOMAIN W /\ Tail(W)[i] = W[i + 1] /\ i + 1 # 1
    BY <2>2
  <2>4. 1 \in DOMAIN W
    BY <2>2
  <2>5. \A i \in DOMAIN Tail(W) : Tail(W)[i] \in Loops
    BY <1>1, <2>1
  <2>6. \A i, j \in DOMAIN Tail(W) : Tail(W)[i] = Tail(W)[j] => i = j
    <3> SUFFICES ASSUME NEW i \in DOMAIN Tail(W), NEW j \in DOMAIN Tail(W), Tail(W)[i] = Tail(W)[j]
                 PROVE  i = j
      OBVIOUS
    <3>1. i + 1 = j + 1 /\ i \in Nat /\ j \in Nat
      BY <2>2, <2>3 DEF W
    <3> QED BY <3>1
  <2>7. \A i \in DOMAIN Tail(W) : Tail(W)[i] # W[1]
    BY <2>3, <2>4 DEF W
  <2> QED BY <1>1, <1>2, <2>1, <2>2, <2>3, <2>4, <2>5, <2>6, <2>7 DEF r, W
<1>3. CASE ~HasWaiter(q)
  <2>1. r.pendingDequeue = W
    BY <1>3, EnqueueFacts
  <2> QED BY <1>1, <1>3, <2>1
<1> QED BY <1>2, <1>3

\* What start() does to the run loops.
LEMMA StartFacts ==
  ASSUME Control, NEW l \in Loops, startLoop(l)
  PROVE  /\ l = starts + 1 /\ starts' = l /\ started' = TRUE
         /\ taskQueue' \in QueueType({"submit", "process"}, Loops)
         /\ task' \in [Loops -> {"none", "submit", "process"}]
         /\ at' \in [Loops -> Places]
         /\ WaitersAre(taskQueue, "taskPending")'
         /\ at'[l] \in {"taskPending", "taskReady"}
         /\ \A k \in Loops \ {l} : at'[k] = at[k] \/ (at[k] = "taskPending" /\ at'[k] = "taskReady")
<1> DEFINE one == Enqueue(taskQueue, "submit")
           two == Enqueue(one, "process")
           first == IF HasWaiter(taskQueue) THEN {OldestWaiter(taskQueue)} ELSE {}
           second == IF HasWaiter(one) THEN {OldestWaiter(one)} ELSE {}
           own == IF isEmpty(two) THEN "none" ELSE Head(two.queue)
           T == {"submit", "process"}
<1>0. /\ taskQueue \in QueueType(T, Loops) /\ task \in [Loops -> {"none"} \cup T] /\ at \in [Loops -> Places]
      /\ l = starts + 1 /\ starts' = l /\ started' = TRUE /\ starts \in Nat
      /\ taskQueue' = Dequeue(two, l)
      /\ task' = [k \in Loops |-> IF k = l THEN own
                                  ELSE IF k \in first THEN "submit"
                                  ELSE IF k \in second THEN "process" ELSE task[k]]
      /\ at' = [k \in Loops |->
                   IF k = l THEN IF isEmpty(two) THEN "taskPending" ELSE "taskReady"
                   ELSE IF k \in first \cup second THEN "taskReady" ELSE at[k]]
      /\ WaitersAre(taskQueue, "taskPending")
      /\ at[l] = "none"
  BY SizeAssumption DEF startLoop, Control, TypeOK, LoopShape, Loops
<1>1. /\ one \in QueueType(T, Loops)
      /\ \A i \in DOMAIN one.pendingDequeue : one.pendingDequeue[i] \in Loops \ first
      /\ \A i \in DOMAIN one.pendingDequeue : at[one.pendingDequeue[i]] = "taskPending"
      /\ \A i, j \in DOMAIN one.pendingDequeue : one.pendingDequeue[i] = one.pendingDequeue[j] => i = j
      /\ \A k \in first : k \in Loops /\ at[k] = "taskPending"
  BY <1>0, TakeWaiter DEF WaitersAre
<1> HIDE DEF one, first
<1>2. /\ two \in QueueType(T, Loops)
      /\ \A i \in DOMAIN two.pendingDequeue : two.pendingDequeue[i] \in Loops \ second
      /\ \A i \in DOMAIN two.pendingDequeue : at[two.pendingDequeue[i]] = "taskPending"
      /\ \A i, j \in DOMAIN two.pendingDequeue : two.pendingDequeue[i] = two.pendingDequeue[j] => i = j
      /\ \A k \in second : k \in Loops /\ at[k] = "taskPending"
      /\ \A i \in DOMAIN two.pendingDequeue : \E j \in DOMAIN one.pendingDequeue :
            two.pendingDequeue[i] = one.pendingDequeue[j]
  BY <1>1, TakeWaiter
<1> HIDE DEF two, second
<1>3. /\ two.queue \in Seq(T) /\ two.pendingDequeue \in Seq(Loops)
      /\ taskQueue' \in QueueType(T, Loops)
      /\ isEmpty(two) => taskQueue'.pendingDequeue = Append(two.pendingDequeue, l)
      /\ ~isEmpty(two) => taskQueue'.pendingDequeue = two.pendingDequeue /\ Head(two.queue) \in T
  BY <1>0, <1>2, DequeueFacts
<1>4. own \in {"none"} \cup T
  BY <1>3
<1> HIDE DEF own
<1>5. task' \in [Loops -> {"none", "submit", "process"}]
  BY <1>0, <1>4
<1>6. at' \in [Loops -> Places] /\ at'[l] = (IF isEmpty(two) THEN "taskPending" ELSE "taskReady")
  BY <1>0 DEF Places
<1>7. \A k \in Loops \ {l} : at'[k] = at[k] \/ (at[k] = "taskPending" /\ at'[k] = "taskReady")
  BY <1>0, <1>1, <1>2
<1>8. \A i \in DOMAIN two.pendingDequeue : /\ two.pendingDequeue[i] \in Loops \ {l}
                                           /\ at'[two.pendingDequeue[i]] = "taskPending"
  BY <1>0, <1>1, <1>2
<1>9. WaitersAre(taskQueue, "taskPending")'
  <2>1. CASE isEmpty(two)
    <3> DEFINE W == two.pendingDequeue
    <3>1. /\ taskQueue'.pendingDequeue = Append(W, l)
          /\ Len(W) \in Nat /\ DOMAIN W = 1 .. Len(W)
          /\ DOMAIN Append(W, l) = 1 .. (Len(W) + 1)
          /\ \A i \in 1 .. Len(W) : Append(W, l)[i] = W[i]
          /\ Append(W, l)[Len(W) + 1] = l
      BY <1>3, <2>1, AppendFacts
    <3>2. \A i \in DOMAIN Append(W, l) : i = Len(W) + 1 \/ i \in DOMAIN W
      BY <3>1
    <3>3. at'[l] = "taskPending"
      BY <1>6, <2>1
    <3> QED BY <1>2, <1>8, <3>1, <3>2, <3>3 DEF WaitersAre
  <2>2. CASE ~isEmpty(two)
    BY <1>2, <1>3, <1>8, <2>2 DEF WaitersAre
  <2> QED BY <2>1, <2>2
<1> QED BY <1>0, <1>3, <1>5, <1>6, <1>7, <1>9

\* start.
LEMMA StartControl ==
  ASSUME Control, Numbers!IInv', start
  PROVE  Control'
<1> PICK l \in Loops : startLoop(l)
  BY DEF start
<1>0. /\ l = starts + 1 /\ starts' = l /\ started' = TRUE /\ starts \in 0 .. MaxStarts /\ l \in 1 .. MaxStarts
      /\ taskQueue' \in QueueType({"submit", "process"}, Loops)
      /\ task' \in [Loops -> {"none", "submit", "process"}]
      /\ at' \in [Loops -> Places]
      /\ at'[l] \in {"taskPending", "taskReady"}
      /\ \A k \in Loops \ {l} : at'[k] = at[k] \/ (at[k] = "taskPending" /\ at'[k] = "taskReady")
      /\ UNCHANGED <<pushed, stops, transactionsQueue, outstandingTransactions, payload, item,
                     batch, index, recordVars, networkVars, numberingVars>>
  BY StartFacts DEF start, Control, TypeOK, Loops
<1>1. TypeOK'
  BY <1>0, NextNumberTypes, SizeAssumption DEF Control, TypeOK, recordVars, networkVars
<1>2. ASSUME NEW k \in Loops
      PROVE  LoopShape(k)' /\ NumberShape(k)'
  <2>1. LoopShape(k) /\ NumberShape(k) /\ k \in Int /\ starts \in Int
    BY <1>0 DEF Control, Loops
  <2>2. CASE k = l
    BY <1>0, <2>1, <2>2 DEF LoopShape, NumberShape, HoldsNumber, numberingVars
  <2>3. CASE k # l
    BY <1>0, <2>1, <2>3 DEF LoopShape, NumberShape, HoldsNumber, numberingVars
  <2> QED BY <2>2, <2>3
<1>3. WaitersAre(taskQueue, "taskPending")'
  BY StartFacts
<1>4. WaitersAre(outstandingTransactions, "outPending")'
  <2>1. at[l] = "none" /\ outstandingTransactions.pendingDequeue \in Seq(Loops)
    BY <1>0 DEF Control, LoopShape, TypeOK, QueueType, Loops
  <2>2. \A i \in DOMAIN outstandingTransactions.pendingDequeue :
           outstandingTransactions.pendingDequeue[i] \in Loops
    BY <2>1
  <2> QED BY <1>0, <2>1, <2>2 DEF Control, WaitersAre
<1>5. SignedShape' /\ events' \in Seq(Event) /\ transactionsQueue'.pendingDequeue = <<>>
  BY <1>0 DEF Control, SignedShape, networkVars, recordVars, numberingVars
<1> QED BY <1>1, <1>2, <1>3, <1>4, <1>5 DEF Control

\* What stop() does to the run loops.
LEMMA StopFacts ==
  ASSUME Control, stop
  PROVE  /\ taskQueue' \in QueueType({"submit", "process"}, Loops)
         /\ taskQueue'.pendingDequeue = <<>>
         /\ at' \in [Loops -> Places]
         /\ \A k \in Loops : at'[k] = at[k] \/ (at[k] = "taskPending" /\ at'[k] = "failed")
<1>1. \A k \in Waiters(taskQueue) : at[k] = "taskPending"
  BY DEF Control, WaitersAre, Waiters
<1>2. at \in [Loops -> Places] /\ <<>> \in Seq({"submit", "process"}) /\ <<>> \in Seq(Loops)
  BY DEF Control, TypeOK
<1> QED BY <1>1, <1>2 DEF stop, Cancel, QueueType, Places

\* stop.
LEMMA StopControl ==
  ASSUME Control, Numbers!IInv', stop
  PROVE  Control'
<1>0. /\ taskQueue' \in QueueType({"submit", "process"}, Loops)
      /\ taskQueue'.pendingDequeue = <<>>
      /\ at' \in [Loops -> Places]
      /\ \A k \in Loops : at'[k] = at[k] \/ (at[k] = "taskPending" /\ at'[k] = "failed")
      /\ started' = FALSE
      /\ UNCHANGED <<pushed, starts, transactionsQueue, outstandingTransactions, task, payload,
                     item, batch, index, recordVars, networkVars, numberingVars>>
  BY StopFacts DEF stop
<1>s. stops' \in 0 .. MaxStops
  BY SizeAssumption DEF stop, Control, TypeOK
<1>1. TypeOK'
  BY <1>0, <1>s, NextNumberTypes, SizeAssumption DEF Control, TypeOK, recordVars, networkVars
<1>2. \A k \in Loops : LoopShape(k)' /\ NumberShape(k)'
  BY <1>0 DEF Control, LoopShape, NumberShape, HoldsNumber, numberingVars
<1>3. WaitersAre(taskQueue, "taskPending")'
  BY <1>0 DEF WaitersAre
<1>4. WaitersAre(outstandingTransactions, "outPending")'
  <2>1. \A i \in DOMAIN outstandingTransactions.pendingDequeue :
           outstandingTransactions.pendingDequeue[i] \in Loops
    BY DEF Control, TypeOK, QueueType
  <2> QED BY <1>0, <2>1 DEF Control, WaitersAre
<1>5. SignedShape' /\ events' \in Seq(Event) /\ transactionsQueue'.pendingDequeue = <<>>
  BY <1>0 DEF Control, SignedShape, networkVars, recordVars, numberingVars
<1> QED BY <1>1, <1>2, <1>3, <1>4, <1>5 DEF Control

\* NextTask.
LEMMA NextTaskControl ==
  ASSUME Control, Numbers!IInv', NEW l \in Loops, NextTask(l)
  PROVE  Control'
<1>0. /\ at[l] = "taskDone" /\ at \in [Loops -> Places] /\ task \in [Loops -> {"none", "submit", "process"}]
      /\ taskQueue \in QueueType({"submit", "process"}, Loops)
      /\ UNCHANGED <<userVars, transactionsQueue, outstandingTransactions, payload, item,
                     batch, index, recordVars, networkVars, numberingVars>>
  BY DEF NextTask, Control, TypeOK
<1>1. /\ at' \in [Loops -> Places] /\ at'[l] \in {"returned", "taskPending", "taskReady"}
      /\ \A k \in Loops \ {l} : at'[k] = at[k]
  BY <1>0 DEF NextTask, GoTo, Places
<1>2. /\ task' \in [Loops -> {"none", "submit", "process"}]
      /\ taskQueue' \in QueueType({"submit", "process"}, Loops)
  <2>1. CASE UNCHANGED <<taskQueue, task>>
    BY <1>0, <2>1
  <2>2. CASE taskQueue' = Dequeue(taskQueue, l) /\ (task' = task \/ (~isEmpty(taskQueue)
               /\ task' = [task EXCEPT ![l] = Head(taskQueue.queue)]))
    <3>1. /\ Dequeue(taskQueue, l) \in QueueType({"submit", "process"}, Loops)
          /\ ~isEmpty(taskQueue) => Head(taskQueue.queue) \in {"submit", "process"}
      BY <1>0, DequeueFacts
    <3> QED BY <1>0, <2>2, <3>1
  <2> QED BY <2>1, <2>2 DEF NextTask
<1>3. WaitersAre(taskQueue, "taskPending")'
  <2> DEFINE W == taskQueue.pendingDequeue
  <2>1. W \in Seq(Loops) /\ \A i \in DOMAIN W : W[i] \in Loops /\ at[W[i]] = "taskPending"
    BY <1>0 DEF Control, WaitersAre, QueueType
  <2>2. CASE taskQueue'.pendingDequeue = W
    BY <1>1, <2>1, <2>2, <1>0 DEF Control, WaitersAre
  <2>3. CASE taskQueue'.pendingDequeue = Append(W, l) /\ at'[l] = "taskPending"
    <3>1. /\ Len(W) \in Nat /\ DOMAIN W = 1 .. Len(W)
          /\ DOMAIN Append(W, l) = 1 .. (Len(W) + 1)
          /\ \A i \in 1 .. Len(W) : Append(W, l)[i] = W[i]
          /\ Append(W, l)[Len(W) + 1] = l
      BY <2>1, AppendFacts
    <3>2. \A i \in DOMAIN Append(W, l) : i = Len(W) + 1 \/ i \in DOMAIN W
      BY <3>1
    <3>3. \A i, j \in DOMAIN W : W[i] = W[j] => i = j
      BY DEF Control, WaitersAre
    <3> HIDE DEF W
    <3> QED BY <1>0, <1>1, <2>1, <2>3, <3>1, <3>2, <3>3 DEF WaitersAre
  <2> QED BY <1>0, <2>2, <2>3, DequeueFacts DEF NextTask, GoTo
<1>4. TypeOK'
  BY <1>0, <1>1, <1>2, NextNumberTypes DEF Control, TypeOK, userVars, recordVars, networkVars
<1>5. \A k \in Loops : LoopShape(k)' /\ NumberShape(k)'
  BY <1>0, <1>1 DEF Control, LoopShape, NumberShape, HoldsNumber, userVars, numberingVars
<1>6. WaitersAre(outstandingTransactions, "outPending")'
  <2>1. \A i \in DOMAIN outstandingTransactions.pendingDequeue :
           outstandingTransactions.pendingDequeue[i] \in Loops
    BY DEF Control, TypeOK, QueueType
  <2> QED BY <1>0, <1>1, <2>1 DEF Control, WaitersAre
<1>7. SignedShape' /\ events' \in Seq(Event) /\ transactionsQueue'.pendingDequeue = <<>>
  BY <1>0 DEF Control, SignedShape, networkVars, recordVars, numberingVars
<1> QED BY <1>3, <1>4, <1>5, <1>6, <1>7 DEF Control

\* A loop's step that moves only `at`, from and to awaits that are not
\* those of the queues.
LEMMA MovesOn ==
  ASSUME Control, NEW l \in Loops, NEW place \in Places \ {"taskPending", "outPending"},
         at[l] \notin {"taskPending", "outPending"}, at' = [at EXCEPT ![l] = place],
         UNCHANGED <<taskQueue, outstandingTransactions>>
  PROVE  /\ at' \in [Loops -> Places] /\ at'[l] = place /\ \A k \in Loops \ {l} : at'[k] = at[k]
         /\ WaitersAre(taskQueue, "taskPending")'
         /\ WaitersAre(outstandingTransactions, "outPending")'
<1>1. at \in [Loops -> Places]
  BY DEF Control, TypeOK
<1> QED BY <1>1 DEF Control, WaitersAre

\* Numbering.
LEMMA NumberingControl ==
  ASSUME Control, Numbers!IInv', NEW l \in Loops, Numbering(l)
  PROVE  Control'
<1>0. /\ at[l] = "numbering" /\ UNCHANGED <<userVars, queueVars, loopVars, recordVars, networkVars>>
      /\ op[l] = "next"
  BY DEF Numbering, workerVars, Control, NumberShape
<1>1. TypeOK'
  BY <1>0, NextNumberTypes DEF Control, TypeOK, userVars, queueVars, loopVars, recordVars, networkVars
<1>2. /\ op'[l] = "next" /\ used \subseteq used'
      /\ \A d \in Loops \ {l} : op'[d] = op[d] /\ pc'[d] = pc[d] /\ result'[d] = result[d]
      /\ \/ result'[l] = result[l] /\ pc'[l] # "idle"
         \/ result'[l] \in used' /\ result'[l] \in Nat
  BY <1>0, CallStep DEF Control, Numbering
<1>3. \A k \in Loops : LoopShape(k)' /\ NumberShape(k)'
  BY <1>0, <1>2, NumbersAssumption DEF Control, LoopShape, NumberShape, HoldsNumber, userVars, loopVars
<1>4. WaitersAre(taskQueue, "taskPending")' /\ WaitersAre(outstandingTransactions, "outPending")'
  BY <1>0 DEF Control, WaitersAre, queueVars, loopVars
<1>5. SignedShape' /\ events' \in Seq(Event) /\ transactionsQueue'.pendingDequeue = <<>>
  BY <1>0, <1>2 DEF Control, SignedShape, networkVars, recordVars, queueVars
<1> QED BY <1>1, <1>3, <1>4, <1>5 DEF Control

\* TakePayload.
LEMMA TakePayloadControl ==
  ASSUME Control, Numbers!IInv', NEW l \in Loops, TakePayload(l)
  PROVE  Control'
<1>0. /\ at[l] = "numbering" /\ pc[l] = "idle" /\ at' = [at EXCEPT ![l] = "generating"]
      /\ transactionsQueue' = Dequeue(transactionsQueue, l) /\ ~isEmpty(transactionsQueue)
      /\ payload' = [payload EXCEPT ![l] = Head(transactionsQueue.queue)]
      /\ UNCHANGED <<userVars, taskQueue, outstandingTransactions, task, item, batch, index,
                     recordVars, networkVars, numberingVars>>
  BY DEF TakePayload, GoTo
<1>1. /\ transactionsQueue \in QueueType(Payloads, Loops) /\ payload \in [Loops -> Payloads \cup {0}]
  BY DEF Control, TypeOK
<1>2. /\ transactionsQueue' \in QueueType(Payloads, Loops) /\ Head(transactionsQueue.queue) \in Payloads
      /\ transactionsQueue'.pendingDequeue = <<>>
  BY <1>0, <1>1, DequeueFacts DEF Control
<1>3. payload' \in [Loops -> Payloads \cup {0}] /\ payload'[l] # 0 /\ \A k \in Loops \ {l} : payload'[k] = payload[k]
  BY <1>0, <1>1, <1>2, SizeAssumption DEF Payloads
<1>4. /\ at' \in [Loops -> Places] /\ at'[l] = "generating" /\ \A k \in Loops \ {l} : at'[k] = at[k]
      /\ WaitersAre(taskQueue, "taskPending")' /\ WaitersAre(outstandingTransactions, "outPending")'
  BY <1>0, MovesOn DEF Places
<1>5. TypeOK'
  BY <1>0, <1>2, <1>3, <1>4, NextNumberTypes DEF Control, TypeOK, userVars, recordVars, networkVars
<1>6. \A k \in Loops : LoopShape(k)' /\ NumberShape(k)'
  BY <1>0, <1>3, <1>4 DEF Control, LoopShape, NumberShape, HoldsNumber, userVars, numberingVars
<1>7. SignedShape' /\ events' \in Seq(Event)
  BY <1>0 DEF Control, SignedShape, networkVars, recordVars, numberingVars
<1> QED BY <1>2, <1>4, <1>5, <1>6, <1>7 DEF Control

\* NoPayload and BatchSettled: the loop only moves on.
LEMMA NoPayloadControl ==
  ASSUME Control, Numbers!IInv', NEW l \in Loops, NoPayload(l)
  PROVE  Control'
<1>0. /\ at[l] = "numbering" /\ pc[l] = "idle" /\ at' = [at EXCEPT ![l] = "taskDone"]
      /\ UNCHANGED <<userVars, queueVars, task, payload, item, batch, index, recordVars,
                     networkVars, numberingVars>>
  BY DEF NoPayload, GoTo
<1>1. /\ at' \in [Loops -> Places] /\ at'[l] = "taskDone" /\ \A k \in Loops \ {l} : at'[k] = at[k]
      /\ WaitersAre(taskQueue, "taskPending")' /\ WaitersAre(outstandingTransactions, "outPending")'
  BY <1>0, MovesOn DEF Places, queueVars
<1>2. TypeOK'
  BY <1>0, <1>1, NextNumberTypes DEF Control, TypeOK, userVars, queueVars, recordVars, networkVars
<1>3. \A k \in Loops : LoopShape(k)' /\ NumberShape(k)'
  BY <1>0, <1>1 DEF Control, LoopShape, NumberShape, HoldsNumber, userVars, numberingVars
<1>4. SignedShape' /\ events' \in Seq(Event) /\ transactionsQueue'.pendingDequeue = <<>>
  BY <1>0 DEF Control, SignedShape, networkVars, recordVars, queueVars, numberingVars
<1> QED BY <1>1, <1>2, <1>3, <1>4 DEF Control

\* GenerateFailed.
LEMMA GenerateFailedControl ==
  ASSUME Control, Numbers!IInv', NEW l \in Loops, GenerateFailed(l)
  PROVE  Control'
<1>0. /\ at[l] = "generating" /\ at' = [at EXCEPT ![l] = "failed"] /\ payload' = [payload EXCEPT ![l] = 0]
      /\ UNCHANGED <<userVars, queueVars, task, item, batch, index, recordVars, networkVars, numberingVars>>
      /\ payload \in [Loops -> Payloads \cup {0}]
  BY DEF GenerateFailed, GoTo, Control, TypeOK
<1>1. /\ at' \in [Loops -> Places] /\ at'[l] = "failed" /\ \A k \in Loops \ {l} : at'[k] = at[k]
      /\ WaitersAre(taskQueue, "taskPending")' /\ WaitersAre(outstandingTransactions, "outPending")'
  BY <1>0, MovesOn DEF Places, queueVars
<1>2. payload' \in [Loops -> Payloads \cup {0}] /\ payload'[l] = 0 /\ \A k \in Loops \ {l} : payload'[k] = payload[k]
  BY <1>0
<1>3. TypeOK'
  BY <1>0, <1>1, <1>2, NextNumberTypes DEF Control, TypeOK, userVars, queueVars, recordVars, networkVars
<1>4. \A k \in Loops : LoopShape(k)' /\ NumberShape(k)'
  BY <1>0, <1>1, <1>2 DEF Control, LoopShape, NumberShape, HoldsNumber, userVars, numberingVars
<1>5. SignedShape' /\ events' \in Seq(Event) /\ transactionsQueue'.pendingDequeue = <<>>
  BY <1>0 DEF Control, SignedShape, networkVars, recordVars, queueVars, numberingVars
<1> QED BY <1>1, <1>3, <1>4, <1>5 DEF Control

\* What handing an entry to the processing task does.
LEMMA SubmitFacts ==
  ASSUME Control, NEW l \in Loops, Submit(l)
  PROVE  LET entry == [txn |-> payload[l], number |-> result[l]]
             q == outstandingTransactions
             w == OldestWaiter(q)
         IN  /\ at[l] = "generating" /\ payload[l] \in Payloads /\ result[l] \in Nat /\ entry \in Entry
             /\ at' \in [Loops -> Places] /\ at'[l] = "submitted"
             /\ item' \in [Loops -> Entry \cup {NoEntry}]
             /\ q' \in QueueType(Entry, Loops)
             /\ WaitersAre(q, "outPending")'
             /\ \/ /\ HasWaiter(q) /\ w \in Loops /\ at[w] = "outPending" /\ w # l
                   /\ q'.queue = q.queue
                   /\ at'[w] = "outReady" /\ item'[w] = entry
                   /\ \A k \in Loops \ {l, w} : at'[k] = at[k]
                   /\ \A k \in Loops \ {w} : item'[k] = item[k]
                \/ /\ ~HasWaiter(q) /\ q'.queue = Append(q.queue, entry)
                   /\ item' = item
                   /\ \A k \in Loops \ {l} : at'[k] = at[k]
<1> DEFINE q == outstandingTransactions
           entry == [txn |-> payload[l], number |-> result[l]]
           w == OldestWaiter(q)
           W == q.pendingDequeue
<1>1. /\ at[l] = "generating" /\ payload[l] \in Payloads /\ result[l] \in Nat
      /\ at \in [Loops -> Places] /\ item \in [Loops -> Entry \cup {NoEntry}]
      /\ q \in QueueType(Entry, Loops) /\ W \in Seq(Loops)
      /\ \A i \in DOMAIN W : W[i] \in Loops /\ at[W[i]] = "outPending"
      /\ \A i, j \in DOMAIN W : W[i] = W[j] => i = j
  <2>1. at[l] = "generating" /\ LoopShape(l) /\ NumberShape(l) /\ payload \in [Loops -> Payloads \cup {0}]
        /\ at \in [Loops -> Places] /\ item \in [Loops -> Entry \cup {NoEntry}]
        /\ q \in QueueType(Entry, Loops) /\ W \in Seq(Loops)
        /\ WaitersAre(q, "outPending")
    BY DEF Submit, Control, TypeOK, QueueType
  <2>2. result \in [Loops -> Nat \cup {Null}]
    BY NumberTypes DEF Control
  <2> QED BY <2>1, <2>2 DEF LoopShape, NumberShape, HoldsNumber, WaitersAre
<1>2. entry \in Entry
  BY <1>1 DEF Entry
<1>3. /\ q' = Enqueue(q, entry)
      /\ IF HasWaiter(q)
         THEN at' = [at EXCEPT ![l] = "submitted", ![w] = "outReady"] /\ item' = [item EXCEPT ![w] = entry]
         ELSE at' = [at EXCEPT ![l] = "submitted"] /\ item' = item
  BY DEF Submit, GoTo
<1> HIDE DEF entry
<1>4. q' \in QueueType(Entry, Loops)
  BY <1>1, <1>2, <1>3, EnqueueFacts
<1>5. CASE HasWaiter(q)
  <2>1. /\ q'.queue = q.queue /\ q'.pendingDequeue = Tail(W) /\ w = W[1] /\ w \in Loops /\ 1 \in DOMAIN W
        /\ W # <<>>
    BY <1>1, <1>2, <1>3, <1>5, EnqueueFacts DEF HasWaiter
  <2>2. at[w] = "outPending" /\ w # l
    BY <1>1, <2>1
  <2>3. /\ at' \in [Loops -> Places] /\ at'[l] = "submitted" /\ at'[w] = "outReady"
        /\ item' \in [Loops -> Entry \cup {NoEntry}] /\ item'[w] = entry
        /\ \A k \in Loops \ {l, w} : at'[k] = at[k]
        /\ \A k \in Loops \ {w} : item'[k] = item[k]
    <3> HIDE DEF w
    <3> QED BY <1>1, <1>2, <1>3, <1>5, <2>1, <2>2 DEF Places
  <2>4. WaitersAre(q, "outPending")'
    <3>1. /\ DOMAIN W = 1 .. Len(W) /\ DOMAIN Tail(W) = 1 .. (Len(W) - 1) /\ Len(W) \in Nat \ {0}
          /\ \A i \in 1 .. (Len(W) - 1) : Tail(W)[i] = W[i + 1]
      BY <1>1, <2>1, TailFacts
    <3>2. \A i \in DOMAIN Tail(W) : i + 1 \in DOMAIN W /\ Tail(W)[i] = W[i + 1] /\ i + 1 # 1 /\ i \in Nat
      BY <3>1
    <3> HIDE DEF W, w
    <3>3. \A i \in DOMAIN Tail(W) : Tail(W)[i] \in Loops \ {l, w} /\ at[Tail(W)[i]] = "outPending"
      BY <1>1, <2>1, <3>2
    <3>4. \A i, j \in DOMAIN Tail(W) : Tail(W)[i] = Tail(W)[j] => i = j
      <4> SUFFICES ASSUME NEW i \in DOMAIN Tail(W), NEW j \in DOMAIN Tail(W), Tail(W)[i] = Tail(W)[j]
                   PROVE  i = j
        OBVIOUS
      <4>1. i + 1 = j + 1 /\ i \in Nat /\ j \in Nat
        BY <1>1, <3>2
      <4> QED BY <4>1
    <3> QED BY <2>1, <2>3, <3>3, <3>4 DEF WaitersAre
  <2> QED BY <1>1, <1>2, <1>4, <1>5, <2>1, <2>2, <2>3, <2>4 DEF entry
<1>6. CASE ~HasWaiter(q)
  <2>1. q'.queue = Append(q.queue, entry) /\ q'.pendingDequeue = W
    BY <1>1, <1>2, <1>3, <1>6, EnqueueFacts
  <2>2. /\ at' \in [Loops -> Places] /\ at'[l] = "submitted"
        /\ \A k \in Loops \ {l} : at'[k] = at[k]
        /\ item' = item
    BY <1>1, <1>3, <1>6 DEF Places
  <2>3. WaitersAre(q, "outPending")'
    BY <1>1, <2>1, <2>2 DEF WaitersAre
  <2> QED BY <1>1, <1>2, <1>4, <1>6, <2>1, <2>2, <2>3 DEF entry
<1> QED BY <1>5, <1>6

\* Submit.
LEMMA SubmitControl ==
  ASSUME Control, Numbers!IInv', NEW l \in Loops, Submit(l)
  PROVE  Control'
<1> DEFINE p == payload[l]
           q == outstandingTransactions
           w == OldestWaiter(q)
<1>0. /\ txnNumber' = [txnNumber EXCEPT ![p] = result[l]]
      /\ submission' = [submission EXCEPT ![p] = "posting"]
      /\ payload' = [payload EXCEPT ![l] = 0]
      /\ UNCHANGED <<userVars, taskQueue, transactionsQueue, task, batch, index, recordVars,
                     mempool, onChain, numberingVars>>
      /\ payload \in [Loops -> Payloads \cup {0}]
      /\ txnNumber \in [Payloads -> Nat \cup {Null}]
      /\ submission \in [Payloads -> {"none", "posting", "admitted", "accepted", "rejected"}]
  BY DEF Submit, Control, TypeOK
<1>1. /\ at[l] = "generating" /\ p \in Payloads /\ result[l] \in Nat
      /\ at' \in [Loops -> Places] /\ at'[l] = "submitted"
      /\ item' \in [Loops -> Entry \cup {NoEntry}]
      /\ q' \in QueueType(Entry, Loops)
      /\ WaitersAre(q, "outPending")'
  BY SubmitFacts
<1>2. /\ payload' \in [Loops -> Payloads \cup {0}] /\ payload'[l] = 0 /\ \A k \in Loops \ {l} : payload'[k] = payload[k]
      /\ txnNumber' \in [Payloads -> Nat \cup {Null}] /\ txnNumber'[p] = result[l]
      /\ \A r \in Payloads \ {p} : txnNumber'[r] = txnNumber[r] /\ submission'[r] = submission[r]
      /\ submission' \in [Payloads -> {"none", "posting", "admitted", "accepted", "rejected"}]
      /\ submission'[p] = "posting"
  BY <1>0, <1>1
<1>3. TypeOK'
  BY <1>0, <1>1, <1>2, NextNumberTypes DEF Control, TypeOK, userVars, recordVars
<1>4. ASSUME NEW k \in Loops
      PROVE  LoopShape(k)' /\ NumberShape(k)'
  <2>1. LoopShape(k) /\ NumberShape(k)
        /\ UNCHANGED <<starts, batch, index, pc, op, result, used>>
    BY <1>0 DEF Control, userVars, numberingVars
  <2>2. CASE k = l
    <3>1. item'[l] = item[l]
      BY SubmitFacts
    <3> QED BY <1>1, <1>2, <2>1, <2>2, <3>1 DEF LoopShape, NumberShape, HoldsNumber
  <2>3. CASE k # l /\ at'[k] = at[k] /\ item'[k] = item[k]
    BY <1>2, <2>1, <2>3 DEF LoopShape, NumberShape, HoldsNumber
  <2>4. CASE k # l /\ at[k] = "outPending" /\ at'[k] = "outReady" /\ item'[k] \in Entry
    <3>1. item'[k] # NoEntry
      BY <2>4, SizeAssumption DEF Entry, NoEntry, Payloads
    <3> QED BY <1>2, <2>1, <2>4, <3>1 DEF LoopShape, NumberShape, HoldsNumber
  <2> QED BY <2>2, <2>3, <2>4, SubmitFacts
<1>5. WaitersAre(taskQueue, "taskPending")'
  <2>1. \A i \in DOMAIN taskQueue.pendingDequeue : taskQueue.pendingDequeue[i] \in Loops
    BY DEF Control, TypeOK, QueueType
  <2>2. \A k \in Loops : at[k] = "taskPending" => at'[k] = "taskPending"
    BY <1>1, SubmitFacts
  <2> QED BY <1>0, <2>1, <2>2 DEF Control, WaitersAre
<1>6. SignedShape'
  <2>1. result[l] \in used /\ result[l] # Null
    BY <1>1, NumbersAssumption DEF Control, NumberShape
  <2> QED BY <1>0, <1>1, <1>2, <2>1 DEF Control, SignedShape, numberingVars
<1>7. events' \in Seq(Event) /\ transactionsQueue'.pendingDequeue = <<>>
  BY <1>0 DEF Control, recordVars
<1> QED BY <1>1, <1>3, <1>4, <1>5, <1>6, <1>7 DEF Control

\* What `await outstandingTransactions.dequeue()` does.
LEMMA AwaitFacts ==
  ASSUME Control, NEW l \in Loops, at[l] \notin {"taskPending", "outPending"}, AwaitOutstanding(l),
         UNCHANGED taskQueue
  PROVE  LET q == outstandingTransactions
         IN  /\ at' \in [Loops -> Places] /\ \A k \in Loops \ {l} : at'[k] = at[k]
             /\ item' \in [Loops -> Entry \cup {NoEntry}] /\ \A k \in Loops \ {l} : item'[k] = item[k]
             /\ q' \in QueueType(Entry, Loops)
             /\ WaitersAre(q, "outPending")' /\ WaitersAre(taskQueue, "taskPending")'
             /\ \/ /\ isEmpty(q) /\ q.queue = <<>> /\ q'.queue = <<>>
                   /\ at'[l] = "outPending" /\ item' = item
                \/ /\ ~isEmpty(q) /\ q.queue \in Seq(Entry) /\ q.queue # <<>> /\ q'.queue = Tail(q.queue)
                   /\ at'[l] = "outReady" /\ item'[l] = q.queue[1] /\ q.queue[1] \in Entry
<1> DEFINE q == outstandingTransactions
           W == q.pendingDequeue
<1>1. /\ at \in [Loops -> Places] /\ item \in [Loops -> Entry \cup {NoEntry}]
      /\ q \in QueueType(Entry, Loops) /\ W \in Seq(Loops) /\ q.queue \in Seq(Entry)
      /\ \A i \in DOMAIN W : W[i] \in Loops /\ at[W[i]] = "outPending"
      /\ \A i, j \in DOMAIN W : W[i] = W[j] => i = j
      /\ taskQueue.pendingDequeue \in Seq(Loops)
  <2>1. /\ at \in [Loops -> Places] /\ item \in [Loops -> Entry \cup {NoEntry}]
        /\ q \in QueueType(Entry, Loops) /\ taskQueue \in QueueType({"submit", "process"}, Loops)
        /\ WaitersAre(q, "outPending")
    BY DEF Control, TypeOK
  <2>2. W \in Seq(Loops) /\ q.queue \in Seq(Entry) /\ taskQueue.pendingDequeue \in Seq(Loops)
    BY <2>1 DEF QueueType
  <2> QED BY <2>1, <2>2 DEF WaitersAre
<1>q. q \in QueueType(Entry, Loops)
  BY <1>1
<1>2. q' = Dequeue(q, l) /\ q' \in QueueType(Entry, Loops)
  BY <1>q, DequeueFacts DEF AwaitOutstanding
<1>3. CASE isEmpty(q)
  <2>0. /\ q'.queue = q.queue /\ q'.pendingDequeue = Append(W, l)
    BY <1>q, <1>2, <1>3, DequeueFacts
  <2>1. /\ q'.queue = q.queue /\ q'.pendingDequeue = Append(W, l) /\ q.queue = <<>>
        /\ at' = [at EXCEPT ![l] = "outPending"] /\ item' = item
    BY <1>3, <2>0 DEF AwaitOutstanding, GoTo, isEmpty
  <2>2. at' \in [Loops -> Places] /\ at'[l] = "outPending" /\ \A k \in Loops \ {l} : at'[k] = at[k]
    BY <1>1, <2>1 DEF Places
  <2>3. WaitersAre(q, "outPending")'
    <3>1. /\ DOMAIN W = 1 .. Len(W) /\ DOMAIN Append(W, l) = 1 .. (Len(W) + 1) /\ Len(W) \in Nat
          /\ \A i \in 1 .. Len(W) : Append(W, l)[i] = W[i]
          /\ Append(W, l)[Len(W) + 1] = l
      BY <1>1, AppendFacts
    <3>2. \A i \in DOMAIN Append(W, l) : i = Len(W) + 1 \/ i \in DOMAIN W
      BY <3>1
    <3> HIDE DEF W
    <3> QED BY <1>1, <2>1, <2>2, <3>1, <3>2 DEF WaitersAre
  <2>4. WaitersAre(taskQueue, "taskPending")'
    BY <1>1, <2>2 DEF Control, WaitersAre
  <2> QED BY <1>1, <1>2, <1>3, <2>1, <2>2, <2>3, <2>4
<1>4. CASE ~isEmpty(q)
  <2>0. /\ q'.queue = Tail(q.queue) /\ q'.pendingDequeue = W
        /\ Head(q.queue) = q.queue[1] /\ q.queue[1] \in Entry
    BY <1>q, <1>2, <1>4, DequeueFacts
  <2>1. /\ q.queue # <<>>
        /\ at' = [at EXCEPT ![l] = "outReady"] /\ item' = [item EXCEPT ![l] = q.queue[1]]
    BY <1>4, <2>0 DEF AwaitOutstanding, GoTo, isEmpty
  <2>2. /\ at' \in [Loops -> Places] /\ at'[l] = "outReady" /\ \A k \in Loops \ {l} : at'[k] = at[k]
        /\ item' \in [Loops -> Entry \cup {NoEntry}] /\ item'[l] = q.queue[1]
        /\ \A k \in Loops \ {l} : item'[k] = item[k]
    BY <1>1, <2>0, <2>1 DEF Places
  <2>3. WaitersAre(q, "outPending")' /\ WaitersAre(taskQueue, "taskPending")'
    BY <1>1, <2>0, <2>2 DEF Control, WaitersAre
  <2> QED BY <1>1, <1>2, <1>4, <2>0, <2>1, <2>2, <2>3
<1> QED BY <1>3, <1>4

\* An entry is not the absence of one.
LEMMA EntryIsSome == \A e \in Entry : e # NoEntry
  BY SizeAssumption DEF Entry, NoEntry, Payloads

\* BeginProcess.
LEMMA BeginProcessControl ==
  ASSUME Control, Numbers!IInv', NEW l \in Loops, BeginProcess(l)
  PROVE  Control'
<1>0. /\ at[l] = "taskReady" /\ AwaitOutstanding(l)
      /\ UNCHANGED <<userVars, taskQueue, transactionsQueue, task, payload, batch, index,
                     recordVars, networkVars, numberingVars>>
  BY DEF BeginProcess
<1>1. /\ at' \in [Loops -> Places] /\ \A k \in Loops \ {l} : at'[k] = at[k]
      /\ item' \in [Loops -> Entry \cup {NoEntry}] /\ \A k \in Loops \ {l} : item'[k] = item[k]
      /\ outstandingTransactions' \in QueueType(Entry, Loops)
      /\ WaitersAre(outstandingTransactions, "outPending")' /\ WaitersAre(taskQueue, "taskPending")'
      /\ \/ at'[l] = "outPending" /\ item' = item
         \/ at'[l] = "outReady" /\ item'[l] \in Entry
  BY <1>0, AwaitFacts
<1>2. TypeOK'
  BY <1>0, <1>1, NextNumberTypes DEF Control, TypeOK, userVars, recordVars, networkVars
<1>3. \A k \in Loops : LoopShape(k)' /\ NumberShape(k)'
  BY <1>0, <1>1, EntryIsSome DEF Control, LoopShape, NumberShape, HoldsNumber, userVars, numberingVars
<1>4. SignedShape' /\ events' \in Seq(Event) /\ transactionsQueue'.pendingDequeue = <<>>
  BY <1>0 DEF Control, SignedShape, networkVars, recordVars, numberingVars
<1> QED BY <1>1, <1>2, <1>3, <1>4 DEF Control

\* What taking an item into the batch does.
LEMMA TakeItemFacts ==
  ASSUME Control, NEW l \in Loops, TakeItem(l)
  PROVE  LET q == outstandingTransactions
         IN  /\ at[l] = "outReady" /\ item[l] \in Entry
             /\ at' \in [Loops -> Places] /\ \A k \in Loops \ {l} : at'[k] = at[k]
             /\ item' \in [Loops -> Entry \cup {NoEntry}] /\ \A k \in Loops \ {l} : item'[k] = item[k]
             /\ batch' \in [Loops -> Seq(Entry)] /\ batch'[l] = Append(batch[l], item[l])
             /\ \A k \in Loops \ {l} : batch'[k] = batch[k]
             /\ q' \in QueueType(Entry, Loops)
             /\ WaitersAre(q, "outPending")' /\ WaitersAre(taskQueue, "taskPending")'
             /\ \/ /\ q' = q /\ at'[l] = "settling" /\ item'[l] = NoEntry
                \/ /\ q.queue \in Seq(Entry) /\ q.queue # <<>> /\ q'.queue = Tail(q.queue)
                   /\ at'[l] = "outReady" /\ item'[l] = q.queue[1] /\ q.queue[1] \in Entry
<1> DEFINE q == outstandingTransactions
<1>1. /\ at[l] = "outReady" /\ item \in [Loops -> Entry \cup {NoEntry}] /\ item[l] # NoEntry
      /\ batch \in [Loops -> Seq(Entry)] /\ batch' = [batch EXCEPT ![l] = Append(@, item[l])]
      /\ q \in QueueType(Entry, Loops)
      /\ UNCHANGED taskQueue
  BY DEF TakeItem, Control, TypeOK, LoopShape
<1>2. item[l] \in Entry /\ batch[l] \in Seq(Entry)
  BY <1>1
<1>3. /\ batch' \in [Loops -> Seq(Entry)] /\ batch'[l] = Append(batch[l], item[l])
      /\ \A k \in Loops \ {l} : batch'[k] = batch[k]
  <2>1. Append(batch[l], item[l]) \in Seq(Entry)
    BY <1>2, AppendFacts
  <2> QED BY <1>1, <2>1
<1>4. CASE isEmpty(q)
  <2>1. at' = [at EXCEPT ![l] = "settling"] /\ item' = [item EXCEPT ![l] = NoEntry] /\ q' = q
    BY <1>4 DEF TakeItem, GoTo
  <2>2. /\ at' \in [Loops -> Places] /\ at'[l] = "settling" /\ \A k \in Loops \ {l} : at'[k] = at[k]
        /\ WaitersAre(taskQueue, "taskPending")' /\ WaitersAre(q, "outPending")'
    BY <1>1, <2>1, MovesOn DEF Places
  <2> QED BY <1>1, <1>2, <1>3, <2>1, <2>2
<1>5. CASE ~isEmpty(q)
  <2>1. AwaitOutstanding(l)
    BY <1>5 DEF TakeItem
  <2> QED BY <1>1, <1>2, <1>3, <1>5, <2>1, AwaitFacts
<1> QED BY <1>4, <1>5

\* TakeItem.
LEMMA TakeItemControl ==
  ASSUME Control, Numbers!IInv', NEW l \in Loops, TakeItem(l)
  PROVE  Control'
<1>0. UNCHANGED <<userVars, taskQueue, transactionsQueue, task, payload, index, recordVars,
                  networkVars, numberingVars>>
  BY DEF TakeItem
<1>1. /\ at[l] = "outReady"
      /\ at' \in [Loops -> Places] /\ \A k \in Loops \ {l} : at'[k] = at[k]
      /\ item' \in [Loops -> Entry \cup {NoEntry}] /\ \A k \in Loops \ {l} : item'[k] = item[k]
      /\ batch' \in [Loops -> Seq(Entry)] /\ \A k \in Loops \ {l} : batch'[k] = batch[k]
      /\ outstandingTransactions' \in QueueType(Entry, Loops)
      /\ WaitersAre(outstandingTransactions, "outPending")' /\ WaitersAre(taskQueue, "taskPending")'
      /\ \/ at'[l] = "settling" /\ item'[l] = NoEntry
         \/ at'[l] = "outReady" /\ item'[l] \in Entry
  BY TakeItemFacts
<1>2. TypeOK'
  BY <1>0, <1>1, NextNumberTypes DEF Control, TypeOK, userVars, recordVars, networkVars
<1>3. \A k \in Loops : LoopShape(k)' /\ NumberShape(k)'
  BY <1>0, <1>1, EntryIsSome DEF Control, LoopShape, NumberShape, HoldsNumber, userVars, numberingVars
<1>4. SignedShape' /\ events' \in Seq(Event) /\ transactionsQueue'.pendingDequeue = <<>>
  BY <1>0 DEF Control, SignedShape, networkVars, recordVars, numberingVars
<1> QED BY <1>1, <1>2, <1>3, <1>4 DEF Control

\* BatchSettled.
LEMMA BatchSettledControl ==
  ASSUME Control, Numbers!IInv', NEW l \in Loops, BatchSettled(l)
  PROVE  Control'
<1>0. /\ at[l] = "settling" /\ at' = [at EXCEPT ![l] = "reporting"] /\ index' = [index EXCEPT ![l] = 1]
      /\ index \in [Loops -> Nat] /\ batch \in [Loops -> Seq(Entry)]
      /\ UNCHANGED <<userVars, queueVars, task, payload, item, batch, recordVars, networkVars,
                     numberingVars>>
  BY DEF BatchSettled, GoTo, Control, TypeOK
<1>1. /\ at' \in [Loops -> Places] /\ at'[l] = "reporting" /\ \A k \in Loops \ {l} : at'[k] = at[k]
      /\ WaitersAre(taskQueue, "taskPending")' /\ WaitersAre(outstandingTransactions, "outPending")'
  BY <1>0, MovesOn DEF Places, queueVars
<1>2. index' \in [Loops -> Nat] /\ index'[l] = 1 /\ \A k \in Loops \ {l} : index'[k] = index[k]
  BY <1>0
<1>3. TypeOK'
  BY <1>0, <1>1, <1>2, NextNumberTypes DEF Control, TypeOK, userVars, queueVars, recordVars, networkVars
<1>4. 1 \in 1 .. (Len(batch[l]) + 1)
  BY <1>0
<1>5. \A k \in Loops : LoopShape(k)' /\ NumberShape(k)'
  BY <1>0, <1>1, <1>2, <1>4 DEF Control, LoopShape, NumberShape, HoldsNumber, userVars, numberingVars
<1>6. SignedShape' /\ events' \in Seq(Event) /\ transactionsQueue'.pendingDequeue = <<>>
  BY <1>0 DEF Control, SignedShape, networkVars, recordVars, queueVars, numberingVars
<1> QED BY <1>1, <1>3, <1>5, <1>6 DEF Control

\* The entry at `index`, and its record.
LEMMA CurrentFacts ==
  ASSUME Control, NEW l \in Loops,
         \/ at[l] = "reporting" /\ index[l] <= Len(batch[l])
         \/ at[l] = "checking"
  PROVE  /\ index[l] \in DOMAIN batch[l] /\ index[l] \in 1 .. Len(batch[l]) /\ Len(batch[l]) \in Nat
         /\ Current(l) \in Entry /\ Current(l).txn \in Payloads
         /\ \A ok \in BOOLEAN : RecordOf(Current(l), ok) \in Record
<1>1. batch[l] \in Seq(Entry) /\ LoopShape(l)
  BY DEF Control, TypeOK
<1>2. Len(batch[l]) \in Nat /\ DOMAIN batch[l] = 1 .. Len(batch[l]) /\ index[l] \in 1 .. Len(batch[l])
  BY <1>1 DEF LoopShape
<1>3. Current(l) \in Entry
  BY <1>1, <1>2 DEF Current
<1> QED BY <1>2, <1>3 DEF Entry, Record, RecordOf

\* ReportSent.
LEMMA ReportSentControl ==
  ASSUME Control, Numbers!IInv', NEW l \in Loops, ReportSent(l)
  PROVE  Control'
<1>0. /\ at[l] = "reporting" /\ at' = [at EXCEPT ![l] = "checking"] /\ index[l] <= Len(batch[l])
      /\ sentTransactions' = Append(sentTransactions, RecordOf(Current(l), TRUE))
      /\ events' = Append(events, [event |-> "transactionSent", txn |-> Current(l).txn])
      /\ UNCHANGED <<userVars, queueVars, task, payload, item, batch, index, executedTransactions,
                     networkVars, numberingVars>>
  BY DEF ReportSent, GoTo, Emit
<1>1. /\ at' \in [Loops -> Places] /\ at'[l] = "checking" /\ \A k \in Loops \ {l} : at'[k] = at[k]
      /\ WaitersAre(taskQueue, "taskPending")' /\ WaitersAre(outstandingTransactions, "outPending")'
  BY <1>0, MovesOn DEF Places, queueVars
<1>2. index[l] \in 1 .. Len(batch[l]) /\ Current(l).txn \in Payloads /\ RecordOf(Current(l), TRUE) \in Record
  BY <1>0, CurrentFacts
<1>3. sentTransactions' \in Seq(Record) /\ events' \in Seq(Event)
  <2>1. [event |-> "transactionSent", txn |-> Current(l).txn] \in Event
    BY <1>2 DEF Event, EventKinds
  <2> QED BY <1>0, <1>2, <2>1, AppendFacts DEF Control, TypeOK
<1>4. TypeOK'
  BY <1>0, <1>1, <1>3, NextNumberTypes DEF Control, TypeOK, userVars, queueVars, networkVars
<1>5. \A k \in Loops : LoopShape(k)' /\ NumberShape(k)'
  BY <1>0, <1>1, <1>2 DEF Control, LoopShape, NumberShape, HoldsNumber, userVars, numberingVars
<1>6. SignedShape' /\ transactionsQueue'.pendingDequeue = <<>>
  BY <1>0 DEF Control, SignedShape, networkVars, queueVars, numberingVars
<1> QED BY <1>1, <1>3, <1>4, <1>5, <1>6 DEF Control

\* ReportSendFailed.
LEMMA ReportSendFailedControl ==
  ASSUME Control, Numbers!IInv', NEW l \in Loops, ReportSendFailed(l)
  PROVE  Control'
<1>0. /\ at[l] = "reporting" /\ index[l] <= Len(batch[l])
      /\ sentTransactions' = Append(sentTransactions, RecordOf(Current(l), FALSE))
      /\ events' = Append(events, [event |-> "transactionSendFailed", txn |-> Current(l).txn])
      /\ index' = [index EXCEPT ![l] = index[l] + 1] /\ index \in [Loops -> Nat]
      /\ UNCHANGED <<userVars, queueVars, at, task, payload, item, batch, executedTransactions,
                     networkVars, numberingVars>>
  BY DEF ReportSendFailed, Emit, Control, TypeOK
<1>1. WaitersAre(taskQueue, "taskPending")' /\ WaitersAre(outstandingTransactions, "outPending")'
  BY <1>0 DEF Control, WaitersAre, queueVars
<1>2. /\ index[l] \in 1 .. Len(batch[l]) /\ Len(batch[l]) \in Nat
      /\ Current(l).txn \in Payloads /\ RecordOf(Current(l), FALSE) \in Record
  BY <1>0, CurrentFacts
<1>3. sentTransactions' \in Seq(Record) /\ events' \in Seq(Event)
  <2>1. [event |-> "transactionSendFailed", txn |-> Current(l).txn] \in Event
    BY <1>2 DEF Event, EventKinds
  <2> QED BY <1>0, <1>2, <2>1, AppendFacts DEF Control, TypeOK
<1>4. /\ index' \in [Loops -> Nat] /\ index'[l] \in 1 .. (Len(batch[l]) + 1)
      /\ \A k \in Loops \ {l} : index'[k] = index[k]
  BY <1>0, <1>2
<1>5. TypeOK'
  BY <1>0, <1>1, <1>3, <1>4, NextNumberTypes DEF Control, TypeOK, userVars, queueVars, networkVars
<1>6. \A k \in Loops : LoopShape(k)' /\ NumberShape(k)'
  BY <1>0, <1>1, <1>4 DEF Control, LoopShape, NumberShape, HoldsNumber, userVars, numberingVars
<1>7. SignedShape' /\ transactionsQueue'.pendingDequeue = <<>>
  BY <1>0 DEF Control, SignedShape, networkVars, queueVars, numberingVars
<1> QED BY <1>1, <1>3, <1>5, <1>6, <1>7 DEF Control

\* Checked.
LEMMA CheckedControl ==
  ASSUME Control, Numbers!IInv', NEW l \in Loops, NEW ok \in BOOLEAN, Checked(l, ok)
  PROVE  Control'
<1> DEFINE kind == IF ok THEN "transactionExecuted" ELSE "transactionExecutionFailed"
<1>0. /\ at[l] = "checking" /\ at' = [at EXCEPT ![l] = "reporting"]
      /\ executedTransactions' = Append(executedTransactions, RecordOf(Current(l), ok))
      /\ events' = Append(events, [event |-> kind, txn |-> Current(l).txn])
      /\ index' = [index EXCEPT ![l] = index[l] + 1] /\ index \in [Loops -> Nat]
      /\ UNCHANGED <<userVars, queueVars, task, payload, item, batch, sentTransactions,
                     networkVars, numberingVars>>
  BY DEF Checked, GoTo, Emit, Control, TypeOK
<1>1. /\ at' \in [Loops -> Places] /\ at'[l] = "reporting" /\ \A k \in Loops \ {l} : at'[k] = at[k]
      /\ WaitersAre(taskQueue, "taskPending")' /\ WaitersAre(outstandingTransactions, "outPending")'
  BY <1>0, MovesOn DEF Places, queueVars
<1>2. /\ index[l] \in 1 .. Len(batch[l]) /\ Len(batch[l]) \in Nat
      /\ Current(l).txn \in Payloads /\ RecordOf(Current(l), ok) \in Record
  BY <1>0, CurrentFacts
<1>3. executedTransactions' \in Seq(Record) /\ events' \in Seq(Event)
  <2>1. [event |-> kind, txn |-> Current(l).txn] \in Event
    BY <1>2 DEF Event, EventKinds
  <2> HIDE DEF kind
  <2> QED BY <1>0, <1>2, <2>1, AppendFacts DEF Control, TypeOK
<1>4. /\ index' \in [Loops -> Nat] /\ index'[l] \in 1 .. (Len(batch[l]) + 1)
      /\ \A k \in Loops \ {l} : index'[k] = index[k]
  BY <1>0, <1>2
<1> HIDE DEF kind
<1>5. TypeOK'
  BY <1>0, <1>1, <1>3, <1>4, NextNumberTypes DEF Control, TypeOK, userVars, queueVars, networkVars
<1>6. \A k \in Loops : LoopShape(k)' /\ NumberShape(k)'
  BY <1>0, <1>1, <1>4 DEF Control, LoopShape, NumberShape, HoldsNumber, userVars, numberingVars
<1>7. SignedShape' /\ transactionsQueue'.pendingDequeue = <<>>
  BY <1>0 DEF Control, SignedShape, networkVars, queueVars, numberingVars
<1> QED BY <1>1, <1>3, <1>5, <1>6, <1>7 DEF Control

\* FinishBatch.
LEMMA FinishBatchControl ==
  ASSUME Control, Numbers!IInv', NEW l \in Loops, FinishBatch(l)
  PROVE  Control'
<1>0. /\ at[l] = "reporting" /\ AwaitOutstanding(l)
      /\ batch' = [batch EXCEPT ![l] = <<>>] /\ index' = [index EXCEPT ![l] = 0]
      /\ events' = Append(events, [event |-> "executionFinish", txn |-> 0])
      /\ index \in [Loops -> Nat] /\ batch \in [Loops -> Seq(Entry)]
      /\ UNCHANGED <<userVars, taskQueue, transactionsQueue, task, payload, sentTransactions,
                     executedTransactions, networkVars, numberingVars>>
  BY DEF FinishBatch, Emit, Control, TypeOK
<1>1. /\ at' \in [Loops -> Places] /\ \A k \in Loops \ {l} : at'[k] = at[k]
      /\ item' \in [Loops -> Entry \cup {NoEntry}] /\ \A k \in Loops \ {l} : item'[k] = item[k]
      /\ outstandingTransactions' \in QueueType(Entry, Loops)
      /\ WaitersAre(outstandingTransactions, "outPending")' /\ WaitersAre(taskQueue, "taskPending")'
      /\ \/ at'[l] = "outPending" /\ item' = item
         \/ at'[l] = "outReady" /\ item'[l] \in Entry
  BY <1>0, AwaitFacts
<1>2. /\ index' \in [Loops -> Nat] /\ index'[l] = 0 /\ \A k \in Loops \ {l} : index'[k] = index[k]
      /\ batch' \in [Loops -> Seq(Entry)] /\ batch'[l] = <<>> /\ \A k \in Loops \ {l} : batch'[k] = batch[k]
  <2>1. <<>> \in Seq(Entry)
    OBVIOUS
  <2> QED BY <1>0, <2>1
<1>3. events' \in Seq(Event)
  <2>1. [event |-> "executionFinish", txn |-> 0] \in Event
    BY DEF Event, EventKinds
  <2> QED BY <1>0, <2>1, AppendFacts DEF Control
<1>4. TypeOK'
  <2>1. /\ at' \in [Loops -> Places] /\ item' \in [Loops -> Entry \cup {NoEntry}]
        /\ outstandingTransactions' \in QueueType(Entry, Loops)
        /\ index' \in [Loops -> Nat] /\ batch' \in [Loops -> Seq(Entry)]
        /\ UNCHANGED <<userVars, taskQueue, transactionsQueue, task, payload, sentTransactions,
                       executedTransactions, networkVars>>
    BY <1>0, <1>1, <1>2
  <2> QED BY <2>1, NextNumberTypes DEF Control, TypeOK, userVars, networkVars
<1>5. ASSUME NEW k \in Loops
      PROVE  LoopShape(k)' /\ NumberShape(k)'
  <2>1. LoopShape(k) /\ NumberShape(k) /\ UNCHANGED <<starts, payload, pc, op, result, used>>
    BY <1>0 DEF Control, userVars, numberingVars
  <2>2. CASE k # l
    BY <1>1, <1>2, <2>1, <2>2 DEF LoopShape, NumberShape, HoldsNumber
  <2>3. CASE k = l
    BY <1>0, <1>1, <1>2, <2>1, <2>3, EntryIsSome DEF LoopShape, NumberShape, HoldsNumber
  <2> QED BY <2>2, <2>3
<1>6. SignedShape' /\ transactionsQueue'.pendingDequeue = <<>>
  BY <1>0 DEF Control, SignedShape, networkVars, numberingVars
<1> QED BY <1>1, <1>3, <1>4, <1>5, <1>6 DEF Control

\* The steps of the network: they touch no run loop.
LEMMA RespondControl ==
  ASSUME Control, Numbers!IInv', NEW p \in Payloads, Respond(p) \/ Expire(p)
  PROVE  Control'
<1>0. /\ UNCHANGED <<networkFrame, txnNumber, onChain, numberingVars>>
      /\ submission' \in [Payloads -> {"none", "posting", "admitted", "accepted", "rejected"}]
      /\ \A r \in Payloads : submission'[r] # "none" => submission[r] # "none"
      /\ mempool' \subseteq Payloads
      /\ \A r \in mempool' : r \in mempool \/ submission[r] # "none"
  <2>1. submission \in [Payloads -> {"none", "posting", "admitted", "accepted", "rejected"}]
        /\ mempool \subseteq Payloads
    BY DEF Control, TypeOK
  <2>2. CASE Admit(p)
    BY <2>1, <2>2 DEF Admit
  <2>3. CASE Accepted(p)
    BY <2>1, <2>3 DEF Accepted
  <2>4. CASE Rejected(p)
    BY <2>1, <2>4 DEF Rejected
  <2>5. CASE Expire(p)
    BY <2>1, <2>5 DEF Expire
  <2> QED BY <2>2, <2>3, <2>4, <2>5 DEF Respond
<1>1. TypeOK'
  BY <1>0, NextNumberTypes DEF Control, TypeOK, networkFrame, userVars, queueVars, loopVars, recordVars
<1>2. \A k \in Loops : LoopShape(k)' /\ NumberShape(k)'
  BY <1>0 DEF Control, LoopShape, NumberShape, HoldsNumber, networkFrame, userVars, loopVars, numberingVars
<1>3. WaitersAre(taskQueue, "taskPending")' /\ WaitersAre(outstandingTransactions, "outPending")'
  BY <1>0 DEF Control, WaitersAre, networkFrame, queueVars, loopVars
<1>4. SignedShape' /\ events' \in Seq(Event) /\ transactionsQueue'.pendingDequeue = <<>>
  BY <1>0 DEF Control, SignedShape, networkFrame, recordVars, queueVars, numberingVars
<1> QED BY <1>1, <1>2, <1>3, <1>4 DEF Control

LEMMA CommitControl ==
  ASSUME Control, Numbers!IInv', NEW p \in Payloads, NEW outcome \in {"success", "failure"},
         Commit(p, outcome)
  PROVE  Control'
<1>0. /\ UNCHANGED <<networkFrame, submission, txnNumber, op, pc, result, used>>
      /\ mempool' \subseteq mempool /\ mempool' \subseteq Payloads
      /\ onChain' \in [Payloads -> {"no", "success", "failure"}]
  BY DEF Commit, Control, TypeOK
<1>1. TypeOK'
  BY <1>0, NextNumberTypes DEF Control, TypeOK, networkFrame, userVars, queueVars, loopVars, recordVars
<1>2. \A k \in Loops : LoopShape(k)' /\ NumberShape(k)'
  BY <1>0 DEF Control, LoopShape, NumberShape, HoldsNumber, networkFrame, userVars, loopVars
<1>3. WaitersAre(taskQueue, "taskPending")' /\ WaitersAre(outstandingTransactions, "outPending")'
  BY <1>0 DEF Control, WaitersAre, networkFrame, queueVars, loopVars
<1>4. SignedShape' /\ events' \in Seq(Event) /\ transactionsQueue'.pendingDequeue = <<>>
  BY <1>0 DEF Control, SignedShape, networkFrame, recordVars, queueVars
<1> QED BY <1>1, <1>2, <1>3, <1>4 DEF Control

\* The node's answers to getInfo and the passing of time.
LEMMA NumberNetworkControl ==
  ASSUME Control, Numbers!IInv', NumberNetwork
  PROVE  Control'
<1>0. UNCHANGED workerVars /\ UNCHANGED <<op, pc, result, used>>
  BY DEF NumberNetwork, Numbers!Network, Numbers!Answer, Numbers!Fail, Numbers!Tick, Numbers!historyVars
<1> USE DEF workerVars
<1>1. TypeOK'
  BY <1>0, NextNumberTypes DEF Control, TypeOK, userVars, queueVars, loopVars, recordVars, networkVars
<1>2. \A k \in Loops : LoopShape(k)' /\ NumberShape(k)'
  BY <1>0 DEF Control, LoopShape, NumberShape, HoldsNumber, userVars, loopVars
<1>3. WaitersAre(taskQueue, "taskPending")' /\ WaitersAre(outstandingTransactions, "outPending")'
  BY <1>0 DEF Control, WaitersAre, queueVars, loopVars
<1>4. SignedShape' /\ events' \in Seq(Event) /\ transactionsQueue'.pendingDequeue = <<>>
  BY <1>0 DEF Control, SignedShape, recordVars, networkVars, queueVars
<1> QED BY <1>1, <1>2, <1>3, <1>4 DEF Control

\* Every step of the worker is a step of AccountSequenceNumber or leaves the
\* numbers alone; the chain advances only by a number the worker was given.
LEMMA StepOfNumbers ==
  ASSUME Control, [Next]_vars
  PROVE  [Numbers!Next]_(Numbers!vars)
<1> DEFINE Quiet == UNCHANGED numberingVars
<1>1. Quiet => UNCHANGED Numbers!vars
  BY DEF numberingVars, Numbers!vars, Numbers!numberVars, Numbers!historyVars, Numbers!callVars
<1>2. CASE User
  BY <1>1, <1>2 DEF User, push, start, stop
<1>3. ASSUME NEW l \in Loops, Loop(l)
      PROVE  [Numbers!Next]_(Numbers!vars)
  <2>1. CASE AskNumber(l)
    BY <2>1 DEF AskNumber, Numbers!Next, Numbers!Call
  <2>2. CASE Numbering(l)
    BY <2>2 DEF Numbering, Numbers!Next
  <2>3. CASE NextTask(l) \/ TakePayload(l) \/ NoPayload(l) \/ Submit(l) \/ GenerateFailed(l)
    BY <1>1, <2>3 DEF NextTask, TakePayload, NoPayload, Submit, GenerateFailed
  <2>4. CASE BeginProcess(l) \/ TakeItem(l) \/ BatchSettled(l) \/ ReportSent(l)
             \/ ReportSendFailed(l) \/ FinishBatch(l)
    BY <1>1, <2>4 DEF BeginProcess, TakeItem, BatchSettled, ReportSent, ReportSendFailed, FinishBatch
  <2>5. ASSUME NEW ok \in BOOLEAN, Checked(l, ok)
        PROVE  [Numbers!Next]_(Numbers!vars)
    BY <1>1, <2>5 DEF Checked
  <2> QED BY <1>3, <2>1, <2>2, <2>3, <2>4, <2>5 DEF Loop, Submitting, Processing
<1>4. ASSUME NEW p \in Payloads, Respond(p) \/ Expire(p)
      PROVE  [Numbers!Next]_(Numbers!vars)
  BY <1>1, <1>4 DEF Respond, Admit, Accepted, Rejected, Expire
<1>5. ASSUME NEW p \in Payloads, NEW outcome \in {"success", "failure"}, Commit(p, outcome)
      PROVE  [Numbers!Next]_(Numbers!vars)
  <2>1. chainSequence \in used
    BY <1>5 DEF Commit, Control, SignedShape
  <2>2. Numbers!Commit
    BY <1>5, <2>1 DEF Commit, Numbers!Commit, Numbers!numberVars, Numbers!historyVars, Numbers!callVars
  <2> QED BY <2>2 DEF Numbers!Next
<1>6. CASE NumberNetwork
  BY <1>6 DEF NumberNetwork, Numbers!Next
<1>7. CASE UNCHANGED vars
  BY <1>1, <1>7 DEF vars
<1> QED BY <1>2, <1>3, <1>4, <1>5, <1>6, <1>7 DEF Next, Chain

LEMMA ControlInit == Init => Control
<1> SUFFICES ASSUME Init PROVE Control
  OBVIOUS
<1>0. Numbers!IInv /\ Numbers!TypeOK
  BY NumbersInit, NumberTypes DEF Init
<1>1. NewQueue \in QueueType({"submit", "process"}, Loops) /\ NewQueue \in QueueType(Payloads, Loops)
      /\ NewQueue \in QueueType(Entry, Loops) /\ NewQueue.pendingDequeue = <<>>
  BY DEF NewQueue, QueueType
<1>2. TypeOK
  <2>1. <<>> \in Seq(Record) /\ <<>> \in Seq(Entry) /\ 0 \in Nat
    OBVIOUS
  <2>2. /\ taskQueue \in QueueType({"submit", "process"}, Loops)
        /\ transactionsQueue \in QueueType(Payloads, Loops)
        /\ outstandingTransactions \in QueueType(Entry, Loops)
    BY <1>1 DEF Init
  <2>3. at \in [Loops -> Places] /\ started \in BOOLEAN
    BY DEF Init, Places
  <2>4. pushed \in 0 .. NumPayloads /\ starts \in 0 .. MaxStarts /\ stops \in 0 .. MaxStops
    BY SizeAssumption DEF Init
  <2> QED BY <1>0, <2>1, <2>2, <2>3, <2>4 DEF Init, TypeOK
<1>3. op = [l \in Loops |-> "next"] /\ pc = [l \in Loops |-> "idle"] /\ result = [l \in Loops |-> Null]
  BY DEF Init, Numbers!Init, Numbers!InitWith
<1>4. \A l \in Loops : LoopShape(l) /\ NumberShape(l)
  BY <1>3 DEF Init, LoopShape, NumberShape, HoldsNumber, Loops
<1>5. WaitersAre(taskQueue, "taskPending") /\ WaitersAre(outstandingTransactions, "outPending")
  BY <1>1 DEF Init, WaitersAre
<1>6. SignedShape /\ events \in Seq(Event) /\ transactionsQueue.pendingDequeue = <<>>
  BY <1>1 DEF Init, SignedShape
<1> QED BY <1>0, <1>2, <1>4, <1>5, <1>6 DEF Control

LEMMA ControlStep ==
  ASSUME Control, [Next]_vars
  PROVE  Control'
<1>1. Numbers!IInv'
  BY StepOfNumbers, NumbersStep DEF Control
<1>2. CASE User
  BY <1>1, <1>2, PushControl, StartControl, StopControl DEF User
<1>3. ASSUME NEW l \in Loops, Loop(l)
      PROVE  Control'
  <2>1. CASE NextTask(l)
    BY <1>1, <2>1, NextTaskControl
  <2>2. CASE Submitting(l)
    BY <1>1, <2>2, AskNumberControl, NumberingControl, TakePayloadControl, NoPayloadControl,
       SubmitControl, GenerateFailedControl DEF Submitting
  <2>3. CASE Processing(l)
    BY <1>1, <2>3, BeginProcessControl, TakeItemControl, BatchSettledControl, ReportSentControl,
       ReportSendFailedControl, FinishBatchControl, CheckedControl DEF Processing
  <2> QED BY <1>3, <2>1, <2>2, <2>3 DEF Loop
<1>4. ASSUME NEW p \in Payloads, Respond(p) \/ Chain(p)
      PROVE  Control'
  BY <1>1, <1>4, RespondControl, CommitControl DEF Chain
<1>5. CASE NumberNetwork
  BY <1>1, <1>5, NumberNetworkControl
<1>6. CASE UNCHANGED vars
  <2>0. UNCHANGED workerVars /\ UNCHANGED <<op, pc, result, used>>
    BY <1>6 DEF vars, numberingVars
  <2> USE DEF workerVars
  <2>1. TypeOK'
    BY <1>1, <2>0, NextNumberTypes DEF Control, TypeOK, userVars, queueVars, loopVars, recordVars, networkVars
  <2>2. \A k \in Loops : LoopShape(k)' /\ NumberShape(k)'
    BY <2>0 DEF Control, LoopShape, NumberShape, HoldsNumber, userVars, loopVars
  <2>3. WaitersAre(taskQueue, "taskPending")' /\ WaitersAre(outstandingTransactions, "outPending")'
    BY <2>0 DEF Control, WaitersAre, queueVars, loopVars
  <2>4. SignedShape' /\ events' \in Seq(Event) /\ transactionsQueue'.pendingDequeue = <<>>
    BY <2>0 DEF Control, SignedShape, recordVars, networkVars, queueVars
  <2> QED BY <1>1, <2>1, <2>2, <2>3, <2>4 DEF Control
<1> QED BY <1>2, <1>3, <1>4, <1>5, <1>6 DEF Next

\* The control layer holds in every reachable state.
THEOREM ControlHolds == Spec => []Control
  BY ControlInit, ControlStep, PTL DEF Spec

\* Every variable keeps its type.
THEOREM TypeCorrectness == Spec => []TypeOK
  BY ControlHolds, PTL DEF Control

\* The run loops use the sequence numbers as AccountSequenceNumber expects of
\* its callers, and the chain advances only by numbers it handed out.
THEOREM ImplementsNumbers == Spec => Numbers!Spec
<1>1. Init => Numbers!Init
  BY DEF Init
<1> QED BY <1>1, ControlHolds, StepOfNumbers, PTL DEF Spec, Numbers!Spec
-----------------------------------------------------------------------------
(* The places layer is inductive. *)

\* A step that moves no payload.
LEMMA SamePlaces ==
  ASSUME PlacesInv,
         UNCHANGED <<transactionsQueue.queue, outstandingTransactions.queue, payload, item,
                     sentTransactions, pushed>>,
         \A p \in Payloads, l \in Loops, i \in Nat : InBatch(p, l, i)' <=> InBatch(p, l, i),
         \A p \in Payloads : submission'[p] # "none" <=> submission[p] # "none"
  PROVE  PlacesInv'
<1>1. \A p \in Payloads, k \in Kinds, a, b \in Nat : Kept(p, k, a, b)' <=> Kept(p, k, a, b)
  <2> SUFFICES ASSUME NEW p \in Payloads, NEW k \in Kinds, NEW a \in Nat, NEW b \in Nat
               PROVE  Kept(p, k, a, b)' <=> Kept(p, k, a, b)
    OBVIOUS
  <2>1. InBatch(p, a, b)' <=> InBatch(p, a, b)
    BY DEF InBatch
  <2>2. /\ InQueue(p, b)' <=> InQueue(p, b)
        /\ InPayload(p, a)' <=> InPayload(p, a)
        /\ InOutstanding(p, b)' <=> InOutstanding(p, b)
        /\ InItem(p, a)' <=> InItem(p, a)
        /\ InSent(p, b)' <=> InSent(p, b)
    BY DEF InQueue, InPayload, InOutstanding, InItem, InSent
  <2> QED BY <2>1, <2>2 DEF Kept
<1>2. KeptOnce'
  BY <1>1 DEF PlacesInv, KeptOnce
<1>3. KeptWhere'
  BY <1>1 DEF PlacesInv, KeptWhere
<1>4. SubmittedIsKept'
  BY <1>1 DEF PlacesInv, SubmittedIsKept, Submitted, Kinds
<1> QED BY <1>2, <1>3, <1>4 DEF PlacesInv

\* The entries of the batches that are not reported yet stay the same when a
\* step touches no batch and no loop begins or ends a check.
LEMMA SameBatches ==
  ASSUME UNCHANGED <<batch, index>>,
         \A l \in Loops : at'[l] = "checking" <=> at[l] = "checking"
  PROVE  \A p \in Payloads, l \in Loops, i \in Nat : InBatch(p, l, i)' <=> InBatch(p, l, i)
  BY DEF InBatch, Unreported

\* push.
LEMMA PushPlaces ==
  ASSUME Control, PlacesInv, push
  PROVE  PlacesInv'
<1> PICK n \in Payloads : pushPayload(n)
  BY DEF push
<1> DEFINE Q == transactionsQueue.queue
<1>1. /\ n = pushed + 1 /\ pushed' = n /\ pushed \in Nat
      /\ UNCHANGED <<outstandingTransactions, payload, item, sentTransactions, batch, index, at, submission>>
  BY DEF push, pushPayload, loopVars, recordVars, networkVars, Control, TypeOK
<1>2. /\ transactionsQueue'.queue = Append(Q, n) /\ Q \in Seq(Payloads)
  <2>1. transactionsQueue' = Enqueue(transactionsQueue, n) /\ transactionsQueue \in QueueType(Payloads, Loops)
        /\ ~HasWaiter(transactionsQueue)
    BY DEF pushPayload, Control, TypeOK, HasWaiter
  <2> QED BY <2>1, EnqueueFacts
<1>3. /\ DOMAIN Q = 1 .. Len(Q) /\ DOMAIN Append(Q, n) = 1 .. (Len(Q) + 1) /\ Len(Q) \in Nat
      /\ \A i \in 1 .. Len(Q) : Append(Q, n)[i] = Q[i]
      /\ Append(Q, n)[Len(Q) + 1] = n
  BY <1>2, AppendFacts
<1>4. \A p \in Payloads, k \in Kinds, a, b \in Nat :
         Kept(p, k, a, b)' <=> \/ Kept(p, k, a, b)
                               \/ k = "transactionsQueue" /\ a = 0 /\ b = Len(Q) + 1 /\ p = n
  <2> SUFFICES ASSUME NEW p \in Payloads, NEW k \in Kinds, NEW a \in Nat, NEW b \in Nat
               PROVE  Kept(p, k, a, b)' <=> \/ Kept(p, k, a, b)
                                            \/ k = "transactionsQueue" /\ a = 0 /\ b = Len(Q) + 1 /\ p = n
    OBVIOUS
  <2>1. /\ InPayload(p, a)' <=> InPayload(p, a)
        /\ InOutstanding(p, b)' <=> InOutstanding(p, b)
        /\ InItem(p, a)' <=> InItem(p, a)
        /\ InBatch(p, a, b)' <=> InBatch(p, a, b)
        /\ InSent(p, b)' <=> InSent(p, b)
    BY <1>1 DEF InPayload, InOutstanding, InItem, InBatch, InSent, Unreported
  <2>2. InQueue(p, b)' <=> InQueue(p, b) \/ (b = Len(Q) + 1 /\ p = n)
    <3> HIDE DEF Q
    <3>1. InQueue(p, b)' <=> b \in DOMAIN Append(Q, n) /\ Append(Q, n)[b] = p
      BY <1>2 DEF InQueue
    <3>2. InQueue(p, b) <=> b \in DOMAIN Q /\ Q[b] = p
      BY DEF InQueue, Q
    <3> QED BY <1>3, <3>1, <3>2
  <2> QED BY <2>1, <2>2 DEF Kept
<1> HIDE DEF Q
<1>5. \A k \in Kinds, a, b \in Nat : ~Kept(n, k, a, b)
  BY <1>1 DEF PlacesInv, KeptWhere
<1>6. submission[n] = "none"
  BY <1>5 DEF PlacesInv, SubmittedIsKept, Submitted, Kinds
<1>7. KeptOnce'
  BY <1>4, <1>5 DEF PlacesInv, KeptOnce
<1>8. KeptWhere'
  <2>1. \A p \in Payloads : p <= pushed => p <= n
    BY <1>1 DEF Payloads
  <2>2. "transactionsQueue" \notin Submitted /\ n <= n
    BY <1>1 DEF Submitted
  <2> QED BY <1>1, <1>4, <1>6, <2>1, <2>2 DEF PlacesInv, KeptWhere
<1>9. SubmittedIsKept'
  BY <1>1, <1>4 DEF PlacesInv, SubmittedIsKept, Submitted, Kinds
<1> QED BY <1>7, <1>8, <1>9 DEF PlacesInv

\* TakePayload: the head of the queue becomes the loop's payload.
LEMMA TakePayloadPlaces ==
  ASSUME Control, PlacesInv, NEW l \in Loops, TakePayload(l)
  PROVE  PlacesInv'
<1> DEFINE Q == transactionsQueue.queue
<1>1. /\ UNCHANGED <<pushed, outstandingTransactions, item, sentTransactions, batch, index, submission>>
      /\ at' = [at EXCEPT ![l] = "generating"] /\ at[l] = "numbering" /\ at \in [Loops -> Places]
      /\ payload \in [Loops -> Payloads \cup {0}]
      /\ payload' = [payload EXCEPT ![l] = Head(Q)] /\ payload[l] = 0
  BY DEF TakePayload, GoTo, userVars, recordVars, networkVars, Control, TypeOK, LoopShape
<1>2. /\ transactionsQueue'.queue = Tail(Q) /\ Q \in Seq(Payloads) /\ Q # <<>>
  <2>1. transactionsQueue' = Dequeue(transactionsQueue, l) /\ transactionsQueue \in QueueType(Payloads, Loops)
        /\ ~isEmpty(transactionsQueue)
    BY DEF TakePayload, Control, TypeOK
  <2>2. transactionsQueue'.queue = Tail(Q) /\ Q \in Seq(Payloads)
    BY <2>1, DequeueFacts
  <2> QED BY <2>1, <2>2 DEF isEmpty
<1>3. /\ DOMAIN Q = 1 .. Len(Q) /\ DOMAIN Tail(Q) = 1 .. (Len(Q) - 1) /\ Len(Q) \in Nat \ {0}
      /\ \A i \in 1 .. (Len(Q) - 1) : Tail(Q)[i] = Q[i + 1]
      /\ Head(Q) = Q[1] /\ Head(Q) \in Payloads
  BY <1>2, TailFacts
<1>4. \A p \in Payloads, k \in Loops : InPayload(p, k)' <=> IF k = l THEN InQueue(p, 1) ELSE InPayload(p, k)
  <2>1. payload'[l] = Q[1] /\ \A k \in Loops \ {l} : payload'[k] = payload[k]
    BY <1>1, <1>3
  <2>2. \A p \in Payloads : InQueue(p, 1) <=> Q[1] = p
    BY <1>3 DEF InQueue
  <2> QED BY <2>1, <2>2 DEF InPayload
<1>5. \A p \in Payloads, b \in Nat : InQueue(p, b)' <=> b >= 1 /\ InQueue(p, b + 1)
  <2> HIDE DEF Q
  <2>1. \A p \in Payloads, b \in Nat : InQueue(p, b)' <=> b \in DOMAIN Tail(Q) /\ Tail(Q)[b] = p
    BY <1>2 DEF InQueue
  <2>2. \A p \in Payloads, b \in Nat : InQueue(p, b) <=> b \in DOMAIN Q /\ Q[b] = p
    BY DEF InQueue, Q
  <2>3. \A b \in Nat : b \in DOMAIN Tail(Q) <=> b >= 1 /\ b + 1 \in DOMAIN Q
    BY <1>3
  <2> QED BY <1>3, <2>1, <2>2, <2>3
<1> HIDE DEF Q
<1>6. \A p \in Payloads, a, b \in Nat :
         /\ InOutstanding(p, b)' <=> InOutstanding(p, b)
         /\ InItem(p, a)' <=> InItem(p, a)
         /\ InBatch(p, a, b)' <=> InBatch(p, a, b)
         /\ InSent(p, b)' <=> InSent(p, b)
  BY <1>1 DEF InOutstanding, InItem, InBatch, InSent, Unreported
<1> DEFINE K(k, a) == IF k = "generating" /\ a = l THEN "transactionsQueue" ELSE k
           A(k, a) == IF k = "generating" /\ a = l THEN 0 ELSE a
           B(k, a, b) == IF k = "generating" /\ a = l THEN 1
                         ELSE IF k = "transactionsQueue" THEN b + 1 ELSE b
<1>7. ASSUME NEW p \in Payloads, NEW k \in Kinds, NEW a \in Nat, NEW b \in Nat, Kept(p, k, a, b)'
      PROVE  /\ K(k, a) \in Kinds /\ A(k, a) \in Nat /\ B(k, a, b) \in Nat
             /\ Kept(p, K(k, a), A(k, a), B(k, a, b))
             /\ k = "transactionsQueue" => b >= 1
             /\ k = "generating" => b = 0
             /\ K(k, a) \in Submitted <=> k \in Submitted
  <2>0. Loops \subseteq Nat
    BY DEF Loops
  <2>1. CASE k = "generating" /\ a = l
    BY <1>4, <1>7, <2>0, <2>1 DEF Kept, InPayload, Kinds, Submitted
  <2>2. CASE k = "generating" /\ a # l
    BY <1>4, <1>7, <2>0, <2>2 DEF Kept, InPayload, Kinds, Submitted
  <2>3. CASE k = "transactionsQueue"
    BY <1>5, <1>7, <2>3 DEF Kept, Kinds, Submitted
  <2>4. CASE k \notin {"generating", "transactionsQueue"}
    BY <1>6, <1>7, <2>4 DEF Kept
  <2> QED BY <2>1, <2>2, <2>3, <2>4
<1>8. KeptOnce'
  <2> SUFFICES ASSUME NEW p \in Payloads, NEW k1 \in Kinds, NEW k2 \in Kinds,
                      NEW a1 \in Nat, NEW a2 \in Nat, NEW b1 \in Nat, NEW b2 \in Nat,
                      Kept(p, k1, a1, b1)', Kept(p, k2, a2, b2)'
               PROVE  k1 = k2 /\ a1 = a2 /\ b1 = b2
    BY DEF KeptOnce
  <2>1. K(k1, a1) = K(k2, a2) /\ A(k1, a1) = A(k2, a2) /\ B(k1, a1, b1) = B(k2, a2, b2)
    <3>1. /\ K(k1, a1) \in Kinds /\ A(k1, a1) \in Nat /\ B(k1, a1, b1) \in Nat
          /\ Kept(p, K(k1, a1), A(k1, a1), B(k1, a1, b1))
      BY <1>7
    <3>2. /\ K(k2, a2) \in Kinds /\ A(k2, a2) \in Nat /\ B(k2, a2, b2) \in Nat
          /\ Kept(p, K(k2, a2), A(k2, a2), B(k2, a2, b2))
      BY <1>7
    <3> HIDE DEF K, A, B
    <3> QED BY <3>1, <3>2 DEF PlacesInv, KeptOnce
  <2>2. /\ k1 = "transactionsQueue" => b1 >= 1 /\ a1 = 0
        /\ k2 = "transactionsQueue" => b2 >= 1 /\ a2 = 0
        /\ k1 = "generating" => b1 = 0
        /\ k2 = "generating" => b2 = 0
    BY <1>7 DEF Kept
  <2> QED BY <2>1, <2>2
<1>9. KeptWhere'
  BY <1>1, <1>7 DEF PlacesInv, KeptWhere
<1>10. SubmittedIsKept'
  <2>1. \A p \in Payloads, k \in Submitted, a, b \in Nat : Kept(p, k, a, b) => Kept(p, k, a, b)'
    BY <1>6 DEF Kept, Submitted
  <2> QED BY <1>1, <2>1 DEF PlacesInv, SubmittedIsKept
<1> QED BY <1>8, <1>9, <1>10 DEF PlacesInv

\* GenerateFailed: the payload is in no place any more.
LEMMA GenerateFailedPlaces ==
  ASSUME Control, PlacesInv, NEW l \in Loops, GenerateFailed(l)
  PROVE  PlacesInv'
<1>1. /\ UNCHANGED <<pushed, transactionsQueue, outstandingTransactions, item, sentTransactions,
                     batch, index, submission>>
      /\ at' = [at EXCEPT ![l] = "failed"] /\ at[l] = "generating" /\ at \in [Loops -> Places]
      /\ payload \in [Loops -> Payloads \cup {0}] /\ payload' = [payload EXCEPT ![l] = 0]
  BY DEF GenerateFailed, GoTo, userVars, queueVars, recordVars, networkVars, Control, TypeOK
<1>2. \A p \in Payloads, a, b \in Nat :
         /\ InQueue(p, b)' <=> InQueue(p, b)
         /\ InOutstanding(p, b)' <=> InOutstanding(p, b)
         /\ InItem(p, a)' <=> InItem(p, a)
         /\ InBatch(p, a, b)' <=> InBatch(p, a, b)
         /\ InSent(p, b)' <=> InSent(p, b)
  BY <1>1 DEF InQueue, InOutstanding, InItem, InBatch, InSent, Unreported
<1>3. \A p \in Payloads, a \in Nat : InPayload(p, a)' => InPayload(p, a)
  BY <1>1 DEF InPayload, Payloads
<1>4. \A p \in Payloads, k \in Kinds, a, b \in Nat : Kept(p, k, a, b)' => Kept(p, k, a, b)
  BY <1>2, <1>3 DEF Kept
<1>5. \A p \in Payloads, k \in Submitted, a, b \in Nat : Kept(p, k, a, b) => Kept(p, k, a, b)'
  BY <1>2 DEF Kept, Submitted
<1> QED BY <1>1, <1>4, <1>5 DEF PlacesInv, KeptOnce, KeptWhere, SubmittedIsKept

\* Submit: the loop's payload becomes the entry of a waiting loop, or the last
\* entry of the queue.
LEMMA SubmitPlaces ==
  ASSUME Control, PlacesInv, NEW l \in Loops, Submit(l)
  PROVE  PlacesInv'
<1> DEFINE n == payload[l]
           entry == [txn |-> payload[l], number |-> result[l]]
           q == outstandingTransactions
           Q == q.queue
           w == OldestWaiter(q)
           wk == IF HasWaiter(q) THEN "item" ELSE "outstanding"
           wa == IF HasWaiter(q) THEN w ELSE 0
           wb == IF HasWaiter(q) THEN 0 ELSE Len(Q) + 1
<1>1. /\ UNCHANGED <<pushed, transactionsQueue, sentTransactions, batch, index>>
      /\ payload \in [Loops -> Payloads \cup {0}] /\ payload' = [payload EXCEPT ![l] = 0]
      /\ submission' = [submission EXCEPT ![n] = "posting"]
      /\ submission \in [Payloads -> {"none", "posting", "admitted", "accepted", "rejected"}]
      /\ Q \in Seq(Entry) /\ l \in Nat /\ Loops \subseteq Nat
  BY DEF Submit, userVars, recordVars, Control, TypeOK, QueueType, Loops
<1>2. at[l] = "generating" /\ n \in Payloads /\ entry \in Entry /\ entry.txn = n
  BY SubmitFacts
<1>3. \A k \in Loops : at'[k] = "checking" <=> at[k] = "checking"
  BY SubmitFacts
<1>4. ASSUME NEW p \in Payloads, NEW a \in Nat, NEW b \in Nat
      PROVE  /\ InQueue(p, b)' <=> InQueue(p, b)
             /\ InPayload(p, a)' <=> InPayload(p, a) /\ a # l
             /\ InBatch(p, a, b)' <=> InBatch(p, a, b)
             /\ InSent(p, b)' <=> InSent(p, b)
  <2>1. InQueue(p, b)' <=> InQueue(p, b)
    BY <1>1 DEF InQueue
  <2>2. InPayload(p, a)' <=> InPayload(p, a) /\ a # l
    BY <1>1 DEF InPayload, Payloads
  <2>3. InBatch(p, a, b)' <=> InBatch(p, a, b)
    BY <1>1, <1>3 DEF InBatch, Unreported
  <2>4. InSent(p, b)' <=> InSent(p, b)
    BY <1>1 DEF InSent
  <2> QED BY <2>1, <2>2, <2>3, <2>4
<1>5a. wk \in {"item", "outstanding"} /\ wk \in Submitted /\ wk \in Kinds /\ wa \in Nat /\ wb \in Nat
  <2>1. HasWaiter(q) => w \in Loops
    BY <1>2, SubmitFacts
  <2>2. Len(Q) \in Nat
    BY <1>1
  <2> HIDE DEF w, Q
  <2> QED BY <1>1, <2>1, <2>2 DEF Submitted, Kinds
<1>5. ASSUME NEW p \in Payloads, NEW a \in Nat, NEW b \in Nat
      PROVE  /\ InOutstanding(p, b)' <=> InOutstanding(p, b) \/ (wk = "outstanding" /\ b = wb /\ p = n)
             /\ InItem(p, a)' <=> InItem(p, a) \/ (wk = "item" /\ a = wa /\ p = n)
  <2>1. CASE HasWaiter(q)
    <3>1. /\ w \in Loops /\ at[w] = "outPending" /\ q'.queue = Q /\ item'[w].txn = n
          /\ \A k \in Loops \ {w} : item'[k] = item[k]
      BY <2>1, <1>2, SubmitFacts
    <3>2. item[w].txn = 0
      BY <3>1 DEF Control, LoopShape, NoEntry
    <3>3. p # 0
      BY DEF Payloads
    <3> HIDE DEF w, n
    <3> QED BY <1>1, <2>1, <3>1, <3>2, <3>3 DEF InOutstanding, InItem
  <2>2. CASE ~HasWaiter(q)
    <3>1. q'.queue = Append(Q, entry) /\ item' = item
      BY <2>2, SubmitFacts
    <3> HIDE DEF entry
    <3>2. /\ DOMAIN Q = 1 .. Len(Q) /\ DOMAIN Append(Q, entry) = 1 .. (Len(Q) + 1) /\ Len(Q) \in Nat
          /\ \A i \in 1 .. Len(Q) : Append(Q, entry)[i] = Q[i]
          /\ Append(Q, entry)[Len(Q) + 1] = entry
      BY <1>1, <1>2, AppendFacts
    <3>3. InOutstanding(p, b)' <=> InOutstanding(p, b) \/ (b = Len(Q) + 1 /\ p = n)
      <4> HIDE DEF Q, n
      <4>1. InOutstanding(p, b)' <=> b \in DOMAIN Append(Q, entry) /\ Append(Q, entry)[b].txn = p
        BY <3>1 DEF InOutstanding
      <4>2. InOutstanding(p, b) <=> b \in DOMAIN Q /\ Q[b].txn = p
        BY DEF InOutstanding, Q
      <4> QED BY <1>2, <3>2, <4>1, <4>2
    <3>4. InItem(p, a)' <=> InItem(p, a)
      BY <3>1 DEF InItem
    <3> QED BY <2>2, <3>3, <3>4
  <2> QED BY <2>1, <2>2
<1> HIDE DEF wk, wa, wb, w, Q, entry
<1>6. ASSUME NEW p \in Payloads, NEW k \in Kinds, NEW a \in Nat, NEW b \in Nat
      PROVE  Kept(p, k, a, b)' => \/ Kept(p, k, a, b) /\ ~(k = "generating" /\ a = l)
                                  \/ p = n /\ k = wk /\ a = wa /\ b = wb
  <2>1. wk = "outstanding" => wa = 0
    BY DEF wk, wa
  <2>2. wk = "item" => wb = 0
    BY DEF wk, wb
  <2> HIDE DEF n
  <2> QED BY <1>4, <1>5, <2>1, <2>2 DEF Kept, Submitted
<1>7. ASSUME NEW k \in Kinds, NEW a \in Nat, NEW b \in Nat, Kept(n, k, a, b)
      PROVE  k = "generating" /\ a = l
  <2>1. Kept(n, "generating", l, 0) /\ "generating" \in Kinds
    BY <1>1 DEF Kept, InPayload, Kinds
  <2> QED BY <1>1, <1>2, <1>7, <2>1 DEF PlacesInv, KeptOnce
<1>8. KeptOnce'
  BY <1>2, <1>6, <1>7 DEF PlacesInv, KeptOnce
<1>9. n <= pushed
  <2>1. Kept(n, "generating", l, 0) /\ "generating" \in Kinds
    BY <1>1 DEF Kept, InPayload, Kinds
  <2> QED BY <1>1, <1>2, <2>1 DEF PlacesInv, KeptWhere
<1> HIDE DEF n
<1>10. submission'[n] = "posting" /\ \A p \in Payloads \ {n} : submission'[p] = submission[p]
  BY <1>1, <1>2
<1>11. KeptWhere'
  <2> SUFFICES ASSUME NEW p \in Payloads, NEW k \in Kinds, NEW a \in Nat, NEW b \in Nat, Kept(p, k, a, b)'
               PROVE  p <= pushed /\ (submission'[p] # "none" <=> k \in Submitted)
    BY <1>1 DEF KeptWhere
  <2>1. CASE p = n
    BY <1>5a, <1>6, <1>7, <1>9, <1>10, <2>1
  <2>2. CASE p # n
    BY <1>6, <1>10, <2>2 DEF PlacesInv, KeptWhere
  <2> QED BY <2>1, <2>2
<1>12. SubmittedIsKept'
  <2>1. ASSUME NEW p \in Payloads, p = n,
               NEW k \in Submitted, k = wk, NEW a \in Nat, a = wa, NEW b \in Nat, b = wb
        PROVE  Kept(p, k, a, b)'
    <3>1. (wk = "outstanding" => wa = 0) /\ (wk = "item" => wb = 0)
      BY DEF wk, wa, wb
    <3>2. (k = "outstanding" => InOutstanding(p, b)') /\ (k = "item" => InItem(p, a)')
      BY <1>5, <2>1
    <3> QED BY <1>5a, <2>1, <3>1, <3>2 DEF Kept
  <2>2. \A p \in Payloads, k \in Submitted, a, b \in Nat : Kept(p, k, a, b) => Kept(p, k, a, b)'
    BY <1>4, <1>5 DEF Kept, Submitted
  <2>3. ASSUME NEW p \in Payloads, submission'[p] # "none"
        PROVE  \E k \in Submitted : \E a, b \in Nat : Kept(p, k, a, b)'
    <3>1. CASE p = n
      BY <1>5a, <2>1, <3>1
    <3>2. CASE p # n
      BY <1>10, <2>2, <2>3, <3>2 DEF PlacesInv, SubmittedIsKept
    <3> QED BY <3>1, <3>2
  <2> QED BY <2>3 DEF SubmittedIsKept
<1> QED BY <1>8, <1>11, <1>12 DEF PlacesInv

\* `await outstandingTransactions.dequeue()`: the oldest entry becomes the
\* loop's item.
LEMMA AwaitPlaces ==
  ASSUME Control, PlacesInv, NEW l \in Loops, item[l] = NoEntry,
         at[l] \notin {"taskPending", "outPending"}, AwaitOutstanding(l),
         UNCHANGED <<taskQueue, transactionsQueue, payload, sentTransactions, pushed, submission>>,
         \A p \in Payloads, k \in Loops, i \in Nat : InBatch(p, k, i)' <=> InBatch(p, k, i)
  PROVE  PlacesInv'
<1> DEFINE q == outstandingTransactions
           Q == q.queue
<1>1. \/ Q = <<>> /\ q'.queue = <<>> /\ item' = item
      \/ /\ Q \in Seq(Entry) /\ Q # <<>> /\ q'.queue = Tail(Q)
         /\ item'[l] = Q[1] /\ Q[1] \in Entry
         /\ \A k \in Loops \ {l} : item'[k] = item[k]
  BY AwaitFacts
<1>2. CASE Q = <<>> /\ q'.queue = <<>> /\ item' = item
  BY <1>2, SamePlaces
<1>3. CASE /\ Q \in Seq(Entry) /\ Q # <<>> /\ q'.queue = Tail(Q)
           /\ item'[l] = Q[1] /\ Q[1] \in Entry
           /\ \A k \in Loops \ {l} : item'[k] = item[k]
  <2>1. /\ DOMAIN Q = 1 .. Len(Q) /\ DOMAIN Tail(Q) = 1 .. (Len(Q) - 1) /\ Len(Q) \in Nat \ {0}
        /\ \A i \in 1 .. (Len(Q) - 1) : Tail(Q)[i] = Q[i + 1]
    BY <1>3, TailFacts
  <2>2. \A p \in Payloads, k \in Nat :
           InItem(p, k)' <=> IF k = l THEN InOutstanding(p, 1) ELSE InItem(p, k)
    <3>1. \A p \in Payloads : InOutstanding(p, 1) <=> Q[1].txn = p
      BY <2>1 DEF InOutstanding
    <3> QED BY <1>3, <3>1 DEF InItem
  <2>3. \A p \in Payloads, b \in Nat : InOutstanding(p, b)' <=> b >= 1 /\ InOutstanding(p, b + 1)
    <3> HIDE DEF Q
    <3>1. \A p \in Payloads, b \in Nat : InOutstanding(p, b)' <=> b \in DOMAIN Tail(Q) /\ Tail(Q)[b].txn = p
      BY <1>3 DEF InOutstanding
    <3>2. \A p \in Payloads, b \in Nat : InOutstanding(p, b) <=> b \in DOMAIN Q /\ Q[b].txn = p
      BY DEF InOutstanding, Q
    <3>3. \A b \in Nat : b \in DOMAIN Tail(Q) <=> b >= 1 /\ b + 1 \in DOMAIN Q
      BY <2>1
    <3> QED BY <2>1, <3>1, <3>2, <3>3
  <2>4. \A p \in Payloads, b \in Nat : InOutstanding(p, b) => b >= 1
    BY <2>1 DEF InOutstanding
  <2>5. \A p \in Payloads : ~InItem(p, l)
    BY DEF InItem, NoEntry, Payloads
  <2> HIDE DEF Q
  <2>6. \A p \in Payloads, a, b \in Nat :
           /\ InQueue(p, b)' <=> InQueue(p, b)
           /\ InPayload(p, a)' <=> InPayload(p, a)
           /\ InBatch(p, a, b)' <=> InBatch(p, a, b)
           /\ InSent(p, b)' <=> InSent(p, b)
    BY DEF InQueue, InPayload, InBatch, InSent
  <2> DEFINE K(k, a) == IF k = "item" /\ a = l THEN "outstanding" ELSE k
             A(k, a) == IF k = "item" /\ a = l THEN 0 ELSE a
             B(k, a, b) == IF k = "item" /\ a = l THEN 1
                           ELSE IF k = "outstanding" THEN b + 1 ELSE b
  <2>7. ASSUME NEW p \in Payloads, NEW k \in Kinds, NEW a \in Nat, NEW b \in Nat, Kept(p, k, a, b)'
        PROVE  /\ K(k, a) \in Kinds /\ A(k, a) \in Nat /\ B(k, a, b) \in Nat
               /\ Kept(p, K(k, a), A(k, a), B(k, a, b))
               /\ k = "outstanding" => b >= 1 /\ a = 0
               /\ k = "item" => b = 0
               /\ K(k, a) \in Submitted <=> k \in Submitted
    <3>1. CASE k = "item" /\ a = l
      BY <2>2, <2>7, <3>1 DEF Kept, Kinds, Submitted
    <3>2. CASE k = "item" /\ a # l
      BY <2>2, <2>7, <3>2 DEF Kept, Kinds, Submitted
    <3>3. CASE k = "outstanding"
      BY <2>3, <2>7, <3>3 DEF Kept, Kinds, Submitted
    <3>4. CASE k \notin {"item", "outstanding"}
      BY <2>6, <2>7, <3>4 DEF Kept
    <3> QED BY <3>1, <3>2, <3>3, <3>4
  <2>8. KeptOnce'
    <3> SUFFICES ASSUME NEW p \in Payloads, NEW k1 \in Kinds, NEW k2 \in Kinds,
                        NEW a1 \in Nat, NEW a2 \in Nat, NEW b1 \in Nat, NEW b2 \in Nat,
                        Kept(p, k1, a1, b1)', Kept(p, k2, a2, b2)'
                 PROVE  k1 = k2 /\ a1 = a2 /\ b1 = b2
      BY DEF KeptOnce
    <3>1. /\ K(k1, a1) \in Kinds /\ A(k1, a1) \in Nat /\ B(k1, a1, b1) \in Nat
          /\ Kept(p, K(k1, a1), A(k1, a1), B(k1, a1, b1))
          /\ k1 = "outstanding" => b1 >= 1 /\ a1 = 0
          /\ k1 = "item" => b1 = 0
      BY <2>7
    <3>2. /\ K(k2, a2) \in Kinds /\ A(k2, a2) \in Nat /\ B(k2, a2, b2) \in Nat
          /\ Kept(p, K(k2, a2), A(k2, a2), B(k2, a2, b2))
          /\ k2 = "outstanding" => b2 >= 1 /\ a2 = 0
          /\ k2 = "item" => b2 = 0
      BY <2>7
    <3>3. K(k1, a1) = K(k2, a2) /\ A(k1, a1) = A(k2, a2) /\ B(k1, a1, b1) = B(k2, a2, b2)
      <4> HIDE DEF K, A, B
      <4> QED BY <3>1, <3>2 DEF PlacesInv, KeptOnce
    <3> QED BY <3>1, <3>2, <3>3
  <2>9. KeptWhere'
    <3> HIDE DEF K, A, B
    <3> QED BY <2>7 DEF PlacesInv, KeptWhere
  <2>10. SubmittedIsKept'
    <3> SUFFICES ASSUME NEW p \in Payloads, NEW k \in Submitted, NEW a \in Nat, NEW b \in Nat,
                        Kept(p, k, a, b)
                 PROVE  \E j \in Submitted : \E c, d \in Nat : Kept(p, j, c, d)'
      BY DEF PlacesInv, SubmittedIsKept
    <3>1. CASE k = "outstanding" /\ b = 1
      <4>1. Kept(p, "item", l, 0)' /\ l \in Nat /\ "item" \in Submitted
        BY <2>2, <3>1 DEF Kept, Submitted, Loops
      <4> QED BY <4>1
    <3>2. CASE k = "outstanding" /\ b # 1
      <4>1. b - 1 \in Nat /\ b - 1 >= 1 /\ (b - 1) + 1 = b
        BY <2>4, <3>2 DEF Kept
      <4>2. \A c \in Nat : c >= 1 /\ c + 1 = b => Kept(p, "outstanding", 0, c)'
        BY <2>3, <3>2 DEF Kept
      <4> QED BY <4>1, <4>2 DEF Submitted
    <3>3. CASE k = "item"
      <4>1. Kept(p, "item", a, b)'
        BY <2>2, <2>5, <3>3 DEF Kept
      <4> QED BY <4>1, <3>3
    <3>4. CASE k \in {"batch", "sent"}
      <4>1. Kept(p, k, a, b)'
        BY <2>6, <3>4 DEF Kept
      <4> QED BY <4>1
    <3> QED BY <3>1, <3>2, <3>3, <3>4 DEF Submitted
  <2> QED BY <2>8, <2>9, <2>10 DEF PlacesInv
<1> QED BY <1>1, <1>2, <1>3

\* BeginProcess and FinishBatch: every entry of the batch is reported.
LEMMA BeginProcessPlaces ==
  ASSUME Control, PlacesInv, NEW l \in Loops, BeginProcess(l)
  PROVE  PlacesInv'
<1>1. /\ AwaitOutstanding(l) /\ at[l] = "taskReady" /\ item[l] = NoEntry
      /\ UNCHANGED <<userVars, taskQueue, transactionsQueue, task, payload, batch, index,
                     recordVars, networkVars, numberingVars>>
  BY DEF BeginProcess, Control, LoopShape
<1>2. \A k \in Loops : at'[k] = "checking" <=> at[k] = "checking"
  <2>1. \A k \in Loops \ {l} : at'[k] = at[k]
    BY <1>1, AwaitFacts
  <2>2. at'[l] \in {"outPending", "outReady"}
    BY <1>1, AwaitFacts
  <2> QED BY <1>1, <2>1, <2>2
<1>3. \A p \in Payloads, k \in Loops, i \in Nat : InBatch(p, k, i)' <=> InBatch(p, k, i)
  BY <1>1, <1>2, SameBatches
<1> QED BY <1>1, <1>3, AwaitPlaces DEF userVars, recordVars, networkVars

LEMMA FinishBatchPlaces ==
  ASSUME Control, PlacesInv, NEW l \in Loops, FinishBatch(l)
  PROVE  PlacesInv'
<1>1. /\ AwaitOutstanding(l) /\ at[l] = "reporting" /\ item[l] = NoEntry /\ index[l] > Len(batch[l])
      /\ batch' = [batch EXCEPT ![l] = <<>>] /\ index' = [index EXCEPT ![l] = 0]
      /\ batch \in [Loops -> Seq(Entry)] /\ index \in [Loops -> Nat]
      /\ UNCHANGED <<userVars, taskQueue, transactionsQueue, task, payload, sentTransactions,
                     executedTransactions, networkVars, numberingVars>>
  BY DEF FinishBatch, Control, TypeOK, LoopShape
<1>2. ASSUME NEW p \in Payloads, NEW k \in Loops, NEW i \in Nat
      PROVE  InBatch(p, k, i)' <=> InBatch(p, k, i)
  <2>1. CASE k = l
    <3>1. DOMAIN batch'[l] = {}
      BY <1>1
    <3>2. DOMAIN batch[l] = 1 .. Len(batch[l]) /\ Len(batch[l]) \in Nat /\ index[l] \in Nat
      BY <1>1
    <3>3. Unreported(l) = index[l]
      BY <1>1 DEF Unreported
    <3> QED BY <1>1, <2>1, <3>1, <3>2, <3>3 DEF InBatch
  <2>2. CASE k # l
    <3>1. at'[k] = at[k]
      BY <1>1, <2>2, AwaitFacts
    <3> QED BY <1>1, <2>2, <3>1 DEF InBatch, Unreported
  <2> QED BY <2>1, <2>2
<1> QED BY <1>1, <1>2, AwaitPlaces DEF userVars, networkVars

\* TakeItem: the item is the last entry of the batch, the oldest entry of the
\* queue the next item.
LEMMA TakeItemPlaces ==
  ASSUME Control, PlacesInv, NEW l \in Loops, TakeItem(l)
  PROVE  PlacesInv'
<1> DEFINE q == outstandingTransactions
           Q == q.queue
           M == Len(batch[l]) + 1
<1>1. /\ at[l] = "outReady" /\ item[l] \in Entry /\ at'[l] \in {"settling", "outReady"}
      /\ \A k \in Loops \ {l} : at'[k] = at[k] /\ item'[k] = item[k] /\ batch'[k] = batch[k]
      /\ batch'[l] = Append(batch[l], item[l]) /\ batch[l] \in Seq(Entry)
      /\ UNCHANGED <<pushed, transactionsQueue, payload, index, sentTransactions, submission>>
      /\ index[l] = 0 /\ Q \in Seq(Entry)
  <2>1. /\ UNCHANGED <<pushed, transactionsQueue, payload, index, sentTransactions, submission>>
        /\ at[l] = "outReady"
    BY DEF TakeItem, userVars, recordVars, networkVars
  <2>2. index[l] = 0 /\ batch[l] \in Seq(Entry) /\ Q \in Seq(Entry)
    BY <2>1 DEF Control, TypeOK, LoopShape, QueueType
  <2> QED BY <2>1, <2>2, TakeItemFacts
<1>2. \/ Q = <<>> /\ q'.queue = Q /\ item'[l] = NoEntry
      \/ Q # <<>> /\ q'.queue = Tail(Q) /\ item'[l] = Q[1]
  <2>1. item \in [Loops -> Entry \cup {NoEntry}]
    BY DEF Control, TypeOK
  <2>2. isEmpty(q) => Q = <<>> /\ q'.queue = Q /\ item'[l] = NoEntry
    BY <2>1 DEF TakeItem, isEmpty
  <2>3. ~isEmpty(q) => at'[l] # "settling"
    <3>1. at \in [Loops -> Places]
      BY DEF Control, TypeOK
    <3> QED BY <3>1 DEF TakeItem, AwaitOutstanding, GoTo
  <2> QED BY <2>2, <2>3, TakeItemFacts
<1>3. /\ M \in Nat \ {0} /\ DOMAIN batch[l] = 1 .. (M - 1) /\ DOMAIN batch'[l] = 1 .. M
      /\ \A i \in 1 .. (M - 1) : batch'[l][i] = batch[l][i]
      /\ batch'[l][M] = item[l]
  BY <1>1, AppendFacts
<1> HIDE DEF M
<1>4. \A p \in Payloads, a, b \in Nat :
         InBatch(p, a, b)' <=> InBatch(p, a, b) \/ (a = l /\ b = M /\ InItem(p, l))
  <2> SUFFICES ASSUME NEW p \in Payloads, NEW a \in Nat, NEW b \in Nat
               PROVE  InBatch(p, a, b)' <=> InBatch(p, a, b) \/ (a = l /\ b = M /\ InItem(p, l))
    OBVIOUS
  <2>1. CASE a = l
    <3>1. Unreported(l) = 0 /\ Unreported(l)' = 0
      BY <1>1 DEF Unreported
    <3>2. InBatch(p, l, b) <=> b \in 1 .. (M - 1) /\ batch[l][b].txn = p
      BY <1>3, <3>1 DEF InBatch
    <3>3. InBatch(p, l, b)' <=> b \in 1 .. M /\ batch'[l][b].txn = p
      BY <1>3, <3>1 DEF InBatch
    <3>4. InItem(p, l) <=> item[l].txn = p
      BY DEF InItem
    <3> QED BY <1>3, <2>1, <3>2, <3>3, <3>4
  <2>2. CASE a # l
    BY <1>1, <2>2 DEF InBatch, Unreported
  <2> QED BY <2>1, <2>2
<1>5. \A p \in Payloads : ~InBatch(p, l, M)
  BY <1>3 DEF InBatch
<1>6. \A p \in Payloads, b \in Nat : InOutstanding(p, b) => b >= 1
  BY <1>1 DEF InOutstanding
<1>7. /\ \A p \in Payloads, k \in Nat :
            InItem(p, k)' <=> IF k = l THEN InOutstanding(p, 1) ELSE InItem(p, k)
      /\ \A p \in Payloads, b \in Nat : InOutstanding(p, b)' <=> b >= 1 /\ InOutstanding(p, b + 1)
  <2>1. CASE Q = <<>> /\ q'.queue = Q /\ item'[l] = NoEntry
    <3>1. \A p \in Payloads : p # 0
      BY DEF Payloads
    <3>2. \A p \in Payloads, b \in Nat : ~InOutstanding(p, b) /\ ~InOutstanding(p, b)'
      BY <2>1 DEF InOutstanding
    <3>3. \A p \in Payloads, k \in Nat :
             InItem(p, k)' <=> IF k = l THEN InOutstanding(p, 1) ELSE InItem(p, k)
      BY <1>1, <2>1, <3>1, <3>2 DEF InItem, NoEntry
    <3> QED BY <3>2, <3>3
  <2>2. CASE Q # <<>> /\ q'.queue = Tail(Q) /\ item'[l] = Q[1]
    <3>1. /\ DOMAIN Q = 1 .. Len(Q) /\ DOMAIN Tail(Q) = 1 .. (Len(Q) - 1) /\ Len(Q) \in Nat \ {0}
          /\ \A i \in 1 .. (Len(Q) - 1) : Tail(Q)[i] = Q[i + 1]
      BY <1>1, <2>2, TailFacts
    <3>2. \A p \in Payloads, k \in Nat :
             InItem(p, k)' <=> IF k = l THEN InOutstanding(p, 1) ELSE InItem(p, k)
      <4>1. \A p \in Payloads : InOutstanding(p, 1) <=> Q[1].txn = p
        BY <3>1 DEF InOutstanding
      <4> QED BY <1>1, <2>2, <4>1 DEF InItem
    <3> HIDE DEF Q
    <3>3. \A p \in Payloads, b \in Nat : InOutstanding(p, b)' <=> b \in DOMAIN Tail(Q) /\ Tail(Q)[b].txn = p
      BY <2>2 DEF InOutstanding
    <3>4. \A p \in Payloads, b \in Nat : InOutstanding(p, b) <=> b \in DOMAIN Q /\ Q[b].txn = p
      BY DEF InOutstanding, Q
    <3>5. \A b \in Nat : b \in DOMAIN Tail(Q) <=> b >= 1 /\ b + 1 \in DOMAIN Q
      BY <3>1
    <3>6. \A p \in Payloads, b \in Nat : InOutstanding(p, b)' <=> b >= 1 /\ InOutstanding(p, b + 1)
      BY <3>1, <3>3, <3>4, <3>5
    <3> QED BY <3>2, <3>6
  <2> QED BY <1>2, <2>1, <2>2
<1> HIDE DEF Q
<1>8. \A p \in Payloads, a, b \in Nat :
         /\ InQueue(p, b)' <=> InQueue(p, b)
         /\ InPayload(p, a)' <=> InPayload(p, a)
         /\ InSent(p, b)' <=> InSent(p, b)
  BY <1>1 DEF InQueue, InPayload, InSent
<1> DEFINE Last(k, a, b) == k = "batch" /\ a = l /\ b = M
           Mine(k, a) == k = "item" /\ a = l
           K(k, a, b) == IF Last(k, a, b) THEN "item" ELSE IF Mine(k, a) THEN "outstanding" ELSE k
           A(k, a, b) == IF Mine(k, a) THEN 0 ELSE a
           B(k, a, b) == IF Last(k, a, b) THEN 0 ELSE IF Mine(k, a) THEN 1
                         ELSE IF k = "outstanding" THEN b + 1 ELSE b
<1>9. l \in Nat
  BY DEF Loops
<1>10. ASSUME NEW p \in Payloads, NEW k \in Kinds, NEW a \in Nat, NEW b \in Nat, Kept(p, k, a, b)'
       PROVE  /\ K(k, a, b) \in Kinds /\ A(k, a, b) \in Nat /\ B(k, a, b) \in Nat
              /\ Kept(p, K(k, a, b), A(k, a, b), B(k, a, b))
              /\ k = "outstanding" => b >= 1 /\ a = 0
              /\ k = "item" => b = 0
              /\ K(k, a, b) \in Submitted <=> k \in Submitted
  <2>1. CASE k = "item"
    BY <1>7, <1>9, <1>10, <2>1 DEF Kept, Kinds, Submitted
  <2>2. CASE k = "outstanding"
    BY <1>7, <1>10, <2>2 DEF Kept, Kinds, Submitted
  <2>3. CASE k = "batch" /\ Last(k, a, b) /\ InItem(p, l)
    <3>1. K(k, a, b) = "item" /\ A(k, a, b) = l /\ B(k, a, b) = 0
      BY <2>3
    <3>2. Kept(p, "item", l, 0)
      BY <2>3 DEF Kept
    <3> QED BY <1>9, <2>3, <3>1, <3>2 DEF Kinds, Submitted
  <2>3a. CASE k = "batch" /\ ~Last(k, a, b) /\ InBatch(p, a, b)
    <3>1. K(k, a, b) = k /\ A(k, a, b) = a /\ B(k, a, b) = b
      BY <2>3a
    <3>2. Kept(p, k, a, b)
      BY <2>3a DEF Kept
    <3> QED BY <2>3a, <3>1, <3>2
  <2>3b. k = "batch" => (Last(k, a, b) /\ InItem(p, l)) \/ (~Last(k, a, b) /\ InBatch(p, a, b))
    <3>1. k = "batch" => InBatch(p, a, b)'
      BY <1>10 DEF Kept
    <3> QED BY <1>4, <1>5, <3>1
  <2>4. CASE k \notin {"item", "outstanding", "batch"}
    BY <1>8, <1>10, <2>4 DEF Kept
  <2> QED BY <2>1, <2>2, <2>3, <2>3a, <2>3b, <2>4
<1>11. KeptOnce'
  <2> SUFFICES ASSUME NEW p \in Payloads, NEW k1 \in Kinds, NEW k2 \in Kinds,
                      NEW a1 \in Nat, NEW a2 \in Nat, NEW b1 \in Nat, NEW b2 \in Nat,
                      Kept(p, k1, a1, b1)', Kept(p, k2, a2, b2)'
               PROVE  k1 = k2 /\ a1 = a2 /\ b1 = b2
    BY DEF KeptOnce
  <2>1. /\ K(k1, a1, b1) \in Kinds /\ A(k1, a1, b1) \in Nat /\ B(k1, a1, b1) \in Nat
        /\ Kept(p, K(k1, a1, b1), A(k1, a1, b1), B(k1, a1, b1))
        /\ k1 = "outstanding" => b1 >= 1 /\ a1 = 0
        /\ k1 = "item" => b1 = 0
    BY <1>10
  <2>2. /\ K(k2, a2, b2) \in Kinds /\ A(k2, a2, b2) \in Nat /\ B(k2, a2, b2) \in Nat
        /\ Kept(p, K(k2, a2, b2), A(k2, a2, b2), B(k2, a2, b2))
        /\ k2 = "outstanding" => b2 >= 1 /\ a2 = 0
        /\ k2 = "item" => b2 = 0
    BY <1>10
  <2>3. /\ K(k1, a1, b1) = K(k2, a2, b2) /\ A(k1, a1, b1) = A(k2, a2, b2)
        /\ B(k1, a1, b1) = B(k2, a2, b2)
    <3> HIDE DEF K, A, B
    <3> QED BY <2>1, <2>2 DEF PlacesInv, KeptOnce
  <2> QED BY <2>1, <2>2, <2>3
<1>12. KeptWhere'
  <2> HIDE DEF K, A, B
  <2> QED BY <1>1, <1>10 DEF PlacesInv, KeptWhere
<1>13. SubmittedIsKept'
  <2> SUFFICES ASSUME NEW p \in Payloads, NEW k \in Submitted, NEW a \in Nat, NEW b \in Nat,
                      Kept(p, k, a, b)
               PROVE  \E j \in Submitted : \E c, d \in Nat : Kept(p, j, c, d)'
    BY <1>1 DEF PlacesInv, SubmittedIsKept
  <2>1. CASE k = "outstanding" /\ b = 1
    <3>1. Kept(p, "item", l, 0)' /\ "item" \in Submitted
      BY <1>7, <1>9, <2>1 DEF Kept, Submitted
    <3> QED BY <1>9, <3>1
  <2>2. CASE k = "outstanding" /\ b # 1
    <3>1. b - 1 \in Nat /\ b - 1 >= 1 /\ (b - 1) + 1 = b
      BY <1>6, <2>2 DEF Kept
    <3>2. \A c \in Nat : c >= 1 /\ c + 1 = b => Kept(p, "outstanding", 0, c)'
      BY <1>7, <2>2 DEF Kept
    <3> QED BY <3>1, <3>2 DEF Submitted
  <2>3. CASE k = "item" /\ a # l
    <3>1. Kept(p, "item", a, b)'
      BY <1>7, <2>3 DEF Kept
    <3> QED BY <3>1, <2>3
  <2>4. CASE k = "item" /\ a = l
    <3>1. \A c \in Nat : c = M => Kept(p, "batch", l, c)'
      BY <1>4, <1>9, <2>4 DEF Kept
    <3> QED BY <1>3, <1>9, <3>1 DEF Submitted
  <2>5. CASE k \in {"batch", "sent"}
    <3>1. Kept(p, k, a, b)'
      BY <1>4, <1>8, <2>5 DEF Kept
    <3> QED BY <3>1
  <2> QED BY <2>1, <2>2, <2>3, <2>4, <2>5 DEF Submitted
<1> QED BY <1>11, <1>12, <1>13 DEF PlacesInv

\* ReportSent and ReportSendFailed: the entry at `index` is recorded.
LEMMA RecordPlaces ==
  ASSUME Control, PlacesInv, NEW l \in Loops, NEW ok \in BOOLEAN, at[l] = "reporting", index[l] <= Len(batch[l]),
         sentTransactions' = Append(sentTransactions, RecordOf(Current(l), ok)),
         UNCHANGED <<pushed, queueVars, payload, item, batch, submission>>,
         Unreported(l)' = index[l] + 1,
         \A k \in Loops \ {l} : at'[k] = at[k] /\ index'[k] = index[k]
  PROVE  PlacesInv'
<1> DEFINE n == Current(l).txn
           i == index[l]
           S == sentTransactions
           M == Len(S) + 1
           r == RecordOf(Current(l), ok)
<1>1. /\ i \in DOMAIN batch[l] /\ i \in Nat /\ n \in Payloads /\ r \in Record /\ r.txn = n
      /\ S \in Seq(Record) /\ batch[l][i].txn = n /\ l \in Nat
      /\ DOMAIN batch[l] \subseteq Nat
  <2>1. S \in Seq(Record) /\ batch[l] \in Seq(Entry)
    BY DEF Control, TypeOK
  <2> QED BY <2>1, CurrentFacts DEF Current, RecordOf, Loops
<1> HIDE DEF r
<1>2. /\ M \in Nat \ {0} /\ DOMAIN S = 1 .. (M - 1) /\ DOMAIN Append(S, r) = 1 .. M
      /\ \A j \in 1 .. (M - 1) : Append(S, r)[j] = S[j]
      /\ Append(S, r)[M] = r
  BY <1>1, AppendFacts
<1> HIDE DEF M, n
<1>3. \A p \in Payloads, b \in Nat : InSent(p, b)' <=> InSent(p, b) \/ (b = M /\ p = n)
  <2>1. sentTransactions' = Append(S, r)
    BY DEF r
  <2>2. \A p \in Payloads, b \in Nat : InSent(p, b)' <=> b \in 1 .. M /\ Append(S, r)[b].txn = p
    <3> HIDE DEF S
    <3> QED BY <1>2, <2>1 DEF InSent
  <2>3. \A p \in Payloads, b \in Nat : InSent(p, b) <=> b \in 1 .. (M - 1) /\ S[b].txn = p
    BY <1>2 DEF InSent
  <2> HIDE DEF S
  <2> QED BY <1>1, <1>2, <2>2, <2>3
<1> HIDE DEF S
<1>4. InBatch(n, l, i)
  BY <1>1 DEF InBatch, Unreported
<1>5. \A p \in Payloads, a, b \in Nat :
         InBatch(p, a, b)' <=> InBatch(p, a, b) /\ ~(a = l /\ b = i)
  <2> SUFFICES ASSUME NEW p \in Payloads, NEW a \in Nat, NEW b \in Nat
               PROVE  InBatch(p, a, b)' <=> InBatch(p, a, b) /\ ~(a = l /\ b = i)
    OBVIOUS
  <2>1. CASE a = l
    <3>1. InBatch(p, l, b) <=> b \in DOMAIN batch[l] /\ b >= i /\ batch[l][b].txn = p
      BY DEF InBatch, Unreported
    <3>2. InBatch(p, l, b)' <=> b \in DOMAIN batch[l] /\ b >= i + 1 /\ batch[l][b].txn = p
      BY DEF InBatch
    <3> QED BY <1>1, <2>1, <3>1, <3>2
  <2>2. CASE a # l
    BY <2>2 DEF InBatch, Unreported
  <2> QED BY <2>1, <2>2
<1>6. \A p \in Payloads, a, b \in Nat :
         /\ InQueue(p, b)' <=> InQueue(p, b)
         /\ InPayload(p, a)' <=> InPayload(p, a)
         /\ InOutstanding(p, b)' <=> InOutstanding(p, b)
         /\ InItem(p, a)' <=> InItem(p, a)
  BY DEF InQueue, InPayload, InOutstanding, InItem, queueVars
<1>7. ASSUME NEW p \in Payloads, NEW k \in Kinds, NEW a \in Nat, NEW b \in Nat
      PROVE  Kept(p, k, a, b)' <=> \/ Kept(p, k, a, b) /\ ~(k = "batch" /\ a = l /\ b = i)
                                   \/ p = n /\ k = "sent" /\ a = 0 /\ b = M
  BY <1>3, <1>5, <1>6 DEF Kept
<1>8. Kept(n, "batch", l, i) /\ "batch" \in Kinds /\ "batch" \in Submitted /\ "sent" \in Submitted
  BY <1>4 DEF Kept, Kinds, Submitted
<1> HIDE DEF i
<1>9. ASSUME NEW k \in Kinds, NEW a \in Nat, NEW b \in Nat, Kept(n, k, a, b)
      PROVE  k = "batch" /\ a = l /\ b = i
  BY <1>1, <1>8, <1>9 DEF PlacesInv, KeptOnce
<1>10. KeptOnce'
  BY <1>7, <1>9 DEF PlacesInv, KeptOnce
<1>11. KeptWhere'
  <2>1. n <= pushed /\ submission[n] # "none"
    BY <1>1, <1>8 DEF PlacesInv, KeptWhere
  <2> QED BY <1>7, <1>8, <2>1 DEF PlacesInv, KeptWhere
<1>12. SubmittedIsKept'
  <2> SUFFICES ASSUME NEW p \in Payloads, submission[p] # "none"
               PROVE  \E k \in Submitted : \E a, b \in Nat : Kept(p, k, a, b)'
    BY DEF SubmittedIsKept
  <2>1. CASE p = n
    <3>1. \A b \in Nat : b = M => Kept(p, "sent", 0, b)'
      BY <1>7, <2>1 DEF Kinds
    <3> QED BY <1>2, <1>8, <3>1
  <2>2. CASE p # n
    <3>1. PICK k \in Submitted, a \in Nat, b \in Nat : Kept(p, k, a, b)
      BY DEF PlacesInv, SubmittedIsKept
    <3>2. k \in Kinds
      BY DEF Submitted, Kinds
    <3>3. ~(k = "batch" /\ a = l /\ b = i)
      <4>1. \A c \in Nat : c = i => batch[l][c].txn = n
        BY <1>1 DEF i
      <4> QED BY <2>2, <3>1, <4>1 DEF Kept, InBatch
    <3> QED BY <1>7, <3>1, <3>2, <3>3
  <2> QED BY <2>1, <2>2
<1> QED BY <1>10, <1>11, <1>12 DEF PlacesInv

LEMMA ReportSentPlaces ==
  ASSUME Control, PlacesInv, NEW l \in Loops, ReportSent(l)
  PROVE  PlacesInv'
<1>1. /\ at[l] = "reporting" /\ index[l] <= Len(batch[l])
      /\ sentTransactions' = Append(sentTransactions, RecordOf(Current(l), TRUE))
      /\ at' = [at EXCEPT ![l] = "checking"] /\ at \in [Loops -> Places]
      /\ UNCHANGED <<pushed, queueVars, payload, item, batch, index, submission>>
  BY DEF ReportSent, GoTo, userVars, networkVars, Control, TypeOK
<1>2. Unreported(l)' = index[l] + 1 /\ \A k \in Loops \ {l} : at'[k] = at[k] /\ index'[k] = index[k]
  BY <1>1 DEF Unreported
<1> QED BY <1>1, <1>2, RecordPlaces

LEMMA ReportSendFailedPlaces ==
  ASSUME Control, PlacesInv, NEW l \in Loops, ReportSendFailed(l)
  PROVE  PlacesInv'
<1>1. /\ at[l] = "reporting" /\ index[l] <= Len(batch[l])
      /\ sentTransactions' = Append(sentTransactions, RecordOf(Current(l), FALSE))
      /\ index' = [index EXCEPT ![l] = index[l] + 1] /\ index \in [Loops -> Nat]
      /\ UNCHANGED <<pushed, queueVars, at, payload, item, batch, submission>>
  BY DEF ReportSendFailed, userVars, networkVars, Control, TypeOK
<1>2. Unreported(l)' = index[l] + 1 /\ \A k \in Loops \ {l} : at'[k] = at[k] /\ index'[k] = index[k]
  BY <1>1 DEF Unreported
<1> QED BY <1>1, <1>2, RecordPlaces

\* BatchSettled and Checked: the index passes no entry that is not reported.
LEMMA IndexPlaces ==
  ASSUME Control, PlacesInv, NEW l \in Loops,
         BatchSettled(l) \/ \E ok \in BOOLEAN : Checked(l, ok)
  PROVE  PlacesInv'
<1>1. /\ UNCHANGED <<queueVars, payload, item, batch, sentTransactions, pushed, submission>>
      /\ at \in [Loops -> Places] /\ index \in [Loops -> Nat] /\ batch[l] \in Seq(Entry)
      /\ at' = [at EXCEPT ![l] = "reporting"]
  BY DEF BatchSettled, Checked, GoTo, userVars, recordVars, networkVars, Control, TypeOK
<1>2. \/ at[l] = "settling" /\ index[l] = 0 /\ index' = [index EXCEPT ![l] = 1]
      \/ at[l] = "checking" /\ index' = [index EXCEPT ![l] = index[l] + 1]
  BY DEF BatchSettled, Checked, Control, LoopShape
<1>3. \A k \in Loops \ {l} : at'[k] = at[k] /\ index'[k] = index[k]
  BY <1>1, <1>2
<1>4. \/ Unreported(l) = 0 /\ Unreported(l)' = 1
      \/ Unreported(l)' = Unreported(l)
  BY <1>1, <1>2 DEF Unreported
<1>5. \A i \in DOMAIN batch[l] : i >= 1 /\ i >= 0
  BY <1>1
<1>6. ASSUME NEW p \in Payloads, NEW k \in Loops, NEW i \in Nat
      PROVE  InBatch(p, k, i)' <=> InBatch(p, k, i)
  <2>1. CASE k = l
    BY <1>1, <1>4, <1>5, <2>1 DEF InBatch
  <2>2. CASE k # l
    BY <1>1, <1>3, <2>2 DEF InBatch, Unreported
  <2> QED BY <2>1, <2>2
<1> QED BY <1>1, <1>6, SamePlaces DEF queueVars

\* The other steps: no payload moves, and no check begins or ends.
LEMMA QuietPlaces ==
  ASSUME PlacesInv,
         UNCHANGED <<transactionsQueue, outstandingTransactions, payload, item, batch, index,
                     sentTransactions, pushed>>,
         \A l \in Loops : at'[l] = "checking" <=> at[l] = "checking",
         \A p \in Payloads : submission'[p] # "none" <=> submission[p] # "none"
  PROVE  PlacesInv'
<1>1. \A p \in Payloads, l \in Loops, i \in Nat : InBatch(p, l, i)' <=> InBatch(p, l, i)
  BY SameBatches
<1> QED BY <1>1, SamePlaces

LEMMA PlacesStep ==
  ASSUME Control, PlacesInv, [Next]_vars
  PROVE  PlacesInv'
<1>0. /\ at \in [Loops -> Places]
      /\ submission \in [Payloads -> {"none", "posting", "admitted", "accepted", "rejected"}]
  BY DEF Control, TypeOK
<1>1. CASE push
  BY <1>1, PushPlaces
<1>2. CASE start
  <2>1. PICK l \in Loops : startLoop(l)
    BY <1>2 DEF start
  <2>2. LoopShape(l) /\ l = starts + 1 /\ starts \in Nat
    BY <2>1 DEF Control, startLoop, TypeOK
  <2>3. at[l] = "none"
    BY <2>2 DEF LoopShape
  <2>4. \A k \in Loops : at'[k] = "checking" <=> at[k] = "checking"
    <3>1. /\ at'[l] \in {"taskPending", "taskReady"}
          /\ \A k \in Loops \ {l} : at'[k] = at[k] \/ (at[k] = "taskPending" /\ at'[k] = "taskReady")
      BY <2>1, StartFacts
    <3> QED BY <2>3, <3>1
  <2> QED BY <1>2, <2>4, QuietPlaces DEF start, recordVars, networkVars
<1>3. CASE stop
  <2>1. \A k \in Loops : at'[k] = "checking" <=> at[k] = "checking"
    BY <1>3, StopFacts
  <2> QED BY <1>3, <2>1, QuietPlaces DEF stop, recordVars, networkVars
<1>4. ASSUME NEW l \in Loops, NextTask(l) \/ AskNumber(l) \/ NoPayload(l)
      PROVE  PlacesInv'
  <2>1. \A k \in Loops : at'[k] = "checking" <=> at[k] = "checking"
    BY <1>0, <1>4 DEF NextTask, AskNumber, NoPayload, GoTo
  <2> QED BY <1>4, <2>1, QuietPlaces
          DEF NextTask, AskNumber, NoPayload, userVars, queueVars, recordVars, networkVars
<1>5. ASSUME NEW l \in Loops, Loop(l)
      PROVE  PlacesInv'
  <2>1. CASE Submitting(l)
    <3>1. CASE Numbering(l)
      BY <3>1, QuietPlaces DEF Numbering, workerVars, userVars, queueVars, loopVars, recordVars, networkVars
    <3> QED BY <1>4, <2>1, <3>1, TakePayloadPlaces, SubmitPlaces, GenerateFailedPlaces DEF Submitting
  <2>2. CASE Processing(l)
    BY <2>2, BeginProcessPlaces, TakeItemPlaces, IndexPlaces, ReportSentPlaces,
       ReportSendFailedPlaces, FinishBatchPlaces DEF Processing
  <2> QED BY <1>4, <1>5, <2>1, <2>2 DEF Loop
<1>6. ASSUME NEW p \in Payloads, Respond(p) \/ Chain(p)
      PROVE  PlacesInv'
  <2>1. UNCHANGED networkFrame
    BY <1>6 DEF Respond, Admit, Accepted, Rejected, Chain, Expire, Commit
  <2>2. \A r \in Payloads : submission'[r] # "none" <=> submission[r] # "none"
    <3>1. CASE Admit(p)
      BY <1>0, <3>1 DEF Admit
    <3>2. CASE Accepted(p)
      BY <1>0, <3>2 DEF Accepted
    <3>3. CASE Rejected(p)
      BY <1>0, <3>3 DEF Rejected
    <3>4. CASE Chain(p)
      BY <3>4 DEF Chain, Expire, Commit
    <3> QED BY <1>6, <3>1, <3>2, <3>3, <3>4 DEF Respond
  <2> QED BY <2>1, <2>2, QuietPlaces DEF networkFrame, userVars, queueVars, loopVars, recordVars
<1>7. CASE NumberNetwork \/ UNCHANGED vars
  <2>1. UNCHANGED workerVars
    BY <1>7 DEF NumberNetwork, vars
  <2> QED BY <2>1, QuietPlaces DEF workerVars, userVars, queueVars, loopVars, recordVars, networkVars
<1> QED BY <1>1, <1>2, <1>3, <1>5, <1>6, <1>7 DEF Next, User

LEMMA PlacesInit == Init => PlacesInv
<1> SUFFICES ASSUME Init PROVE PlacesInv
  OBVIOUS
<1>1. \A p \in Payloads : \A a, b \in Nat :
         ~InQueue(p, b) /\ ~InPayload(p, a) /\ ~InOutstanding(p, b) /\ ~InItem(p, a)
         /\ ~InBatch(p, a, b) /\ ~InSent(p, b)
  BY DEF Init, NewQueue, NoEntry, InQueue, InPayload, InOutstanding, InItem, InBatch, InSent, Payloads
<1>2. \A p \in Payloads, k \in Kinds, a, b \in Nat : ~Kept(p, k, a, b)
  BY <1>1 DEF Kept
<1>3. \A p \in Payloads : submission[p] = "none"
  BY DEF Init
<1> QED BY <1>2, <1>3 DEF PlacesInv, KeptOnce, KeptWhere, SubmittedIsKept

\* The places layer holds in every reachable state.
THEOREM PlacesHold == Spec => []PlacesInv
  BY PlacesInit, PlacesStep, ControlHolds, PTL DEF Spec

\* The set the run counts has an element for every place of the payload.
LEMMA WhereaboutsAreKept ==
  ASSUME Control, NEW p \in Payloads
  PROVE  /\ \A x \in Whereabouts(p) : \E k \in Kinds : \E a, b \in Nat :
               /\ Kept(p, k, a, b)
               /\ x = IF k = "batch" THEN <<k, a, b>> ELSE <<k, a + b>>
         /\ \A k \in Kinds : \A a, b \in Nat : Kept(p, k, a, b) =>
               (IF k = "batch" THEN <<k, a, b>> ELSE <<k, a + b>>) \in Whereabouts(p)
<1>1. /\ DOMAIN transactionsQueue.queue \subseteq Nat
      /\ DOMAIN outstandingTransactions.queue \subseteq Nat
      /\ DOMAIN sentTransactions \subseteq Nat
      /\ \A l \in Loops : DOMAIN batch[l] \subseteq Nat
      /\ Loops \subseteq Nat
  <2>1. /\ transactionsQueue.queue \in Seq(Payloads) /\ outstandingTransactions.queue \in Seq(Entry)
        /\ sentTransactions \in Seq(Record) /\ \A l \in Loops : batch[l] \in Seq(Entry)
    BY DEF Control, TypeOK, QueueType
  <2> QED BY <2>1 DEF Loops
<1> DEFINE Batch(l) == {<<"batch", l, i>> : i \in {k \in DOMAIN batch[l] :
                                                     batch[l][k].txn = p /\ k >= Unreported(l)}}
<1>b. \A x : x \in BatchPlaces(p) <=> \E l \in Loops : \E i \in DOMAIN batch[l] :
                                  batch[l][i].txn = p /\ i >= Unreported(l) /\ x = <<"batch", l, i>>
  <2>1. \A l \in Loops : \A x : x \in Batch(l) <=> \E i \in DOMAIN batch[l] :
                                  batch[l][i].txn = p /\ i >= Unreported(l) /\ x = <<"batch", l, i>>
    OBVIOUS
  <2> HIDE DEF Batch
  <2>2. \A x : x \in UNION {Batch(l) : l \in Loops} <=> \E l \in Loops : x \in Batch(l)
    OBVIOUS
  <2>3. BatchPlaces(p) = UNION {Batch(l) : l \in Loops}
    BY DEF BatchPlaces, Batch
  <2> QED BY <2>1, <2>2, <2>3
<1>c. \A x : x \in Whereabouts(p) <=>
         \/ \E i \in DOMAIN transactionsQueue.queue :
               transactionsQueue.queue[i] = p /\ x = <<"transactionsQueue", i>>
         \/ \E l \in Loops : payload[l] = p /\ x = <<"generating", l>>
         \/ \E i \in DOMAIN outstandingTransactions.queue :
               outstandingTransactions.queue[i].txn = p /\ x = <<"outstanding", i>>
         \/ \E l \in Loops : item[l].txn = p /\ x = <<"item", l>>
         \/ x \in BatchPlaces(p)
         \/ \E i \in DOMAIN sentTransactions :
               sentTransactions[i].txn = p /\ x = <<"sent", i>>
  BY DEF Whereabouts
<1>2. ASSUME NEW x \in Whereabouts(p)
      PROVE  \E k \in Kinds : \E a, b \in Nat :
                Kept(p, k, a, b) /\ x = IF k = "batch" THEN <<k, a, b>> ELSE <<k, a + b>>
  <2>1. CASE \E i \in DOMAIN transactionsQueue.queue :
                transactionsQueue.queue[i] = p /\ x = <<"transactionsQueue", i>>
    <3>1. PICK i \in DOMAIN transactionsQueue.queue :
                transactionsQueue.queue[i] = p /\ x = <<"transactionsQueue", i>>
      BY <2>1
    <3>2. i \in Nat /\ 0 \in Nat /\ 0 + i = i /\ Kept(p, "transactionsQueue", 0, i)
      BY <1>1, <3>1 DEF Kept, InQueue
    <3> QED BY <3>1, <3>2 DEF Kinds
  <2>2. CASE \E l \in Loops : payload[l] = p /\ x = <<"generating", l>>
    <3>1. PICK l \in Loops : payload[l] = p /\ x = <<"generating", l>>
      BY <2>2
    <3>2. l \in Nat /\ 0 \in Nat /\ l + 0 = l /\ Kept(p, "generating", l, 0)
      BY <1>1, <3>1 DEF Kept, InPayload
    <3> QED BY <3>1, <3>2 DEF Kinds
  <2>3. CASE \E i \in DOMAIN outstandingTransactions.queue :
                outstandingTransactions.queue[i].txn = p /\ x = <<"outstanding", i>>
    <3>1. PICK i \in DOMAIN outstandingTransactions.queue :
                outstandingTransactions.queue[i].txn = p /\ x = <<"outstanding", i>>
      BY <2>3
    <3>2. i \in Nat /\ 0 \in Nat /\ 0 + i = i /\ Kept(p, "outstanding", 0, i)
      BY <1>1, <3>1 DEF Kept, InOutstanding
    <3> QED BY <3>1, <3>2 DEF Kinds
  <2>4. CASE \E l \in Loops : item[l].txn = p /\ x = <<"item", l>>
    <3>1. PICK l \in Loops : item[l].txn = p /\ x = <<"item", l>>
      BY <2>4
    <3>2. l \in Nat /\ 0 \in Nat /\ l + 0 = l /\ Kept(p, "item", l, 0)
      BY <1>1, <3>1 DEF Kept, InItem
    <3> QED BY <3>1, <3>2 DEF Kinds
  <2>5. CASE \E l \in Loops : \E i \in DOMAIN batch[l] :
                batch[l][i].txn = p /\ i >= Unreported(l) /\ x = <<"batch", l, i>>
    <3>1. PICK l \in Loops : \E i \in DOMAIN batch[l] :
                batch[l][i].txn = p /\ i >= Unreported(l) /\ x = <<"batch", l, i>>
      BY <2>5
    <3>2. PICK i \in DOMAIN batch[l] :
                batch[l][i].txn = p /\ i >= Unreported(l) /\ x = <<"batch", l, i>>
      BY <3>1
    <3>3. l \in Nat /\ i \in Nat /\ Kept(p, "batch", l, i)
      BY <1>1, <3>2 DEF Kept, InBatch
    <3> QED BY <3>2, <3>3 DEF Kinds
  <2>6. CASE \E i \in DOMAIN sentTransactions :
                sentTransactions[i].txn = p /\ x = <<"sent", i>>
    <3>1. PICK i \in DOMAIN sentTransactions :
                sentTransactions[i].txn = p /\ x = <<"sent", i>>
      BY <2>6
    <3>2. i \in Nat /\ 0 \in Nat /\ 0 + i = i /\ Kept(p, "sent", 0, i)
      BY <1>1, <3>1 DEF Kept, InSent
    <3> QED BY <3>1, <3>2 DEF Kinds
  <2> QED BY <1>2, <1>b, <1>c, <2>1, <2>2, <2>3, <2>4, <2>5, <2>6
<1>3. ASSUME NEW k \in Kinds, NEW a \in Nat, NEW b \in Nat, Kept(p, k, a, b)
      PROVE  (IF k = "batch" THEN <<k, a, b>> ELSE <<k, a + b>>) \in Whereabouts(p)
  <2>0. 0 + b = b /\ a + 0 = a
    OBVIOUS
  <2>1. CASE k = "transactionsQueue"
    BY <1>3, <1>c, <2>0, <2>1 DEF Kept, InQueue
  <2>2. CASE k = "generating"
    BY <1>3, <1>c, <2>0, <2>2 DEF Kept, InPayload
  <2>3. CASE k = "outstanding"
    BY <1>3, <1>c, <2>0, <2>3 DEF Kept, InOutstanding
  <2>4. CASE k = "item"
    BY <1>3, <1>c, <2>0, <2>4 DEF Kept, InItem
  <2>5. CASE k = "batch"
    BY <1>3, <1>b, <1>c, <2>5 DEF Kept, InBatch
  <2>6. CASE k = "sent"
    BY <1>3, <1>c, <2>0, <2>6 DEF Kept, InSent
  <2> QED BY <2>1, <2>2, <2>3, <2>4, <2>5, <2>6 DEF Kinds
<1> QED BY <1>2, <1>3

\* No payload is ever in two of the places where the worker keeps payloads, and
\* one that was submitted is in one until it is recorded, whatever is stopped
\* and started and however many run loops there are.
THEOREM SubmittedIsNeverLostHolds == Spec => []SubmittedIsNeverLost
<1>1. ASSUME Control, PlacesInv PROVE SubmittedIsNeverLost
  <2> SUFFICES ASSUME NEW p \in Payloads
               PROVE  /\ Cardinality(Whereabouts(p)) <= 1
                      /\ submission[p] # "none" => Cardinality(Whereabouts(p)) = 1
    BY DEF SubmittedIsNeverLost
  <2>1. \A x, y \in Whereabouts(p) : x = y
    <3> SUFFICES ASSUME NEW x \in Whereabouts(p), NEW y \in Whereabouts(p) PROVE x = y
      OBVIOUS
    <3>1. PICK k1 \in Kinds, a1 \in Nat, b1 \in Nat :
             Kept(p, k1, a1, b1) /\ x = IF k1 = "batch" THEN <<k1, a1, b1>> ELSE <<k1, a1 + b1>>
      BY <1>1, WhereaboutsAreKept
    <3>2. PICK k2 \in Kinds, a2 \in Nat, b2 \in Nat :
             Kept(p, k2, a2, b2) /\ y = IF k2 = "batch" THEN <<k2, a2, b2>> ELSE <<k2, a2 + b2>>
      BY <1>1, WhereaboutsAreKept
    <3>3. k1 = k2 /\ a1 = a2 /\ b1 = b2
      BY <1>1, <3>1, <3>2 DEF PlacesInv, KeptOnce
    <3> QED BY <3>1, <3>2, <3>3
  <2>2. submission[p] # "none" => Whereabouts(p) # {}
    <3> SUFFICES ASSUME submission[p] # "none" PROVE Whereabouts(p) # {}
      OBVIOUS
    <3>1. PICK k \in Submitted, a \in Nat, b \in Nat : Kept(p, k, a, b)
      BY <1>1 DEF PlacesInv, SubmittedIsKept
    <3>2. k \in Kinds
      BY DEF Submitted, Kinds
    <3> QED BY <1>1, <3>1, <3>2, WhereaboutsAreKept
  <2>3. CASE Whereabouts(p) = {}
    BY <2>2, <2>3, FS_EmptySet
  <2>4. CASE Whereabouts(p) # {}
    <3>1. PICK x : x \in Whereabouts(p)
      BY <2>4
    <3>2. Whereabouts(p) = {x}
      BY <2>1, <3>1
    <3> QED BY <3>2, FS_Singleton
  <2> QED BY <2>3, <2>4
<1> QED BY <1>1, ControlHolds, PlacesHold, PTL

-----------------------------------------------------------------------------
(* The records layer is inductive. *)

\* A submitted payload keeps its number, a settled submission its outcome, and
\* a transaction is executed once.
LEMMA NetworkFacts ==
  ASSUME Control, PlacesInv, CommittedOnce, [Next]_vars
  PROVE  /\ CommittedOnce'
         /\ \A p \in Payloads :
               /\ submission[p] # "none" => submission'[p] # "none" /\ txnNumber'[p] = txnNumber[p]
               /\ submission[p] \in {"accepted", "rejected"} => submission'[p] = submission[p]
               /\ onChain[p] # "no" => onChain'[p] = onChain[p]
<1> DEFINE Goal ==
      /\ CommittedOnce'
      /\ \A p \in Payloads :
            /\ submission[p] # "none" => submission'[p] # "none" /\ txnNumber'[p] = txnNumber[p]
            /\ submission[p] \in {"accepted", "rejected"} => submission'[p] = submission[p]
            /\ onChain[p] # "no" => onChain'[p] = onChain[p]
<1> SUFFICES Goal
  OBVIOUS
<1>0. /\ submission \in [Payloads -> {"none", "posting", "admitted", "accepted", "rejected"}]
      /\ txnNumber \in [Payloads -> Nat \cup {Null}]
      /\ onChain \in [Payloads -> {"no", "success", "failure"}]
      /\ mempool \subseteq Payloads
  BY DEF Control, TypeOK
<1>1. CASE UNCHANGED networkVars
  BY <1>1 DEF networkVars, CommittedOnce
<1>2. ASSUME NEW l \in Loops, Submit(l)
      PROVE  Goal
  <2> DEFINE n == payload[l]
  <2>1. /\ n \in Payloads /\ l \in Nat
        /\ txnNumber' = [txnNumber EXCEPT ![n] = result[l]]
        /\ submission' = [submission EXCEPT ![n] = "posting"]
        /\ UNCHANGED <<mempool, onChain>>
    <3>1. n \in Payloads
      BY <1>2, SubmitFacts
    <3> QED BY <1>2, <3>1 DEF Submit, Loops
  <2>2. Kept(n, "generating", l, 0) /\ "generating" \in Kinds /\ "generating" \notin Submitted
    BY <1>2 DEF Kept, InPayload, Kinds, Submitted
  <2> HIDE DEF n
  <2>3. submission[n] = "none"
    BY <2>1, <2>2 DEF PlacesInv, KeptWhere
  <2>4. /\ submission'[n] = "posting"
        /\ \A p \in Payloads \ {n} : submission'[p] = submission[p] /\ txnNumber'[p] = txnNumber[p]
    BY <1>0, <2>1
  <2>5. CommittedOnce'
    BY <2>1, <2>3, <2>4 DEF CommittedOnce
  <2> QED BY <2>1, <2>3, <2>4, <2>5
<1>3. ASSUME NEW n \in Payloads, Admit(n) \/ Accepted(n) \/ Rejected(n)
      PROVE  Goal
  <2>1. /\ UNCHANGED <<txnNumber, onChain>>
        /\ \A p \in Payloads \ {n} : submission'[p] = submission[p]
        /\ submission[n] \in {"posting", "admitted"}
        /\ submission'[n] \in {"admitted", "accepted", "rejected"}
    <3>1. CASE Admit(n)
      BY <1>0, <3>1 DEF Admit
    <3>2. CASE Accepted(n)
      BY <1>0, <3>2 DEF Accepted
    <3>3. CASE Rejected(n)
      BY <1>0, <3>3 DEF Rejected
    <3> QED BY <1>3, <3>1, <3>2, <3>3
  <2>2. mempool' = mempool \/ (mempool' = mempool \cup {n} /\ submission[n] = "posting")
    BY <1>3 DEF Admit, Accepted, Rejected
  <2>3. submission[n] = "posting" => onChain[n] = "no"
    BY DEF CommittedOnce
  <2>4. CommittedOnce'
    BY <2>1, <2>2, <2>3 DEF CommittedOnce
  <2> QED BY <2>1, <2>4
<1>4. ASSUME NEW n \in Payloads, Chain(n)
      PROVE  Goal
  <2>1. /\ n \in mempool /\ mempool' = mempool \ {n}
        /\ UNCHANGED <<submission, txnNumber>>
        /\ \A p \in Payloads \ {n} : onChain'[p] = onChain[p]
    <3>1. CASE Expire(n)
      BY <3>1 DEF Expire
    <3>2. ASSUME NEW o \in {"success", "failure"}, Commit(n, o)
          PROVE  /\ n \in mempool /\ mempool' = mempool \ {n}
                 /\ UNCHANGED <<submission, txnNumber>>
                 /\ \A p \in Payloads \ {n} : onChain'[p] = onChain[p]
      BY <1>0, <3>2 DEF Commit
    <3> QED BY <1>4, <3>1, <3>2 DEF Chain
  <2>2. onChain[n] = "no" /\ submission[n] \notin {"none", "posting"}
    BY <2>1 DEF CommittedOnce
  <2>3. CommittedOnce'
    BY <2>1, <2>2 DEF CommittedOnce
  <2> QED BY <2>1, <2>2, <2>3
<1>5. ASSUME NEW l \in Loops, Loop(l)
      PROVE  Submit(l) \/ UNCHANGED networkVars
  <2>1. CASE NextTask(l)
    BY <2>1 DEF NextTask
  <2>2. CASE Submitting(l)
    BY <2>2 DEF Submitting, AskNumber, Numbering, TakePayload, NoPayload, GenerateFailed, workerVars
  <2>3. CASE Processing(l)
    BY <2>3 DEF Processing, BeginProcess, TakeItem, BatchSettled, ReportSent, ReportSendFailed,
                FinishBatch, Checked
  <2> QED BY <1>5, <2>1, <2>2, <2>3 DEF Loop
<1>6. CASE User
  BY <1>1, <1>6 DEF User, push, start, stop
<1>7. CASE NumberNetwork \/ UNCHANGED vars
  BY <1>1, <1>7 DEF NumberNetwork, vars, workerVars
<1> HIDE DEF Goal
<1>8. CASE \E l \in Loops : Loop(l)
  BY <1>1, <1>2, <1>5, <1>8
<1>9. CASE \E p \in Payloads : Respond(p) \/ Chain(p)
  BY <1>3, <1>4, <1>9 DEF Respond
<1> QED BY <1>6, <1>7, <1>8, <1>9 DEF Next

\* An entry comes into being when its transaction is submitted, and from then on
\* is only handed over.
LEMMA CarriedFacts ==
  ASSUME Control, NEW e \in Entry, Carried(e)', [Next]_vars
  PROVE  \/ Carried(e)
         \/ \E l \in Loops : Submit(l) /\ e = [txn |-> payload[l], number |-> result[l]]
<1> DEFINE q == outstandingTransactions
           Q == q.queue
<1>0. /\ Q \in Seq(Entry) /\ batch \in [Loops -> Seq(Entry)]
      /\ sentTransactions \in Seq(Record) /\ executedTransactions \in Seq(Record)
      /\ item \in [Loops -> Entry \cup {NoEntry}] /\ e # NoEntry
  BY EntryIsSome DEF Control, TypeOK, QueueType
<1>1. ASSUME UNCHANGED <<outstandingTransactions, item, batch, sentTransactions, executedTransactions>>
      PROVE  Carried(e)
  BY <1>1 DEF Carried
<1>t. ASSUME NEW i \in DOMAIN Tail(Q), Q # <<>>
      PROVE  i + 1 \in DOMAIN Q /\ Tail(Q)[i] = Q[i + 1]
  <2>1. /\ Len(Q) \in Nat \ {0} /\ DOMAIN Q = 1 .. Len(Q) /\ DOMAIN Tail(Q) = 1 .. (Len(Q) - 1)
        /\ \A j \in 1 .. (Len(Q) - 1) : Tail(Q)[j] = Q[j + 1]
    BY <1>0, <1>t, TailFacts
  <2> HIDE DEF Q
  <2> QED BY <1>t, <2>1
<1>h. Q # <<>> => 1 \in DOMAIN Q
  BY <1>0
<1>o. (\E i \in DOMAIN Q : Q[i] = e) => Carried(e)
  BY DEF Carried
<1>q. /\ Q # <<>> /\ (\E i \in DOMAIN Tail(Q) : Tail(Q)[i] = e) => Carried(e)
      /\ Q # <<>> /\ Q[1] = e => Carried(e)
  <2> HIDE DEF Q
  <2> QED BY <1>t, <1>h, <1>o
<1>2. ASSUME NEW l \in Loops, Submit(l)
      PROVE  Carried(e) \/ e = [txn |-> payload[l], number |-> result[l]]
  <2> DEFINE f == [txn |-> payload[l], number |-> result[l]]
             w == OldestWaiter(q)
  <2>1. UNCHANGED <<batch, sentTransactions, executedTransactions>>
    BY <1>2 DEF Submit, recordVars
  <2>2. \/ /\ q'.queue = Q /\ item'[w] = f /\ \A k \in Loops \ {w} : item'[k] = item[k]
        \/ q'.queue = Append(Q, f) /\ item' = item
    BY <1>2, SubmitFacts
  <2>3. f \in Entry
    BY <1>2, SubmitFacts
  <2> HIDE DEF f, w
  <2>4. \A i \in DOMAIN Append(Q, f) : Append(Q, f)[i] = f \/ (i \in DOMAIN Q /\ Append(Q, f)[i] = Q[i])
    <3>1. /\ Len(Q) \in Nat /\ DOMAIN Q = 1 .. Len(Q) /\ DOMAIN Append(Q, f) = 1 .. (Len(Q) + 1)
          /\ \A i \in 1 .. Len(Q) : Append(Q, f)[i] = Q[i]
          /\ Append(Q, f)[Len(Q) + 1] = f
      BY <1>0, <2>3, AppendFacts
    <3> HIDE DEF Q
    <3> QED BY <3>1
  <2>5. Carried(e) \/ e = f
    BY <2>1, <2>2, <2>4 DEF Carried
  <2> QED BY <2>5 DEF f
<1>3. ASSUME NEW l \in Loops, BeginProcess(l) \/ FinishBatch(l)
      PROVE  Carried(e)
  <2>1. /\ UNCHANGED <<sentTransactions, executedTransactions, taskQueue>>
        /\ \A k \in Loops : \A i \in DOMAIN batch'[k] : i \in DOMAIN batch[k] /\ batch'[k][i] = batch[k][i]
        /\ at[l] \notin {"taskPending", "outPending"} /\ AwaitOutstanding(l)
    <3>1. CASE BeginProcess(l)
      BY <3>1 DEF BeginProcess, recordVars
    <3>2. CASE FinishBatch(l)
      <4>1. batch' = [batch EXCEPT ![l] = <<>>] /\ DOMAIN <<>> = {}
        BY <3>2 DEF FinishBatch
      <4>2. \A k \in Loops : \A i \in DOMAIN batch'[k] : i \in DOMAIN batch[k] /\ batch'[k][i] = batch[k][i]
        BY <1>0, <4>1
      <4> QED BY <3>2, <4>2 DEF FinishBatch
    <3> QED BY <1>3, <3>1, <3>2
  <2>2. /\ \A k \in Loops \ {l} : item'[k] = item[k]
        /\ \/ q'.queue = Q /\ item' = item
           \/ Q # <<>> /\ q'.queue = Tail(Q) /\ item'[l] = Q[1]
    BY <2>1, AwaitFacts
  <2>3. (\E i \in DOMAIN q'.queue : q'.queue[i] = e) => Carried(e)
    <3> HIDE DEF Q
    <3> QED BY <1>o, <1>q, <2>2
  <2>4. (\E k \in Loops : item'[k] = e) => Carried(e)
    <3>1. (\E k \in Loops : item[k] = e) => Carried(e)
      BY DEF Carried
    <3> HIDE DEF Q
    <3> QED BY <1>q, <2>2, <3>1
  <2>5. (\E k \in Loops : \E i \in DOMAIN batch'[k] : batch'[k][i] = e) => Carried(e)
    BY <2>1 DEF Carried
  <2> QED BY <2>1, <2>3, <2>4, <2>5 DEF Carried
<1>4. ASSUME NEW l \in Loops, TakeItem(l)
      PROVE  Carried(e)
  <2>1. UNCHANGED <<sentTransactions, executedTransactions>>
    BY <1>4 DEF TakeItem, recordVars
  <2>2. /\ \A k \in Loops \ {l} : item'[k] = item[k] /\ batch'[k] = batch[k]
        /\ batch'[l] = Append(batch[l], item[l]) /\ item[l] \in Entry
        /\ \/ q' = q /\ item'[l] = NoEntry
           \/ Q # <<>> /\ q'.queue = Tail(Q) /\ item'[l] = Q[1]
    BY <1>4, TakeItemFacts
  <2>3. \A i \in DOMAIN batch'[l] : \/ batch'[l][i] = item[l]
                                    \/ i \in DOMAIN batch[l] /\ batch'[l][i] = batch[l][i]
    BY <1>0, <2>2, AppendFacts
  <2>4. (\E i \in DOMAIN q'.queue : q'.queue[i] = e) => Carried(e)
    <3>1. q' = q => q'.queue = Q
      BY DEF Q
    <3> HIDE DEF Q
    <3> QED BY <1>o, <1>q, <2>2, <3>1
  <2>5. (\E k \in Loops : item'[k] = e) => Carried(e)
    <3>1. (\E k \in Loops : item[k] = e) => Carried(e)
      BY DEF Carried
    <3> HIDE DEF Q
    <3> QED BY <1>0, <1>q, <2>2, <3>1
  <2>6. (\E k \in Loops : \E i \in DOMAIN batch'[k] : batch'[k][i] = e) => Carried(e)
    BY <2>2, <2>3 DEF Carried
  <2> QED BY <2>1, <2>4, <2>5, <2>6 DEF Carried
<1>5. ASSUME NEW l \in Loops, NEW ok \in BOOLEAN, NEW s \in Seq(Record), NEW t,
             \/ at[l] = "reporting" /\ index[l] <= Len(batch[l])
             \/ at[l] = "checking",
             t = Append(s, RecordOf(Current(l), ok)),
             NEW i \in DOMAIN t, t[i].txn = e.txn, t[i].number = e.number
      PROVE  (\E k \in Loops : \E j \in DOMAIN batch[k] : batch[k][j] = e)
             \/ \E j \in DOMAIN s : s[j].txn = e.txn /\ s[j].number = e.number
  <2>1. RecordOf(Current(l), ok) \in Record /\ index[l] \in DOMAIN batch[l] /\ Current(l) \in Entry
    BY <1>5, CurrentFacts
  <2>2. CASE i \in DOMAIN s
    BY <1>5, <2>1, <2>2, AppendFacts
  <2>3. CASE i \notin DOMAIN s
    <3>1. t[i] = RecordOf(Current(l), ok)
      BY <1>5, <2>1, <2>3, AppendFacts
    <3>2. Current(l) = e
      BY <1>5, <2>1, <3>1 DEF RecordOf, Entry
    <3> QED BY <2>1, <3>2 DEF Current
  <2> QED BY <2>2, <2>3
<1>6. ASSUME NEW l \in Loops, NEW ok \in BOOLEAN, Checked(l, ok)
      PROVE  Carried(e)
  <2>1. /\ executedTransactions' = Append(executedTransactions, RecordOf(Current(l), ok))
        /\ at[l] = "checking"
        /\ UNCHANGED <<outstandingTransactions, item, batch, sentTransactions>>
    BY <1>6 DEF Checked, queueVars
  <2>2. \A i \in DOMAIN executedTransactions' :
           executedTransactions'[i].txn = e.txn /\ executedTransactions'[i].number = e.number => Carried(e)
    BY <1>0, <1>5, <2>1 DEF Carried
  <2> QED BY <2>1, <2>2 DEF Carried
<1>7. ASSUME NEW l \in Loops, ReportSent(l) \/ ReportSendFailed(l)
      PROVE  Carried(e)
  <2>1. PICK ok \in BOOLEAN : sentTransactions' = Append(sentTransactions, RecordOf(Current(l), ok))
    BY <1>7 DEF ReportSent, ReportSendFailed
  <2>2. /\ at[l] = "reporting" /\ index[l] <= Len(batch[l])
        /\ UNCHANGED <<outstandingTransactions, item, batch, executedTransactions>>
    BY <1>7 DEF ReportSent, ReportSendFailed, queueVars
  <2>3. \A i \in DOMAIN sentTransactions' :
           sentTransactions'[i].txn = e.txn /\ sentTransactions'[i].number = e.number => Carried(e)
    BY <1>0, <1>5, <2>1, <2>2 DEF Carried
  <2> QED BY <2>2, <2>3 DEF Carried
<1>8. ASSUME NEW l \in Loops, Loop(l)
      PROVE  \/ Submit(l) \/ BeginProcess(l) \/ FinishBatch(l) \/ TakeItem(l)
             \/ ReportSent(l) \/ ReportSendFailed(l) \/ \E ok \in BOOLEAN : Checked(l, ok)
             \/ UNCHANGED <<outstandingTransactions, item, batch, sentTransactions, executedTransactions>>
  <2>1. CASE NextTask(l)
    BY <2>1 DEF NextTask, recordVars
  <2>2. CASE Submitting(l)
    BY <2>2 DEF Submitting, AskNumber, Numbering, TakePayload, NoPayload, GenerateFailed, workerVars,
                queueVars, loopVars, recordVars
  <2>3. CASE BatchSettled(l)
    BY <2>3 DEF BatchSettled, queueVars, recordVars
  <2> QED BY <1>8, <2>1, <2>2, <2>3 DEF Loop, Processing
<1>9. CASE User
  <2>1. UNCHANGED <<outstandingTransactions, item, batch, sentTransactions, executedTransactions>>
    BY <1>9 DEF User, push, start, stop, loopVars, recordVars
  <2> QED BY <1>1, <2>1
<1>10. ASSUME NEW p \in Payloads, Respond(p) \/ Chain(p)
       PROVE  Carried(e)
  <2>1. UNCHANGED networkFrame
    BY <1>10 DEF Respond, Admit, Accepted, Rejected, Chain, Expire, Commit
  <2>2. UNCHANGED <<outstandingTransactions, item, batch, sentTransactions, executedTransactions>>
    BY <2>1 DEF networkFrame, queueVars, loopVars, recordVars
  <2> QED BY <1>1, <2>2
<1>11. CASE NumberNetwork \/ UNCHANGED vars
  <2>1. UNCHANGED <<outstandingTransactions, item, batch, sentTransactions, executedTransactions>>
    BY <1>11 DEF NumberNetwork, vars, workerVars, queueVars, loopVars, recordVars
  <2> QED BY <1>1, <2>1
<1> QED BY <1>1, <1>2, <1>3, <1>4, <1>6, <1>7, <1>8, <1>9, <1>10, <1>11 DEF Next

\* What is added to the records, by which step.
LEMMA StepOfRecords ==
  ASSUME [Next]_vars
  PROVE  /\ \/ sentTransactions' = sentTransactions
            \/ \E l \in Loops : \E ok \in BOOLEAN :
                  /\ at[l] = "reporting" /\ index[l] <= Len(batch[l])
                  /\ submission[Current(l).txn] = IF ok THEN "accepted" ELSE "rejected"
                  /\ sentTransactions' = Append(sentTransactions, RecordOf(Current(l), ok))
         /\ \/ executedTransactions' = executedTransactions
            \/ \E l \in Loops : \E ok \in BOOLEAN :
                  /\ at[l] = "checking" /\ (ok => onChain[Current(l).txn] = "success")
                  /\ executedTransactions' = Append(executedTransactions, RecordOf(Current(l), ok))
<1>1. ASSUME NEW l \in Loops, Loop(l)
      PROVE  \/ ReportSent(l) \/ ReportSendFailed(l) \/ \E ok \in BOOLEAN : Checked(l, ok)
             \/ UNCHANGED <<sentTransactions, executedTransactions>>
  <2>1. CASE NextTask(l)
    BY <2>1 DEF NextTask, recordVars
  <2>2. CASE Submitting(l)
    BY <2>2 DEF Submitting, AskNumber, Numbering, TakePayload, NoPayload, Submit, GenerateFailed,
                workerVars, recordVars
  <2>3. CASE BeginProcess(l) \/ TakeItem(l) \/ BatchSettled(l) \/ FinishBatch(l)
    BY <2>3 DEF BeginProcess, TakeItem, BatchSettled, FinishBatch, recordVars
  <2> QED BY <1>1, <2>1, <2>2, <2>3 DEF Loop, Processing
<1>2. ASSUME NEW l \in Loops, ReportSent(l)
      PROVE  /\ executedTransactions' = executedTransactions
             /\ at[l] = "reporting" /\ index[l] <= Len(batch[l])
             /\ submission[Current(l).txn] = "accepted"
             /\ sentTransactions' = Append(sentTransactions, RecordOf(Current(l), TRUE))
  BY <1>2 DEF ReportSent
<1>3. ASSUME NEW l \in Loops, ReportSendFailed(l)
      PROVE  /\ executedTransactions' = executedTransactions
             /\ at[l] = "reporting" /\ index[l] <= Len(batch[l])
             /\ submission[Current(l).txn] = "rejected"
             /\ sentTransactions' = Append(sentTransactions, RecordOf(Current(l), FALSE))
  BY <1>3 DEF ReportSendFailed
<1>4. ASSUME NEW l \in Loops, NEW ok \in BOOLEAN, Checked(l, ok)
      PROVE  /\ sentTransactions' = sentTransactions
             /\ at[l] = "checking" /\ (ok => onChain[Current(l).txn] = "success")
             /\ executedTransactions' = Append(executedTransactions, RecordOf(Current(l), ok))
  BY <1>4 DEF Checked
<1>5. CASE User
  BY <1>5 DEF User, push, start, stop, recordVars
<1>6. ASSUME NEW p \in Payloads, Respond(p) \/ Chain(p)
      PROVE  UNCHANGED <<sentTransactions, executedTransactions>>
  BY <1>6 DEF Respond, Admit, Accepted, Rejected, Chain, Expire, Commit, networkFrame, recordVars
<1>7. CASE NumberNetwork \/ UNCHANGED vars
  BY <1>7 DEF NumberNetwork, vars, workerVars, recordVars
<1> QED BY <1>1, <1>2, <1>3, <1>4, <1>5, <1>6, <1>7 DEF Next

LEMMA RecordsStep ==
  ASSUME Control, PlacesInv, RecordsInv, [Next]_vars
  PROVE  RecordsInv'
<1>1. /\ CommittedOnce'
      /\ \A p \in Payloads :
            /\ submission[p] # "none" => submission'[p] # "none" /\ txnNumber'[p] = txnNumber[p]
            /\ submission[p] \in {"accepted", "rejected"} => submission'[p] = submission[p]
            /\ onChain[p] # "no" => onChain'[p] = onChain[p]
  BY NetworkFacts DEF RecordsInv
<1>2. EntriesAreTrue'
  <2> SUFFICES ASSUME NEW e \in Entry, Carried(e)'
               PROVE  IsTrue(e)'
    BY DEF EntriesAreTrue
  <2>1. CASE Carried(e)
    <3>1. IsTrue(e) /\ e.txn \in Payloads
      BY <2>1 DEF RecordsInv, EntriesAreTrue, Entry
    <3> QED BY <1>1, <3>1 DEF IsTrue
  <2>2. ASSUME NEW l \in Loops, Submit(l), e = [txn |-> payload[l], number |-> result[l]]
        PROVE  IsTrue(e)'
    <3>1. payload[l] \in Payloads
      BY <2>2, SubmitFacts
    <3>2. /\ submission \in [Payloads -> {"none", "posting", "admitted", "accepted", "rejected"}]
          /\ txnNumber \in [Payloads -> Nat \cup {Null}]
      BY DEF Control, TypeOK
    <3>3. /\ txnNumber' = [txnNumber EXCEPT ![payload[l]] = result[l]]
          /\ submission' = [submission EXCEPT ![payload[l]] = "posting"]
      BY <2>2 DEF Submit
    <3> QED BY <2>2, <3>1, <3>2, <3>3 DEF IsTrue
  <2> QED BY <2>1, <2>2, CarriedFacts
<1>3. SettledAsRecorded'
  <2>0. /\ sentTransactions \in Seq(Record) /\ executedTransactions \in Seq(Record)
    BY DEF Control, TypeOK
  <2>1. ASSUME NEW r \in Record, submission[r.txn] = IF r.fulfilled THEN "accepted" ELSE "rejected"
        PROVE  submission'[r.txn] = IF r.fulfilled THEN "accepted" ELSE "rejected"
    <3>1. r.txn \in Payloads /\ submission[r.txn] \in {"accepted", "rejected"}
      BY <2>1 DEF Record
    <3>2. submission'[r.txn] = submission[r.txn]
      BY <1>1, <3>1
    <3> QED BY <2>1, <3>2
  <2>2. ASSUME NEW r \in Record, r.fulfilled => onChain[r.txn] = "success"
        PROVE  r.fulfilled => onChain'[r.txn] = "success"
    BY <1>1, <2>2 DEF Record
  <2>3. ASSUME NEW i \in DOMAIN sentTransactions'
        PROVE  submission'[sentTransactions'[i].txn] =
                  IF sentTransactions'[i].fulfilled THEN "accepted" ELSE "rejected"
    <3>1. \A j \in DOMAIN sentTransactions : sentTransactions[j] \in Record
      BY <2>0
    <3>2. CASE sentTransactions' = sentTransactions
      BY <2>1, <2>3, <3>1, <3>2 DEF RecordsInv, SettledAsRecorded
    <3>3. ASSUME NEW l \in Loops, NEW ok \in BOOLEAN,
                 at[l] = "reporting" /\ index[l] <= Len(batch[l]),
                 submission[Current(l).txn] = IF ok THEN "accepted" ELSE "rejected",
                 sentTransactions' = Append(sentTransactions, RecordOf(Current(l), ok))
          PROVE  submission'[sentTransactions'[i].txn] =
                    IF sentTransactions'[i].fulfilled THEN "accepted" ELSE "rejected"
      <4> DEFINE r == RecordOf(Current(l), ok)
      <4>1. r \in Record
        BY <3>3, CurrentFacts
      <4>2. submission[r.txn] = IF r.fulfilled THEN "accepted" ELSE "rejected"
        BY <3>3 DEF RecordOf
      <4> HIDE DEF r
      <4>3. \/ i \in DOMAIN sentTransactions /\ sentTransactions'[i] = sentTransactions[i]
            \/ sentTransactions'[i] = r
        BY <2>0, <2>3, <3>3, <4>1, AppendFacts DEF r
      <4>4. CASE i \in DOMAIN sentTransactions /\ sentTransactions'[i] = sentTransactions[i]
        BY <2>1, <3>1, <4>4 DEF RecordsInv, SettledAsRecorded
      <4>5. CASE sentTransactions'[i] = r
        BY <2>1, <4>1, <4>2, <4>5
      <4> QED BY <4>3, <4>4, <4>5
    <3>4. \/ sentTransactions' = sentTransactions
          \/ \E l \in Loops : \E ok \in BOOLEAN :
                /\ at[l] = "reporting" /\ index[l] <= Len(batch[l])
                /\ submission[Current(l).txn] = IF ok THEN "accepted" ELSE "rejected"
                /\ sentTransactions' = Append(sentTransactions, RecordOf(Current(l), ok))
      BY StepOfRecords
    <3> QED BY <3>2, <3>3, <3>4
  <2>4. ASSUME NEW i \in DOMAIN executedTransactions'
        PROVE  executedTransactions'[i].fulfilled => onChain'[executedTransactions'[i].txn] = "success"
    <3>1. \A j \in DOMAIN executedTransactions : executedTransactions[j] \in Record
      BY <2>0
    <3>2. CASE executedTransactions' = executedTransactions
      BY <2>2, <2>4, <3>1, <3>2 DEF RecordsInv, SettledAsRecorded
    <3>3. ASSUME NEW l \in Loops, NEW ok \in BOOLEAN,
                 at[l] = "checking", ok => onChain[Current(l).txn] = "success",
                 executedTransactions' = Append(executedTransactions, RecordOf(Current(l), ok))
          PROVE  executedTransactions'[i].fulfilled => onChain'[executedTransactions'[i].txn] = "success"
      <4> DEFINE r == RecordOf(Current(l), ok)
      <4>1. r \in Record
        BY <3>3, CurrentFacts
      <4>2. r.fulfilled => onChain[r.txn] = "success"
        BY <3>3 DEF RecordOf
      <4> HIDE DEF r
      <4>3. \/ i \in DOMAIN executedTransactions /\ executedTransactions'[i] = executedTransactions[i]
            \/ executedTransactions'[i] = r
        BY <2>0, <2>4, <3>3, <4>1, AppendFacts DEF r
      <4>4. CASE i \in DOMAIN executedTransactions /\ executedTransactions'[i] = executedTransactions[i]
        BY <2>2, <3>1, <4>4 DEF RecordsInv, SettledAsRecorded
      <4>5. CASE executedTransactions'[i] = r
        BY <2>2, <4>1, <4>2, <4>5
      <4> QED BY <4>3, <4>4, <4>5
    <3>4. \/ executedTransactions' = executedTransactions
          \/ \E l \in Loops : \E ok \in BOOLEAN :
                /\ at[l] = "checking" /\ (ok => onChain[Current(l).txn] = "success")
                /\ executedTransactions' = Append(executedTransactions, RecordOf(Current(l), ok))
      BY StepOfRecords
    <3> QED BY <3>2, <3>3, <3>4
  <2> QED BY <2>3, <2>4 DEF SettledAsRecorded
<1> QED BY <1>1, <1>2, <1>3 DEF RecordsInv

LEMMA RecordsInit == Init => RecordsInv
<1> SUFFICES ASSUME Init PROVE RecordsInv
  OBVIOUS
<1>1. \A e \in Entry : ~Carried(e)
  BY EntryIsSome DEF Init, NewQueue, Carried
<1>2. CommittedOnce /\ SettledAsRecorded
  BY DEF Init, CommittedOnce, SettledAsRecorded
<1> QED BY <1>1, <1>2 DEF RecordsInv, EntriesAreTrue

\* What sentTransactions and executedTransactions say is true: the number is the
\* one the transaction was signed with, and the outcome is that of its own
\* submission and execution, although the code pairs them by position.
THEOREM RecordsMatchSubmissionsHolds == Spec => []RecordsMatchSubmissions
<1>1. Spec => []RecordsInv
  BY RecordsInit, RecordsStep, ControlHolds, PlacesHold, PTL DEF Spec
<1>2. ASSUME Control, RecordsInv PROVE RecordsMatchSubmissions
  <2>1. ASSUME NEW r \in Record, \A e \in Entry : e.txn = r.txn /\ e.number = r.number => Carried(e)
        PROVE  r.number = txnNumber[r.txn]
    <3> DEFINE e == [txn |-> r.txn, number |-> r.number]
    <3>1. e \in Entry /\ e.txn = r.txn /\ e.number = r.number
      BY DEF Entry, Record
    <3> HIDE DEF e
    <3>2. IsTrue(e)
      BY <1>2, <2>1, <3>1 DEF RecordsInv, EntriesAreTrue
    <3> QED BY <3>1, <3>2 DEF IsTrue
  <2>2. sentTransactions \in Seq(Record) /\ executedTransactions \in Seq(Record)
    BY <1>2 DEF Control, TypeOK
  <2>3. ASSUME NEW i \in DOMAIN sentTransactions
        PROVE  sentTransactions[i].number = txnNumber[sentTransactions[i].txn]
    <3>1. sentTransactions[i] \in Record
      BY <2>2
    <3>2. \A e \in Entry : e.txn = sentTransactions[i].txn /\ e.number = sentTransactions[i].number => Carried(e)
      BY DEF Carried
    <3> QED BY <2>1, <3>1, <3>2
  <2>4. ASSUME NEW i \in DOMAIN executedTransactions
        PROVE  executedTransactions[i].number = txnNumber[executedTransactions[i].txn]
    <3>1. executedTransactions[i] \in Record
      BY <2>2
    <3>2. \A e \in Entry : e.txn = executedTransactions[i].txn /\ e.number = executedTransactions[i].number => Carried(e)
      BY DEF Carried
    <3> QED BY <2>1, <3>1, <3>2
  <2> QED BY <1>2, <2>3, <2>4 DEF RecordsMatchSubmissions, RecordsInv, SettledAsRecorded
<1> QED BY <1>1, <1>2, ControlHolds, PTL

-----------------------------------------------------------------------------
(* The events layer is inductive. *)

Outcome == {"transactionExecuted", "transactionExecutionFailed"}

\* An event that keeps the order may be emitted.
LEMMA EmitFacts ==
  ASSUME events \in Seq(Event), EventsFollowLifecycle, NEW e \in Event, events' = Append(events, e),
         e.txn # 0 => \A i \in DOMAIN events :
                         events[i].txn = e.txn => events[i].event = "transactionSent" /\ e.event \in Outcome,
         e.event \in Outcome => \E i \in DOMAIN events : events[i] = [event |-> "transactionSent", txn |-> e.txn]
  PROVE  EventsFollowLifecycle'
<1> DEFINE N == Len(events) + 1
<1>1. /\ N \in Nat \ {0} /\ DOMAIN events = 1 .. (N - 1) /\ DOMAIN events' = 1 .. N
      /\ \A i \in 1 .. (N - 1) : events'[i] = events[i]
      /\ events'[N] = e
  BY AppendFacts
<1> HIDE DEF N
<1>2. ASSUME NEW i \in DOMAIN events', NEW j \in DOMAIN events',
             i < j, events'[i].txn = events'[j].txn, events'[i].txn # 0
      PROVE  events'[i].event = "transactionSent" /\ events'[j].event \in Outcome
  <2>1. i \in DOMAIN events /\ events'[i] = events[i]
    BY <1>1, <1>2
  <2>2. CASE j = N
    BY <1>1, <1>2, <2>1, <2>2
  <2>3. CASE j # N
    <3>1. j \in DOMAIN events /\ events'[j] = events[j]
      BY <1>1, <2>3
    <3> QED BY <1>2, <2>1, <3>1 DEF EventsFollowLifecycle, Outcome
  <2> QED BY <2>2, <2>3
<1>3. ASSUME NEW j \in DOMAIN events', events'[j].event \in Outcome
      PROVE  \E i \in 1 .. (j - 1) : events'[i] = [event |-> "transactionSent", txn |-> events'[j].txn]
  <2>1. CASE j = N
    <3>1. PICK i \in DOMAIN events : events[i] = [event |-> "transactionSent", txn |-> e.txn]
      BY <1>1, <1>3, <2>1
    <3>2. i \in 1 .. (j - 1) /\ events'[i] = events[i]
      BY <1>1, <2>1
    <3> QED BY <1>1, <2>1, <3>1, <3>2
  <2>2. CASE j # N
    <3>1. j \in DOMAIN events /\ events'[j] = events[j]
      BY <1>1, <2>2
    <3>2. PICK i \in 1 .. (j - 1) : events[i] = [event |-> "transactionSent", txn |-> events[j].txn]
      BY <1>3, <3>1 DEF EventsFollowLifecycle, Outcome
    <3>3. events'[i] = events[i]
      BY <1>1, <3>1
    <3> QED BY <3>1, <3>2, <3>3
  <2> QED BY <2>1, <2>2
<1> QED BY <1>2, <1>3 DEF EventsFollowLifecycle, Outcome

\* A step that emits nothing about a payload leaves the other loops' checks open.
LEMMA StillOpen ==
  ASSUME EventsInv, NEW m \in Loops, at[m] = "checking", events \in Seq(Event),
         Current(m)' = Current(m),
         \A p \in Payloads : (\E i \in Nat : InSent(p, i)) => (\E i \in Nat : InSent(p, i))',
         Current(m).txn \in Payloads,
         \/ events' = events
         \/ \E e \in Event : e.txn # Current(m).txn /\ events' = Append(events, e)
  PROVE  /\ (\E i \in Nat : InSent(Current(m).txn, i))'
         /\ (\E j \in DOMAIN events : events[j] = [event |-> "transactionSent", txn |-> Current(m).txn])'
         /\ (\A j \in DOMAIN events : events[j].txn = Current(m).txn => events[j].event = "transactionSent")'
<1> DEFINE p == Current(m).txn
<1>0. /\ \E i \in Nat : InSent(p, i)
      /\ \E j \in DOMAIN events : events[j] = [event |-> "transactionSent", txn |-> p]
      /\ \A j \in DOMAIN events : events[j].txn = p => events[j].event = "transactionSent"
  BY DEF EventsInv, CheckingIsOpen
<1>1. p' = p
  OBVIOUS
<1>2. \A i : InSent(p, i)' <=> (i \in DOMAIN sentTransactions' /\ sentTransactions'[i].txn = p)
  BY <1>1 DEF InSent
<1>3. \A q \in Payloads : q = p => (\E i \in Nat : InSent(q, i))'
  BY <1>0
<1>4. \E i \in Nat : i \in DOMAIN sentTransactions' /\ sentTransactions'[i].txn = p
  BY <1>3 DEF InSent
<1>5. CASE events' = events
  BY <1>0, <1>1, <1>2, <1>4, <1>5
<1>6. ASSUME NEW e \in Event, e.txn # p, events' = Append(events, e)
      PROVE  /\ \E j \in DOMAIN events' : events'[j] = [event |-> "transactionSent", txn |-> p]
             /\ \A j \in DOMAIN events' : events'[j].txn = p => events'[j].event = "transactionSent"
  <2>1. /\ Len(events) \in Nat /\ DOMAIN events = 1 .. Len(events) /\ DOMAIN events' = 1 .. (Len(events) + 1)
        /\ \A i \in 1 .. Len(events) : events'[i] = events[i]
        /\ events'[Len(events) + 1] = e
    BY <1>6, AppendFacts
  <2> HIDE DEF p
  <2>2. \A j \in DOMAIN events' : \/ j \in DOMAIN events /\ events'[j] = events[j]
                                  \/ events'[j] = e
    BY <2>1
  <2>3. \A j \in DOMAIN events : j \in DOMAIN events' /\ events'[j] = events[j]
    BY <2>1
  <2> QED BY <1>0, <1>6, <2>2, <2>3
<1> QED BY <1>1, <1>2, <1>4, <1>5, <1>6

\* A step that emits and records nothing, and begins no check.
LEMMA QuietEvents ==
  ASSUME Control, EventsInv, UNCHANGED <<sentTransactions, events>>,
         \A k \in Loops : at'[k] = "checking" =>
            at[k] = "checking" /\ batch'[k] = batch[k] /\ index'[k] = index[k]
  PROVE  EventsInv'
<1>1. \A k \in Loops : at'[k] = "checking" => at[k] = "checking" /\ Current(k)' = Current(k)
  BY DEF Current
<1>2. EventsFollowLifecycle'
  BY DEF EventsInv, EventsFollowLifecycle
<1>3. EventsAreSent'
  BY DEF EventsInv, EventsAreSent, InSent
<1>4. ASSUME NEW l \in Loops, at'[l] = "checking"
      PROVE  /\ (\E i \in Nat : InSent(Current(l).txn, i))'
             /\ (\E j \in DOMAIN events : events[j] = [event |-> "transactionSent", txn |-> Current(l).txn])'
             /\ (\A j \in DOMAIN events : events[j].txn = Current(l).txn => events[j].event = "transactionSent")'
             /\ \A m \in Loops : at'[m] = "checking" /\ (Current(m).txn)' = (Current(l).txn)' => m = l
  <2>1. at[l] = "checking" /\ Current(l)' = Current(l)
    BY <1>1, <1>4
  <2>2. Current(l).txn \in Payloads
    BY <2>1, CurrentFacts
  <2>3. events \in Seq(Event)
    BY DEF Control
  <2>4. \A p \in Payloads : (\E i \in Nat : InSent(p, i)) => (\E i \in Nat : InSent(p, i))'
    BY DEF InSent
  <2>5. \A m \in Loops : at'[m] = "checking" /\ (Current(m).txn)' = (Current(l).txn)' => m = l
    BY <1>1, <2>1 DEF EventsInv, CheckingIsOpen
  <2> QED BY <2>1, <2>2, <2>3, <2>4, <2>5, StillOpen
<1>5. CheckingIsOpen'
  BY <1>4 DEF CheckingIsOpen
<1> QED BY <1>2, <1>3, <1>5 DEF EventsInv

\* The entry that is reported was in no event before.
LEMMA ReportIsFirst ==
  ASSUME Control, PlacesInv, EventsInv, NEW l \in Loops, at[l] = "reporting", index[l] <= Len(batch[l])
  PROVE  /\ \A i \in Nat : ~InSent(Current(l).txn, i)
         /\ \A j \in DOMAIN events : events[j].txn # Current(l).txn
         /\ \A m \in Loops : at[m] = "checking" => Current(m).txn # Current(l).txn
<1>1. /\ index[l] \in DOMAIN batch[l] /\ index[l] \in Nat /\ Current(l).txn \in Payloads /\ l \in Nat
  BY CurrentFacts DEF Loops
<1>2. Kept(Current(l).txn, "batch", l, index[l])
  BY <1>1 DEF Kept, InBatch, Unreported, Current
<1>3. \A i \in Nat : ~InSent(Current(l).txn, i)
  <2>1. ASSUME NEW i \in Nat, InSent(Current(l).txn, i) PROVE FALSE
    <3>1. Kept(Current(l).txn, "sent", 0, i) /\ "sent" \in Kinds /\ "batch" \in Kinds
      BY <2>1 DEF Kept, Kinds
    <3> QED BY <1>1, <1>2, <3>1 DEF PlacesInv, KeptOnce
  <2> QED BY <2>1
<1>4. Current(l).txn # 0
  BY <1>1 DEF Payloads
<1> QED BY <1>3, <1>4 DEF EventsInv, EventsAreSent, CheckingIsOpen

\* InSent only grows.
LEMMA SentGrows ==
  ASSUME Control, NEW r \in Record, sentTransactions' = Append(sentTransactions, r)
  PROVE  /\ \A p \in Payloads \cup {0} :
               (\E i \in Nat : InSent(p, i))' <=> (\E i \in Nat : InSent(p, i)) \/ p = r.txn
<1> DEFINE S == sentTransactions
<1>1. /\ S \in Seq(Record)
  BY DEF Control, TypeOK
<1>2. /\ Len(S) \in Nat /\ DOMAIN S = 1 .. Len(S) /\ DOMAIN S' = 1 .. (Len(S) + 1)
      /\ \A i \in 1 .. Len(S) : S'[i] = S[i]
      /\ S'[Len(S) + 1] = r
  BY <1>1, AppendFacts
<1>3. \A p : (\E i \in Nat : InSent(p, i)) <=> \E i \in 1 .. Len(S) : S[i].txn = p
  BY <1>2 DEF InSent
<1>4. ASSUME NEW p \in Payloads \cup {0}
      PROVE  (\E i \in Nat : InSent(p, i))' <=> \E i \in 1 .. (Len(S) + 1) : S'[i].txn = p
  BY <1>2 DEF InSent
<1> HIDE DEF S
<1>5. ASSUME NEW p
      PROVE  (\E i \in 1 .. (Len(S) + 1) : S'[i].txn = p) <=> (\E i \in 1 .. Len(S) : S[i].txn = p) \/ p = r.txn
  BY <1>2
<1> QED BY <1>3, <1>4, <1>5

\* ReportSent and ReportSendFailed.
LEMMA ReportEvents ==
  ASSUME Control, PlacesInv, EventsInv, NEW l \in Loops, NEW ok \in BOOLEAN, NEW kind \in EventKinds \ Outcome,
         at[l] = "reporting", index[l] <= Len(batch[l]),
         sentTransactions' = Append(sentTransactions, RecordOf(Current(l), ok)),
         events' = Append(events, [event |-> kind, txn |-> Current(l).txn]),
         \A k \in Loops \ {l} : at'[k] = at[k] /\ index'[k] = index[k],
         batch' = batch,
         at'[l] = "checking" => kind = "transactionSent" /\ index'[l] = index[l]
  PROVE  EventsInv'
<1> DEFINE n == Current(l).txn
           e == [event |-> kind, txn |-> n]
<1>1. /\ n \in Payloads /\ RecordOf(Current(l), ok) \in Record /\ RecordOf(Current(l), ok).txn = n
      /\ events \in Seq(Event)
  BY CurrentFacts DEF RecordOf, Control
<1>2. e \in Event /\ e.txn = n /\ e.event \notin Outcome /\ n # 0
  BY <1>1 DEF Event, Payloads
<1>3. /\ \A j \in DOMAIN events : events[j].txn # n
      /\ \A m \in Loops : at[m] = "checking" => Current(m).txn # n
  BY ReportIsFirst
<1>4. \A p \in Payloads \cup {0} :
         (\E i \in Nat : InSent(p, i))' <=> (\E i \in Nat : InSent(p, i)) \/ p = n
  BY <1>1, SentGrows
<1> HIDE DEF e
<1>5. events' = Append(events, e)
  BY DEF e
<1> HIDE DEF n
<1>6. /\ Len(events) \in Nat /\ DOMAIN events = 1 .. Len(events) /\ DOMAIN events' = 1 .. (Len(events) + 1)
      /\ \A i \in 1 .. Len(events) : events'[i] = events[i]
      /\ events'[Len(events) + 1] = e
  BY <1>1, <1>2, <1>5, AppendFacts
<1>7. EventsFollowLifecycle'
  BY <1>1, <1>2, <1>3, <1>5, EmitFacts DEF EventsInv
<1>8. EventsAreSent'
  <2> SUFFICES ASSUME NEW j \in DOMAIN events', events'[j].txn # 0
               PROVE  \E i \in Nat : i \in DOMAIN sentTransactions' /\ sentTransactions'[i].txn = events'[j].txn
    BY DEF EventsAreSent, InSent
  <2>1. ASSUME NEW p \in Payloads \cup {0}, p = n \/ \E i \in Nat : InSent(p, i)
        PROVE  \E i \in Nat : i \in DOMAIN sentTransactions' /\ sentTransactions'[i].txn = p
    <3>1. (\E i \in Nat : InSent(p, i))'
      BY <1>4, <2>1
    <3> QED BY <3>1 DEF InSent
  <2>2. CASE j = Len(events) + 1
    <3>1. events'[j].txn = n /\ n \in Payloads \cup {0}
      BY <1>1, <1>2, <1>6, <2>2
    <3> QED BY <2>1, <3>1
  <2>3. CASE j # Len(events) + 1
    <3>1. j \in DOMAIN events /\ events'[j] = events[j]
      BY <1>6, <2>3
    <3>2. events[j].txn \in Payloads \cup {0}
      <4>1. events[j] \in Event
        BY <1>1, <3>1
      <4>2. \A x \in Event : x.txn \in Payloads \cup {0}
        BY DEF Event
      <4> QED BY <4>1, <4>2
    <3> QED BY <2>1, <3>1, <3>2 DEF EventsInv, EventsAreSent
  <2> QED BY <2>2, <2>3
<1>9. ASSUME NEW m \in Loops, at'[m] = "checking", m # l
      PROVE  /\ (\E i \in Nat : InSent(Current(m).txn, i))'
             /\ (\E j \in DOMAIN events : events[j] = [event |-> "transactionSent", txn |-> Current(m).txn])'
             /\ (\A j \in DOMAIN events : events[j].txn = Current(m).txn => events[j].event = "transactionSent")'
  <2>1. at[m] = "checking" /\ Current(m)' = Current(m)
    BY <1>9 DEF Current
  <2>2. Current(m).txn \in Payloads
    BY <2>1, CurrentFacts
  <2>3. \A p \in Payloads : (\E i \in Nat : InSent(p, i)) => (\E i \in Nat : InSent(p, i))'
    BY <1>4
  <2>4. e.txn # Current(m).txn
    BY <1>2, <1>3, <2>1
  <2> QED BY <1>1, <1>2, <1>5, <2>1, <2>2, <2>3, <2>4, StillOpen
<1>10. at'[l] = "checking" => Current(l)' = Current(l)
  BY DEF Current
<1>11. ASSUME at'[l] = "checking"
       PROVE  /\ (\E i \in Nat : InSent(Current(l).txn, i))'
              /\ (\E j \in DOMAIN events : events[j] = [event |-> "transactionSent", txn |-> Current(l).txn])'
              /\ (\A j \in DOMAIN events : events[j].txn = Current(l).txn => events[j].event = "transactionSent")'
  <2>1. (Current(l).txn)' = n /\ e = [event |-> "transactionSent", txn |-> n]
    BY <1>10, <1>11 DEF n, e
  <2>2. \E i \in Nat : i \in DOMAIN sentTransactions' /\ sentTransactions'[i].txn = n
    <3>1. \A p \in Payloads : p = n => (\E i \in Nat : InSent(p, i))'
      BY <1>4
    <3> QED BY <1>1, <3>1 DEF InSent
  <2>3. \E j \in DOMAIN events' : events'[j] = [event |-> "transactionSent", txn |-> n]
    <3>1. Len(events) + 1 \in DOMAIN events'
      BY <1>6
    <3> QED BY <1>6, <2>1, <3>1
  <2>4. \A j \in DOMAIN events' : events'[j].txn = n => events'[j].event = "transactionSent"
    <3>1. \A j \in DOMAIN events' : (j \in DOMAIN events /\ events'[j] = events[j]) \/ events'[j] = e
      BY <1>6
    <3> QED BY <1>3, <2>1, <3>1
  <2> QED BY <2>1, <2>2, <2>3, <2>4 DEF InSent
<1>12. ASSUME NEW k \in Loops, NEW m \in Loops, at'[k] = "checking", at'[m] = "checking",
              (Current(m).txn)' = (Current(k).txn)'
       PROVE  m = k
  <2>1. \A d \in Loops : d # l /\ at'[d] = "checking" =>
           at[d] = "checking" /\ (Current(d).txn)' = Current(d).txn /\ Current(d).txn # n
    BY <1>3 DEF Current
  <2>2. at'[l] = "checking" => (Current(l).txn)' = n
    BY <1>10 DEF n
  <2>3. CASE k # l /\ m # l
    BY <1>12, <2>1, <2>3 DEF EventsInv, CheckingIsOpen
  <2>4. CASE k = l \/ m = l
    BY <1>12, <2>1, <2>2, <2>4
  <2> QED BY <2>3, <2>4
<1>13. CheckingIsOpen'
  BY <1>9, <1>11, <1>12 DEF CheckingIsOpen
<1> QED BY <1>7, <1>8, <1>13 DEF EventsInv

\* Checked: the outcome follows the loop's own "sent".
LEMMA CheckedEvents ==
  ASSUME Control, EventsInv, NEW l \in Loops, NEW ok \in BOOLEAN, Checked(l, ok)
  PROVE  EventsInv'
<1> DEFINE n == Current(l).txn
           kind == IF ok THEN "transactionExecuted" ELSE "transactionExecutionFailed"
           e == [event |-> kind, txn |-> n]
<1>1. /\ at[l] = "checking" /\ at' = [at EXCEPT ![l] = "reporting"] /\ at \in [Loops -> Places]
      /\ index' = [index EXCEPT ![l] = index[l] + 1] /\ index \in [Loops -> Nat]
      /\ UNCHANGED <<batch, sentTransactions>>
      /\ events' = Append(events, e) /\ events \in Seq(Event)
  BY DEF Checked, GoTo, Emit, Control, TypeOK
<1>2. n \in Payloads /\ n # 0 /\ kind \in Outcome /\ e \in Event /\ e.txn = n /\ e.event = kind
  <2>1. n \in Payloads
    BY <1>1, CurrentFacts
  <2> QED BY <2>1 DEF Outcome, Event, EventKinds, Payloads
<1>3. /\ \E i \in Nat : InSent(n, i)
      /\ \E j \in DOMAIN events : events[j] = [event |-> "transactionSent", txn |-> n]
      /\ \A j \in DOMAIN events : events[j].txn = n => events[j].event = "transactionSent"
      /\ \A m \in Loops : at[m] = "checking" /\ Current(m).txn = n => m = l
  BY <1>1 DEF EventsInv, CheckingIsOpen
<1> HIDE DEF e, n, kind
<1>4. EventsFollowLifecycle'
  BY <1>1, <1>2, <1>3, EmitFacts DEF EventsInv
<1>5. \A p, i : InSent(p, i)' <=> InSent(p, i)
  BY <1>1 DEF InSent
<1>6. EventsAreSent'
  <2>1. \A j \in DOMAIN events' : (j \in DOMAIN events /\ events'[j] = events[j]) \/ events'[j] = e
    BY <1>1, <1>2, AppendFacts
  <2>2. \A j \in DOMAIN events' : events'[j].txn # 0 =>
           \E i \in Nat : i \in DOMAIN sentTransactions /\ sentTransactions[i].txn = events'[j].txn
    BY <1>2, <1>3, <2>1 DEF EventsInv, EventsAreSent, InSent
  <2> QED BY <1>1, <2>2 DEF EventsAreSent, InSent
<1>7. \A m \in Loops : at'[m] = "checking" =>
         m # l /\ at[m] = "checking" /\ Current(m)' = Current(m) /\ Current(m).txn # n
  BY <1>1, <1>3 DEF Current
<1>8. ASSUME NEW m \in Loops, at'[m] = "checking"
      PROVE  /\ (\E i \in Nat : InSent(Current(m).txn, i))'
             /\ (\E j \in DOMAIN events : events[j] = [event |-> "transactionSent", txn |-> Current(m).txn])'
             /\ (\A j \in DOMAIN events : events[j].txn = Current(m).txn => events[j].event = "transactionSent")'
             /\ \A k \in Loops : at'[k] = "checking" /\ (Current(k).txn)' = (Current(m).txn)' => k = m
  <2>1. Current(m).txn \in Payloads
    BY <1>7, <1>8, CurrentFacts
  <2>2. \A p \in Payloads : (\E i \in Nat : InSent(p, i)) => (\E i \in Nat : InSent(p, i))'
    BY <1>1 DEF InSent
  <2>3. \A k \in Loops : at'[k] = "checking" /\ (Current(k).txn)' = (Current(m).txn)' => k = m
    BY <1>7, <1>8 DEF EventsInv, CheckingIsOpen
  <2> QED BY <1>1, <1>2, <1>7, <1>8, <2>1, <2>2, <2>3, StillOpen
<1>9. CheckingIsOpen'
  BY <1>8 DEF CheckingIsOpen
<1> QED BY <1>4, <1>6, <1>9 DEF EventsInv

\* FinishBatch: "executionFinish" is about no payload.
LEMMA FinishBatchEvents ==
  ASSUME Control, EventsInv, NEW l \in Loops, FinishBatch(l)
  PROVE  EventsInv'
<1> DEFINE e == [event |-> "executionFinish", txn |-> 0]
<1>1. /\ at[l] = "reporting" /\ batch' = [batch EXCEPT ![l] = <<>>] /\ index' = [index EXCEPT ![l] = 0]
      /\ batch \in [Loops -> Seq(Entry)] /\ index \in [Loops -> Nat]
      /\ UNCHANGED <<taskQueue, sentTransactions>> /\ AwaitOutstanding(l)
      /\ events' = Append(events, e) /\ events \in Seq(Event)
  BY DEF FinishBatch, Emit, Control, TypeOK
<1>2. e \in Event /\ e.txn = 0 /\ e.event \notin Outcome
  BY DEF Outcome, Event, EventKinds
<1> HIDE DEF e
<1>3. /\ \A k \in Loops \ {l} : at'[k] = at[k]
      /\ at'[l] \in {"outPending", "outReady"}
  BY <1>1, AwaitFacts
<1>4. EventsFollowLifecycle'
  BY <1>1, <1>2, EmitFacts DEF EventsInv
<1>5. EventsAreSent'
  <2>1. \A j \in DOMAIN events' : (j \in DOMAIN events /\ events'[j] = events[j]) \/ events'[j] = e
    BY <1>1, <1>2, AppendFacts
  <2> QED BY <1>1, <1>2, <2>1 DEF EventsInv, EventsAreSent, InSent
<1>6. \A m \in Loops : at'[m] = "checking" =>
         m # l /\ at[m] = "checking" /\ Current(m)' = Current(m)
  BY <1>1, <1>3 DEF Current
<1>7. ASSUME NEW m \in Loops, at'[m] = "checking"
      PROVE  /\ (\E i \in Nat : InSent(Current(m).txn, i))'
             /\ (\E j \in DOMAIN events : events[j] = [event |-> "transactionSent", txn |-> Current(m).txn])'
             /\ (\A j \in DOMAIN events : events[j].txn = Current(m).txn => events[j].event = "transactionSent")'
             /\ \A k \in Loops : at'[k] = "checking" /\ (Current(k).txn)' = (Current(m).txn)' => k = m
  <2>1. Current(m).txn \in Payloads /\ Current(m).txn # 0
    <3>1. Current(m).txn \in Payloads
      BY <1>6, <1>7, CurrentFacts
    <3> QED BY <3>1 DEF Payloads
  <2>2. \A p \in Payloads : (\E i \in Nat : InSent(p, i)) => (\E i \in Nat : InSent(p, i))'
    BY <1>1 DEF InSent
  <2>3. \A k \in Loops : at'[k] = "checking" /\ (Current(k).txn)' = (Current(m).txn)' => k = m
    BY <1>6, <1>7 DEF EventsInv, CheckingIsOpen
  <2> QED BY <1>1, <1>2, <1>6, <1>7, <2>1, <2>2, <2>3, StillOpen
<1>8. CheckingIsOpen'
  BY <1>7 DEF CheckingIsOpen
<1> QED BY <1>4, <1>5, <1>8 DEF EventsInv

LEMMA EventsStep ==
  ASSUME Control, PlacesInv, EventsInv, [Next]_vars
  PROVE  EventsInv'
<1>0. at \in [Loops -> Places] /\ batch \in [Loops -> Seq(Entry)] /\ index \in [Loops -> Nat]
  BY DEF Control, TypeOK
<1>1. ASSUME UNCHANGED <<batch, index, sentTransactions, events>>,
             \A k \in Loops : at'[k] = "checking" => at[k] = "checking"
      PROVE  EventsInv'
  BY <1>1, QuietEvents
<1>2. ASSUME NEW l \in Loops, NextTask(l) \/ Submitting(l)
      PROVE  EventsInv'
  <2>1. UNCHANGED <<batch, index, sentTransactions, events>>
    BY <1>2 DEF NextTask, Submitting, AskNumber, Numbering, TakePayload, NoPayload, Submit, GenerateFailed,
                workerVars, loopVars, recordVars
  <2>2. \A k \in Loops : at'[k] = "checking" => at[k] = "checking"
    <3>1. CASE Submit(l)
      BY <3>1, SubmitFacts
    <3>2. CASE NextTask(l) \/ AskNumber(l) \/ TakePayload(l) \/ NoPayload(l) \/ GenerateFailed(l)
      BY <1>0, <3>2 DEF NextTask, AskNumber, TakePayload, NoPayload, GenerateFailed, GoTo
    <3>3. CASE Numbering(l)
      BY <3>3 DEF Numbering, workerVars, loopVars
    <3> QED BY <1>2, <3>1, <3>2, <3>3 DEF Submitting
  <2> QED BY <1>1, <2>1, <2>2
<1>3. ASSUME NEW l \in Loops, BeginProcess(l)
      PROVE  EventsInv'
  <2>1. UNCHANGED <<batch, index, sentTransactions, events, taskQueue>> /\ AwaitOutstanding(l) /\ at[l] = "taskReady"
    BY <1>3 DEF BeginProcess, recordVars
  <2>2. \A k \in Loops : at'[k] = "checking" => at[k] = "checking"
    BY <2>1, AwaitFacts
  <2> QED BY <1>1, <2>1, <2>2
<1>4. ASSUME NEW l \in Loops, TakeItem(l)
      PROVE  EventsInv'
  <2>1. /\ UNCHANGED <<sentTransactions, events, index>>
        /\ \A k \in Loops \ {l} : batch'[k] = batch[k] /\ at'[k] = at[k]
        /\ at'[l] # "checking"
    BY <1>4, TakeItemFacts DEF TakeItem, recordVars
  <2> QED BY <2>1, QuietEvents
<1>5. ASSUME NEW l \in Loops, BatchSettled(l)
      PROVE  EventsInv'
  <2>1. /\ UNCHANGED <<sentTransactions, events, batch>>
        /\ \A k \in Loops \ {l} : index'[k] = index[k] /\ at'[k] = at[k]
        /\ at'[l] # "checking"
    BY <1>0, <1>5 DEF BatchSettled, GoTo, recordVars
  <2> QED BY <2>1, QuietEvents
<1>6. ASSUME NEW l \in Loops, ReportSent(l)
      PROVE  EventsInv'
  <2>1. /\ at[l] = "reporting" /\ index[l] <= Len(batch[l])
        /\ sentTransactions' = Append(sentTransactions, RecordOf(Current(l), TRUE))
        /\ events' = Append(events, [event |-> "transactionSent", txn |-> Current(l).txn])
        /\ UNCHANGED <<batch, index>>
        /\ \A k \in Loops \ {l} : at'[k] = at[k]
    BY <1>0, <1>6 DEF ReportSent, Emit, GoTo
  <2>2. "transactionSent" \in EventKinds \ Outcome
    BY DEF EventKinds, Outcome
  <2> QED BY <2>1, <2>2, ReportEvents
<1>7. ASSUME NEW l \in Loops, ReportSendFailed(l)
      PROVE  EventsInv'
  <2>1. /\ at[l] = "reporting" /\ index[l] <= Len(batch[l])
        /\ sentTransactions' = Append(sentTransactions, RecordOf(Current(l), FALSE))
        /\ events' = Append(events, [event |-> "transactionSendFailed", txn |-> Current(l).txn])
        /\ UNCHANGED <<batch, at>>
        /\ \A k \in Loops \ {l} : index'[k] = index[k]
    BY <1>0, <1>7 DEF ReportSendFailed, Emit
  <2>2. "transactionSendFailed" \in EventKinds \ Outcome
    BY DEF EventKinds, Outcome
  <2> QED BY <2>1, <2>2, ReportEvents
<1>8. ASSUME NEW l \in Loops, Loop(l)
      PROVE  EventsInv'
  BY <1>2, <1>3, <1>4, <1>5, <1>6, <1>7, <1>8, FinishBatchEvents, CheckedEvents DEF Loop, Processing
<1>9. CASE User
  <2>1. UNCHANGED <<batch, index, sentTransactions, events>>
    BY <1>9 DEF User, push, start, stop, loopVars, recordVars
  <2>2. \A k \in Loops : at'[k] = "checking" => at[k] = "checking"
    <3>1. CASE push
      BY <3>1 DEF push, loopVars
    <3>2. CASE start
      BY <3>2, StartFacts DEF start
    <3>3. CASE stop
      BY <3>3, StopFacts
    <3> QED BY <1>9, <3>1, <3>2, <3>3 DEF User
  <2> QED BY <1>1, <2>1, <2>2
<1>10. ASSUME NEW p \in Payloads, Respond(p) \/ Chain(p)
       PROVE  EventsInv'
  <2>1. UNCHANGED networkFrame
    BY <1>10 DEF Respond, Admit, Accepted, Rejected, Chain, Expire, Commit
  <2>2. UNCHANGED <<at, batch, index, sentTransactions, events>>
    BY <2>1 DEF networkFrame, loopVars, recordVars
  <2> QED BY <1>1, <2>2
<1>11. CASE NumberNetwork \/ UNCHANGED vars
  <2>1. UNCHANGED <<at, batch, index, sentTransactions, events>>
    BY <1>11 DEF NumberNetwork, vars, workerVars, loopVars, recordVars
  <2> QED BY <1>1, <2>1
<1> QED BY <1>8, <1>9, <1>10, <1>11 DEF Next

\* The events of a transaction come in the order of its life, once each,
\* however many run loops process the queue.
THEOREM EventsFollowLifecycleHolds == Spec => []EventsFollowLifecycle
<1>1. Init => EventsInv
  BY DEF Init, EventsInv, EventsAreSent, CheckingIsOpen, EventsFollowLifecycle
<1>2. EventsInv => EventsFollowLifecycle
  BY DEF EventsInv
<1> QED BY <1>1, <1>2, EventsStep, ControlHolds, PlacesHold, PTL DEF Spec
-----------------------------------------------------------------------------
(* The numbers layer is inductive. *)

LEMMA NumbersInvStep ==
  ASSUME Control, NumbersInv, [Next]_vars
  PROVE  NumbersInv'
<1>0. /\ at \in [Loops -> Places] /\ payload \in [Loops -> Payloads \cup {0}]
      /\ txnNumber \in [Payloads -> Nat \cup {Null}]
  BY DEF Control, TypeOK
<1>1. /\ \A l \in Loops : HoldsNumber(l) => result[l] \in used /\ result[l] # Null
      /\ \A p \in Payloads : txnNumber[p] # Null => txnNumber[p] \in used
  BY DEF Control, NumberShape, SignedShape
\* No loop comes to hold a number and no transaction is signed.
<1>2. ASSUME UNCHANGED <<txnNumber, resynced, misread>>,
             \A l \in Loops : HoldsNumber(l)' => HoldsNumber(l) /\ result'[l] = result[l]
      PROVE  NumbersInv'
  BY <1>2 DEF NumbersInv, HeldNumbersDiffer, NumbersAreNotReused
<1>3. ASSUME NEW l \in Loops, AskNumber(l) \/ Numbering(l)
      PROVE  NumbersInv'
  <2>1. /\ txnNumber' = txnNumber /\ at'[l] = "numbering"
        /\ \A k \in Loops \ {l} : at'[k] = at[k]
        /\ ~HoldsNumber(l) \/ pc[l] = "idle"
        /\ Numbers!nextSequenceNumber(l) \/ (op[l] = "next" /\ Numbers!Step(l))
    BY <1>0, <1>3 DEF AskNumber, Numbering, GoTo, workerVars, loopVars, networkVars, HoldsNumber, Control, NumberShape
  <2>2. /\ \A d \in Loops \ {l} : pc'[d] = pc[d] /\ result'[d] = result[d]
        /\ \/ result'[l] = result[l] /\ pc'[l] # "idle"
           \/ /\ result'[l] \in Nat
              /\ ~resynced' /\ ~misread' => result'[l] \notin used
        /\ resynced \/ misread => resynced' \/ misread'
    BY <2>1, CallStep DEF Control
  <2>3. \A d \in Loops \ {l} : HoldsNumber(d)' <=> HoldsNumber(d)
    BY <2>1, <2>2 DEF HoldsNumber
  <2>4. HoldsNumber(l)' => (~resynced' /\ ~misread' => result'[l] \notin used /\ result'[l] \in Nat)
    BY <2>1, <2>2 DEF HoldsNumber
  <2>5. ~resynced' /\ ~misread' => ~resynced /\ ~misread
    BY <2>2
  <2>6. result'[l] \in Nat => result'[l] # Null
    BY NumbersAssumption
  <2>7. NumbersAreNotReused'
    BY <2>1, <2>5 DEF NumbersInv, NumbersAreNotReused
  <2>8. HeldNumbersDiffer'
    <3> SUFFICES ASSUME ~resynced', ~misread'
                 PROVE  /\ \A k, m \in Loops : HoldsNumber(k)' /\ HoldsNumber(m)' /\ result'[k] = result'[m] => k = m
                        /\ \A k \in Loops, p \in Payloads : HoldsNumber(k)' => result'[k] # txnNumber'[p]
      BY DEF HeldNumbersDiffer
    <3>1. /\ \A k, m \in Loops : HoldsNumber(k) /\ HoldsNumber(m) /\ result[k] = result[m] => k = m
          /\ \A k \in Loops, p \in Payloads : HoldsNumber(k) => result[k] # txnNumber[p]
      BY <2>5 DEF NumbersInv, HeldNumbersDiffer
    <3>2. \A k, m \in Loops : HoldsNumber(k)' /\ HoldsNumber(m)' /\ result'[k] = result'[m] => k = m
      BY <1>1, <2>2, <2>3, <2>4, <3>1
    <3>3. \A k \in Loops, p \in Payloads : HoldsNumber(k)' => result'[k] # txnNumber'[p]
      BY <1>1, <2>1, <2>2, <2>3, <2>4, <2>6, <3>1
    <3> QED BY <3>2, <3>3
  <2> QED BY <2>7, <2>8 DEF NumbersInv
<1>4. ASSUME NEW l \in Loops, Submit(l)
      PROVE  NumbersInv'
  <2> DEFINE n == payload[l]
  <2>1. /\ n \in Payloads /\ at[l] = "generating" /\ at'[l] = "submitted"
        /\ \A k \in Loops : at'[k] = at[k] \/ at'[k] \in {"submitted", "outReady"}
    BY <1>4, SubmitFacts
  <2>2. /\ txnNumber' = [txnNumber EXCEPT ![n] = result[l]]
        /\ UNCHANGED <<pc, result, resynced, misread>>
    BY <1>4 DEF Submit, numberingVars
  <2>3. txnNumber'[n] = result[l] /\ \A p \in Payloads \ {n} : txnNumber'[p] = txnNumber[p]
    BY <1>0, <2>1, <2>2
  <2> HIDE DEF n
  <2>4. HoldsNumber(l) /\ \A k \in Loops : HoldsNumber(k)' => HoldsNumber(k) /\ k # l
    BY <2>1, <2>2 DEF HoldsNumber
  <2> QED BY <2>2, <2>3, <2>4 DEF NumbersInv, HeldNumbersDiffer, NumbersAreNotReused
<1>5. ASSUME NEW l \in Loops, NextTask(l) \/ TakePayload(l) \/ NoPayload(l) \/ GenerateFailed(l)
      PROVE  NumbersInv'
  <2>1. UNCHANGED <<txnNumber, pc, result, resynced, misread>>
    BY <1>5 DEF NextTask, TakePayload, NoPayload, GenerateFailed, networkVars, numberingVars
  <2>2. \A k \in Loops : HoldsNumber(k)' => HoldsNumber(k)
    BY <1>0, <1>5, <2>1 DEF HoldsNumber, NextTask, TakePayload, NoPayload, GenerateFailed, GoTo
  <2> QED BY <1>2, <2>1, <2>2
<1>6. ASSUME NEW l \in Loops, Processing(l)
      PROVE  NumbersInv'
  <2>1. UNCHANGED <<txnNumber, pc, result, resynced, misread>>
    BY <1>6 DEF Processing, BeginProcess, TakeItem, BatchSettled, ReportSent, ReportSendFailed, FinishBatch,
                Checked, networkVars, numberingVars
  <2>2. \A k \in Loops : at'[k] = at[k] \/ at'[k] \notin {"numbering", "generating"}
    BY <1>0, <1>6 DEF Processing, BeginProcess, TakeItem, BatchSettled, ReportSent, ReportSendFailed,
                      FinishBatch, Checked, AwaitOutstanding, GoTo
  <2>3. \A k \in Loops : HoldsNumber(k)' => HoldsNumber(k)
    BY <2>1, <2>2 DEF HoldsNumber
  <2> QED BY <1>2, <2>1, <2>3
<1>7. CASE User
  <2>1. UNCHANGED <<txnNumber, pc, result, resynced, misread>>
    BY <1>7 DEF User, push, start, stop, networkVars, numberingVars
  <2>2. \A k \in Loops : at'[k] = at[k] \/ at'[k] \notin {"numbering", "generating"}
    <3>1. CASE push
      BY <3>1 DEF push, loopVars
    <3>2. CASE start
      BY <3>2, StartFacts DEF start
    <3>3. CASE stop
      BY <3>3, StopFacts
    <3> QED BY <1>7, <3>1, <3>2, <3>3 DEF User
  <2>3. \A k \in Loops : HoldsNumber(k)' => HoldsNumber(k)
    BY <2>1, <2>2 DEF HoldsNumber
  <2> QED BY <1>2, <2>1, <2>3
<1>8. ASSUME NEW p \in Payloads, Respond(p) \/ Chain(p)
      PROVE  NumbersInv'
  <2>1. UNCHANGED <<networkFrame, txnNumber, pc, result, resynced, misread>>
    BY <1>8 DEF Respond, Admit, Accepted, Rejected, Chain, Expire, Commit, numberingVars
  <2>2. UNCHANGED <<at, txnNumber, pc, result, resynced, misread>>
    BY <2>1 DEF networkFrame, loopVars
  <2> QED BY <1>2, <2>2 DEF HoldsNumber
<1>9. CASE NumberNetwork
  <2>1. UNCHANGED <<workerVars, result, pc>> /\ (resynced \/ misread => resynced' \/ misread')
    BY <1>9 DEF NumberNetwork, Numbers!Network, Numbers!Answer, Numbers!Fail, Numbers!Tick, Numbers!historyVars
  <2>2. UNCHANGED <<at, txnNumber>>
    BY <2>1 DEF workerVars, loopVars, networkVars
  <2> QED BY <2>1, <2>2 DEF NumbersInv, HeldNumbersDiffer, NumbersAreNotReused, HoldsNumber
<1>10. CASE UNCHANGED vars
  <2>1. UNCHANGED <<at, txnNumber, pc, result, resynced, misread>>
    BY <1>10 DEF vars, workerVars, loopVars, networkVars, numberingVars
  <2> QED BY <1>2, <2>1 DEF HoldsNumber
<1>11. ASSUME NEW l \in Loops, Loop(l)
       PROVE  NumbersInv'
  BY <1>3, <1>4, <1>5, <1>6, <1>11 DEF Loop, Submitting
<1> QED BY <1>7, <1>8, <1>9, <1>10, <1>11 DEF Next

\* Until a wait times out or a read fails, no two transactions are signed with
\* the same number, whichever run loops submit them and whenever.
THEOREM NumbersAreNotReusedHolds == Spec => []NumbersAreNotReused
<1>1. Init => NumbersInv
  BY DEF Init, NumbersInv, HeldNumbersDiffer, NumbersAreNotReused, HoldsNumber
<1>2. NumbersInv => NumbersAreNotReused
  BY DEF NumbersInv
<1> QED BY <1>1, <1>2, NumbersInvStep, ControlHolds, PTL DEF Spec

=============================================================================
