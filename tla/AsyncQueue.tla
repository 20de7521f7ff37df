----------------------------- MODULE AsyncQueue -----------------------------
(***************************************************************************)
(* One AsyncQueue object (transactions/management/asyncQueue.ts), any      *)
(* number of producers and a set of coroutines that await dequeue().  Each *)
(* method body is one atomic step.  A promise that a method settles is     *)
(* seen by its coroutine later, when the microtask queue reaches it, and   *)
(* continuations may run in any order: Resume is a step of its own.        *)
(***************************************************************************)
EXTENDS AsyncQueueOps, Sequences, Naturals

CONSTANTS Items,       \* what the producers enqueue
          Consumers,   \* the coroutines that await dequeue()
          NoItem,      \* the content of a promise that holds no item
          MaxPuts      \* bound: enqueues between two cancels

ASSUME MaxPutsAssumption == MaxPuts \in Nat

VARIABLES q,           \* queue, pendingDequeue and cancelled of the object
          promise,     \* the state of the promise each coroutine awaits
          value,       \* the item a fulfilled promise carries
          puts, gets   \* history since the last cancel: items and callers

queueVars == <<q, promise, value, puts, gets>>

QueueTypeOK ==
    /\ q \in QueueType(Items, Consumers)
    /\ promise \in [Consumers -> {"none", "pending", "fulfilled", "rejected"}]
    /\ value \in [Consumers -> Items \cup {NoItem}]
    /\ puts \in Seq(Items)
    /\ gets \in Seq(Consumers)
-----------------------------------------------------------------------------
QueueInit ==
    /\ q = NewQueue
    /\ promise = [c \in Consumers |-> "none"]
    /\ value = [c \in Consumers |-> NoItem]
    /\ puts = <<>>
    /\ gets = <<>>

\* resolve(item) on the promise of coroutine c.
Resolve(c, item) ==
    /\ promise' = [promise EXCEPT ![c] = "fulfilled"]
    /\ value' = [value EXCEPT ![c] = item]

enqueue(item) ==
    /\ Len(puts) < MaxPuts
    /\ q' = Enqueue(q, item)
    /\ \/ /\ HasWaiter(q)
          /\ Resolve(OldestWaiter(q), item)
       \/ /\ ~HasWaiter(q)
          /\ UNCHANGED <<promise, value>>
    /\ puts' = Append(puts, item)
    /\ UNCHANGED gets

dequeue(c) ==
    /\ promise[c] = "none"
    /\ q' = Dequeue(q, c)
    /\ \/ /\ ~isEmpty(q)
          /\ Resolve(c, Head(q.queue))
       \/ /\ isEmpty(q)
          /\ promise' = [promise EXCEPT ![c] = "pending"]
          /\ UNCHANGED value
    /\ gets' = Append(gets, c)
    /\ UNCHANGED puts

cancel ==
    /\ q' = Cancel(q)
    /\ promise' = [c \in Consumers |->
                      IF c \in Waiters(q) THEN "rejected" ELSE promise[c]]
    /\ puts' = <<>>
    /\ gets' = <<>>
    /\ UNCHANGED value

\* The awaiting coroutine takes its item or its AsyncQueueCancelledError.
Resume(c) ==
    /\ promise[c] \in {"fulfilled", "rejected"}
    /\ promise' = [promise EXCEPT ![c] = "none"]
    /\ value' = [value EXCEPT ![c] = NoItem]
    /\ UNCHANGED <<q, puts, gets>>

QueueNext ==
    \/ \E item \in Items : enqueue(item)
    \/ \E c \in Consumers : dequeue(c) \/ Resume(c)
    \/ cancel

QueueSpec == QueueInit /\ [][QueueNext]_queueVars
-----------------------------------------------------------------------------
\* No lost wake-up: an item is never stored while a coroutine waits for one
\* (enqueue tests pendingDequeue, dequeue tests queue, cancel empties both).
NoLostWakeup == isEmpty(q) \/ ~HasWaiter(q)

\* The stored items are the enqueued items no dequeue was matched with, and
\* the waiters are the dequeues no item was matched with, both in order.
MatchedInOrder ==
    /\ Len(q.queue) = IF Len(puts) > Len(gets) THEN Len(puts) - Len(gets) ELSE 0
    /\ Len(q.pendingDequeue) =
          IF Len(gets) > Len(puts) THEN Len(gets) - Len(puts) ELSE 0
    /\ \A i \in DOMAIN q.queue : q.queue[i] = puts[Len(gets) + i]
    /\ \A i \in DOMAIN q.pendingDequeue :
          q.pendingDequeue[i] = gets[Len(puts) + i]

\* A promise is pending exactly while its entry is in pendingDequeue, once:
\* no coroutine waits for a promise that nobody can settle any more.
PendingIsRegistered ==
    /\ \A c \in Consumers : promise[c] = "pending" <=> c \in Waiters(q)
    /\ \A i, j \in DOMAIN q.pendingDequeue :
          q.pendingDequeue[i] = q.pendingDequeue[j] => i = j

\* A cancelled queue stores nothing: no task pushed before stop() survives it.
CancelledIsEmpty == q.cancelled => isEmpty(q)

\* The queue implements the abstract channel: the i-th dequeue since the last
\* cancel receives the i-th item, whatever the interleaving.
Channel == INSTANCE AsyncChannel WITH cancelled <- q.cancelled
ImplementsChannel == Channel!Spec

\* The inductive invariant.
QueueIInv ==
    /\ QueueTypeOK
    /\ MatchedInOrder
    /\ PendingIsRegistered
    /\ CancelledIsEmpty
=============================================================================
