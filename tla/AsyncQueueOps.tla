--------------------------- MODULE AsyncQueueOps ---------------------------
(***************************************************************************)
(* The synchronous bodies of the methods of AsyncQueue<T>                  *)
(* (transactions/management/asyncQueue.ts) as operators on the state of    *)
(* one queue object.  JavaScript runs each body to its end without         *)
(* interruption, so each operator is one atomic step; what happens to the  *)
(* promises a method settles is left to the module that owns the callers.  *)
(*                                                                         *)
(* An entry of pendingDequeue is the { resolve, reject } pair of one       *)
(* promise; it is identified with the coroutine that awaits the promise.   *)
(***************************************************************************)
LOCAL INSTANCE Sequences
LOCAL INSTANCE Naturals

\* The state of a queue object over items T awaited by coroutines C.
QueueType(T, C) ==
    [queue : Seq(T), pendingDequeue : Seq(C), cancelled : BOOLEAN]

NewQueue == [queue |-> <<>>, pendingDequeue |-> <<>>, cancelled |-> FALSE]

isEmpty(q) == q.queue = <<>>

HasWaiter(q) == q.pendingDequeue # <<>>

\* Mutant: enqueue that leaves the cancelled flag as it was.
Enqueue_NoReset(q, item) ==
    IF HasWaiter(q)
    THEN [q EXCEPT !.pendingDequeue = Tail(@)]
    ELSE [q EXCEPT !.queue = Append(@, item)]

\* enqueue: hand the item to the oldest waiting promise, or store it.
Enqueue(q, item) ==
    IF HasWaiter(q)
    THEN [q EXCEPT !.cancelled = FALSE, !.pendingDequeue = Tail(@)]
    ELSE [q EXCEPT !.cancelled = FALSE, !.queue = Append(@, item)]

\* The promise that enqueue resolves when there is one.
OldestWaiter(q) == Head(q.pendingDequeue)

\* dequeue by coroutine c: take the head, or register a pending promise.
Dequeue(q, c) ==
    IF isEmpty(q)
    THEN [q EXCEPT !.pendingDequeue = Append(@, c)]
    ELSE [q EXCEPT !.queue = Tail(@)]

\* The coroutines whose promises cancel rejects.
Waiters(q) == {q.pendingDequeue[i] : i \in DOMAIN q.pendingDequeue}

\* cancel: forget every waiter and every stored item.
Cancel(q) == [queue |-> <<>>, pendingDequeue |-> <<>>, cancelled |-> TRUE]
=============================================================================
