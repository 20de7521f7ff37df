---------------------------- MODULE AsyncChannel ----------------------------
(***************************************************************************)
(* What an AsyncQueue promises its callers, with no queue in it: since the *)
(* last cancel, the i-th dequeue receives the item of the i-th enqueue, as *)
(* soon as both calls have been made.  cancel forgets the unmatched calls  *)
(* of both kinds and rejects the promises of the unmatched dequeues.       *)
(***************************************************************************)
EXTENDS Sequences, Naturals

CONSTANTS Items,       \* what the producers enqueue
          Consumers,   \* the coroutines that await dequeue()
          NoItem       \* the content of a promise that holds no item

VARIABLES puts,        \* the items enqueued since the last cancel, in order
          gets,        \* the consumers that called dequeue since then, in order
          cancelled,   \* what isCancelled() answers
          promise,     \* the state of each consumer's current promise
          value        \* the item a fulfilled promise carries

vars == <<puts, gets, cancelled, promise, value>>

Init ==
    /\ puts = <<>>
    /\ gets = <<>>
    /\ cancelled = FALSE
    /\ promise = [c \in Consumers |-> "none"]
    /\ value = [c \in Consumers |-> NoItem]

Fulfil(c, x) ==
    /\ promise' = [promise EXCEPT ![c] = "fulfilled"]
    /\ value' = [value EXCEPT ![c] = x]

\* The (Len(puts)+1)-th item goes to the dequeue of that rank, if it was made.
Put(x) ==
    /\ puts' = Append(puts, x)
    /\ cancelled' = FALSE
    /\ \/ /\ Len(puts) < Len(gets)
          /\ Fulfil(gets[Len(puts) + 1], x)
       \/ /\ Len(puts) >= Len(gets)
          /\ UNCHANGED <<promise, value>>
    /\ UNCHANGED gets

\* A dequeue receives the item of its own rank, now or later.
Get(c) ==
    /\ promise[c] = "none"
    /\ gets' = Append(gets, c)
    /\ \/ /\ Len(gets) < Len(puts)
          /\ Fulfil(c, puts[Len(gets) + 1])
       \/ /\ Len(gets) >= Len(puts)
          /\ promise' = [promise EXCEPT ![c] = "pending"]
          /\ UNCHANGED value
    /\ UNCHANGED <<puts, cancelled>>

\* Every call that still waits is refused, and matching starts afresh.
CancelAll ==
    /\ promise' = [c \in Consumers |->
                      IF promise[c] = "pending" THEN "rejected" ELSE promise[c]]
    /\ puts' = <<>>
    /\ gets' = <<>>
    /\ cancelled' = TRUE
    /\ UNCHANGED value

\* The consumer's continuation runs and may call dequeue again.
Resume(c) ==
    /\ promise[c] \in {"fulfilled", "rejected"}
    /\ promise' = [promise EXCEPT ![c] = "none"]
    /\ value' = [value EXCEPT ![c] = NoItem]
    /\ UNCHANGED <<puts, gets, cancelled>>

Next ==
    \/ \E x \in Items : Put(x)
    \/ \E c \in Consumers : Get(c) \/ Resume(c)
    \/ CancelAll

Spec == Init /\ [][Next]_vars
=============================================================================
