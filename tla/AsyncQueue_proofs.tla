-------------------------- MODULE AsyncQueue_proofs --------------------------
(***************************************************************************)
(* Proofs about AsyncQueue for every set of items and coroutines and every *)
(* bound: the inductive invariant, the invariants it implies, and the      *)
(* refinement of AsyncChannel.                                             *)
(***************************************************************************)
EXTENDS AsyncQueue, TLAPS

\* What the tail of a non-empty sequence is.
LEMMA TailFacts ==
  ASSUME NEW S, NEW s \in Seq(S), s # <<>>
  PROVE  /\ Tail(s) \in Seq(S)
         /\ Len(s) \in Nat \ {0}
         /\ Len(Tail(s)) = Len(s) - 1
         /\ DOMAIN Tail(s) = 1 .. (Len(s) - 1)
         /\ \A i \in 1 .. (Len(s) - 1) : Tail(s)[i] = s[i + 1]
         /\ Head(s) = s[1]
         /\ Head(s) \in S
  OBVIOUS

\* What a sequence with one more element is.
LEMMA AppendFacts ==
  ASSUME NEW S, NEW s \in Seq(S), NEW x \in S
  PROVE  /\ Append(s, x) \in Seq(S)
         /\ Len(s) \in Nat
         /\ Len(Append(s, x)) = Len(s) + 1
         /\ DOMAIN Append(s, x) = 1 .. (Len(s) + 1)
         /\ \A i \in 1 .. Len(s) : Append(s, x)[i] = s[i]
         /\ Append(s, x)[Len(s) + 1] = x
         /\ Append(s, x) # <<>>
  OBVIOUS

\* The fields of the queue object have their types.
LEMMA QueueFields ==
  ASSUME QueueTypeOK
  PROVE  /\ q.queue \in Seq(Items)
         /\ q.pendingDequeue \in Seq(Consumers)
         /\ q.cancelled \in BOOLEAN
         /\ DOMAIN q.queue = 1 .. Len(q.queue)
         /\ DOMAIN q.pendingDequeue = 1 .. Len(q.pendingDequeue)
  BY DEF QueueTypeOK, QueueType

\* The initial state satisfies the inductive invariant.
LEMMA InitIInv == QueueInit => QueueIInv
  BY DEF QueueInit, QueueIInv, QueueTypeOK, QueueType, NewQueue, MatchedInOrder,
         PendingIsRegistered, CancelledIsEmpty, Waiters, isEmpty

\* enqueue keeps the inductive invariant (asyncQueue.ts, enqueue).
LEMMA EnqueueIInv ==
  ASSUME QueueIInv, NEW item \in Items, enqueue(item)
  PROVE  QueueIInv'
<1>1. /\ q.queue \in Seq(Items)
      /\ q.pendingDequeue \in Seq(Consumers)
      /\ DOMAIN q.queue = 1 .. Len(q.queue)
      /\ DOMAIN q.pendingDequeue = 1 .. Len(q.pendingDequeue)
  BY QueueFields DEF QueueIInv
<1>2. /\ puts \in Seq(Items) /\ gets \in Seq(Consumers)
      /\ gets' = gets /\ puts' = Append(puts, item)
      /\ puts' \in Seq(Items) /\ Len(puts') = Len(puts) + 1
      /\ Len(puts) \in Nat /\ Len(gets) \in Nat
      /\ \A i \in 1 .. Len(puts) : puts'[i] = puts[i]
      /\ puts'[Len(puts) + 1] = item
  BY AppendFacts DEF QueueIInv, QueueTypeOK, enqueue
<1>3. CASE q.pendingDequeue # <<>>
  <2> DEFINE P == q.pendingDequeue
  <2>1. /\ q' = [q EXCEPT !.cancelled = FALSE, !.pendingDequeue = Tail(@)]
        /\ promise' = [promise EXCEPT ![Head(P)] = "fulfilled"]
        /\ value' = [value EXCEPT ![Head(P)] = item]
    BY <1>3 DEF enqueue, Enqueue, HasWaiter, OldestWaiter, Resolve
  <2>2. /\ q'.queue = q.queue /\ q'.pendingDequeue = Tail(P) /\ q'.cancelled = FALSE
        /\ q' \in [queue : Seq(Items), pendingDequeue : Seq(Consumers), cancelled : BOOLEAN]
    BY <1>1, <1>3, <2>1, TailFacts DEF QueueIInv, QueueTypeOK, QueueType
  <2>3. /\ Len(P) \in Nat \ {0} /\ Len(Tail(P)) = Len(P) - 1
        /\ DOMAIN Tail(P) = 1 .. (Len(P) - 1)
        /\ \A i \in 1 .. (Len(P) - 1) : Tail(P)[i] = P[i + 1]
        /\ Head(P) = P[1] /\ Head(P) \in Consumers
    BY <1>1, <1>3, TailFacts
  <2>4. Len(gets) > Len(puts) /\ Len(P) = Len(gets) - Len(puts) /\ q.queue = <<>>
    BY <1>1, <1>2, <2>3 DEF QueueIInv, MatchedInOrder
  <2>5. QueueTypeOK'
    BY <1>2, <2>1, <2>2, <2>3 DEF QueueIInv, QueueTypeOK, QueueType
  <2>6. MatchedInOrder'
    <3>1. ASSUME NEW i \in 1 .. (Len(P) - 1)
          PROVE  Tail(P)[i] = gets[(Len(puts) + 1) + i]
      <4>1. i + 1 \in 1 .. Len(P) /\ Len(puts) + (i + 1) = (Len(puts) + 1) + i
        BY <1>2, <2>3
      <4>2. P[i + 1] = gets[Len(puts) + (i + 1)]
        BY <1>1, <4>1 DEF QueueIInv, MatchedInOrder
      <4> QED BY <2>3, <4>1, <4>2
    <3>2. /\ Len(q'.queue) = 0 /\ DOMAIN q'.queue = {}
          /\ ~ (Len(puts') > Len(gets'))
      BY <1>2, <2>2, <2>3, <2>4
    <3>3. Len(q'.pendingDequeue) = IF Len(gets') > Len(puts') THEN Len(gets') - Len(puts') ELSE 0
      BY <1>2, <2>2, <2>3, <2>4
    <3>4. \A i \in DOMAIN q'.pendingDequeue : q'.pendingDequeue[i] = gets'[Len(puts') + i]
      BY <1>2, <2>2, <2>3, <3>1
    <3> QED BY <3>2, <3>3, <3>4 DEF MatchedInOrder
  <2>7. PendingIsRegistered'
    <3>1. \A i, j \in 1 .. Len(P) : P[i] = P[j] => i = j
      BY <1>1 DEF QueueIInv, PendingIsRegistered
    <3>2. \A i, j \in 1 .. (Len(P) - 1) : Tail(P)[i] = Tail(P)[j] => i = j
      BY <2>3, <3>1
    <3>3. ASSUME NEW c \in Consumers
          PROVE  promise'[c] = "pending" <=> c \in Waiters(q)'
      <4>1. c \in Waiters(q) <=> \E i \in 1 .. Len(P) : P[i] = c
        BY <1>1 DEF Waiters
      <4>2. c \in Waiters(q)' <=> \E i \in 1 .. (Len(P) - 1) : P[i + 1] = c
        BY <2>2, <2>3 DEF Waiters
      <4>3. (\E i \in 1 .. (Len(P) - 1) : P[i + 1] = c)
               <=> \E i \in 2 .. Len(P) : P[i] = c
        <5>1. ASSUME NEW i \in 2 .. Len(P), P[i] = c
              PROVE  \E k \in 1 .. (Len(P) - 1) : P[k + 1] = c
          <6>1. i - 1 \in 1 .. (Len(P) - 1) /\ (i - 1) + 1 = i
            BY <2>3
          <6> QED BY <5>1, <6>1
        <5>2. ASSUME NEW k \in 1 .. (Len(P) - 1), P[k + 1] = c
              PROVE  \E i \in 2 .. Len(P) : P[i] = c
          <6>1. k + 1 \in 2 .. Len(P)
            BY <2>3
          <6> QED BY <5>2, <6>1
        <5> QED BY <5>1, <5>2
      <4>4. promise[c] = "pending" <=> c \in Waiters(q)
        BY DEF QueueIInv, PendingIsRegistered
      <4>5. CASE c = P[1]
        <5>1. promise'[c] = "fulfilled"
          BY <2>1, <2>3, <4>5 DEF QueueIInv, QueueTypeOK
        <5>2. ~ \E i \in 2 .. Len(P) : P[i] = c
          BY <2>3, <3>1, <4>5
        <5> QED BY <4>2, <4>3, <5>1, <5>2
      <4>6. CASE c # P[1]
        <5>1. promise'[c] = promise[c]
          BY <2>1, <2>3, <4>6 DEF QueueIInv, QueueTypeOK
        <5>2. (\E i \in 2 .. Len(P) : P[i] = c) <=> (\E i \in 1 .. Len(P) : P[i] = c)
          BY <2>3, <4>6
        <5> QED BY <4>1, <4>2, <4>3, <4>4, <5>1, <5>2
      <4> QED BY <4>5, <4>6
    <3> QED BY <2>2, <2>3, <3>2, <3>3 DEF PendingIsRegistered
  <2>8. CancelledIsEmpty'
    BY <2>2 DEF CancelledIsEmpty
  <2> QED BY <2>5, <2>6, <2>7, <2>8 DEF QueueIInv
<1>4. CASE q.pendingDequeue = <<>>
  <2>1. /\ q' = [q EXCEPT !.cancelled = FALSE, !.queue = Append(@, item)]
        /\ promise' = promise /\ value' = value
    BY <1>4 DEF enqueue, Enqueue, HasWaiter
  <2>2. /\ q'.queue = Append(q.queue, item) /\ q'.cancelled = FALSE
        /\ q'.pendingDequeue = q.pendingDequeue
        /\ q' \in [queue : Seq(Items), pendingDequeue : Seq(Consumers), cancelled : BOOLEAN]
    BY <1>1, <2>1, AppendFacts DEF QueueIInv, QueueTypeOK, QueueType
  <2>3. /\ Len(q.queue) \in Nat /\ Len(q'.queue) = Len(q.queue) + 1
        /\ DOMAIN q'.queue = 1 .. (Len(q.queue) + 1)
        /\ \A i \in 1 .. Len(q.queue) : q'.queue[i] = q.queue[i]
        /\ q'.queue[Len(q.queue) + 1] = item
    BY <1>1, <2>2, AppendFacts
  <2>4. Len(puts) >= Len(gets) /\ Len(q.queue) = Len(puts) - Len(gets)
    BY <1>1, <1>2, <1>4 DEF QueueIInv, MatchedInOrder
  <2>5. QueueTypeOK'
    BY <1>2, <2>1, <2>2 DEF QueueIInv, QueueTypeOK, QueueType
  <2>6. MatchedInOrder'
    <3>1. \A i \in 1 .. Len(q.queue) : q.queue[i] = puts[Len(gets) + i]
      BY <1>1 DEF QueueIInv, MatchedInOrder
    <3>2. ASSUME NEW i \in 1 .. (Len(q.queue) + 1)
          PROVE  q'.queue[i] = puts'[Len(gets) + i]
      <4>1. CASE i = Len(q.queue) + 1
        <5>1. Len(gets) + i = Len(puts) + 1
          BY <1>2, <2>3, <2>4, <4>1
        <5> QED BY <1>2, <2>3, <4>1, <5>1
      <4>2. CASE i # Len(q.queue) + 1
        <5>1. i \in 1 .. Len(q.queue) /\ Len(gets) + i \in 1 .. Len(puts)
          BY <1>2, <2>3, <2>4, <4>2
        <5> QED BY <1>2, <2>3, <3>1, <5>1
      <4> QED BY <4>1, <4>2
    <3>3. /\ Len(q'.pendingDequeue) = 0 /\ DOMAIN q'.pendingDequeue = {}
          /\ ~ (Len(gets') > Len(puts'))
      BY <1>2, <1>4, <2>2, <2>4
    <3>4. Len(q'.queue) = IF Len(puts') > Len(gets') THEN Len(puts') - Len(gets') ELSE 0
      BY <1>2, <2>3, <2>4
    <3>5. \A i \in DOMAIN q'.queue : q'.queue[i] = puts'[Len(gets') + i]
      BY <1>2, <2>3, <3>2
    <3> QED BY <3>3, <3>4, <3>5 DEF MatchedInOrder
  <2>7. PendingIsRegistered'
    BY <2>1, <2>2 DEF QueueIInv, PendingIsRegistered, Waiters
  <2>8. CancelledIsEmpty'
    BY <2>2 DEF CancelledIsEmpty
  <2> QED BY <2>5, <2>6, <2>7, <2>8 DEF QueueIInv
<1> QED BY <1>3, <1>4

\* dequeue keeps the inductive invariant (asyncQueue.ts, dequeue).
LEMMA DequeueIInv ==
  ASSUME QueueIInv, NEW c \in Consumers, dequeue(c)
  PROVE  QueueIInv'
<1>1. /\ q.queue \in Seq(Items)
      /\ q.pendingDequeue \in Seq(Consumers)
      /\ DOMAIN q.queue = 1 .. Len(q.queue)
      /\ DOMAIN q.pendingDequeue = 1 .. Len(q.pendingDequeue)
  BY QueueFields DEF QueueIInv
<1>2. /\ puts \in Seq(Items) /\ gets \in Seq(Consumers)
      /\ puts' = puts /\ gets' = Append(gets, c)
      /\ gets' \in Seq(Consumers) /\ Len(gets') = Len(gets) + 1
      /\ Len(puts) \in Nat /\ Len(gets) \in Nat
      /\ \A i \in 1 .. Len(gets) : gets'[i] = gets[i]
      /\ gets'[Len(gets) + 1] = c
  BY AppendFacts DEF QueueIInv, QueueTypeOK, dequeue
<1>3. CASE q.queue # <<>>
  <2> DEFINE S == q.queue
  <2>1. /\ q' = [q EXCEPT !.queue = Tail(@)]
        /\ promise' = [promise EXCEPT ![c] = "fulfilled"]
        /\ value' = [value EXCEPT ![c] = Head(S)]
        /\ promise[c] = "none"
    BY <1>3 DEF dequeue, Dequeue, isEmpty, Resolve
  <2>2. /\ q'.queue = Tail(S) /\ q'.pendingDequeue = q.pendingDequeue
        /\ q'.cancelled = q.cancelled
        /\ q' \in [queue : Seq(Items), pendingDequeue : Seq(Consumers), cancelled : BOOLEAN]
    BY <1>1, <1>3, <2>1, TailFacts DEF QueueIInv, QueueTypeOK, QueueType
  <2>3. /\ Len(S) \in Nat \ {0} /\ Len(Tail(S)) = Len(S) - 1
        /\ DOMAIN Tail(S) = 1 .. (Len(S) - 1)
        /\ \A i \in 1 .. (Len(S) - 1) : Tail(S)[i] = S[i + 1]
        /\ Head(S) \in Items
    BY <1>1, <1>3, TailFacts
  <2>4. Len(puts) > Len(gets) /\ Len(S) = Len(puts) - Len(gets) /\ q.pendingDequeue = <<>>
    BY <1>1, <1>2, <2>3 DEF QueueIInv, MatchedInOrder
  <2>5. QueueTypeOK'
    BY <1>2, <2>1, <2>2, <2>3 DEF QueueIInv, QueueTypeOK, QueueType
  <2>6. MatchedInOrder'
    <3>1. ASSUME NEW i \in 1 .. (Len(S) - 1)
          PROVE  Tail(S)[i] = puts[(Len(gets) + 1) + i]
      <4>1. i + 1 \in 1 .. Len(S) /\ Len(gets) + (i + 1) = (Len(gets) + 1) + i
        BY <1>2, <2>3
      <4>2. S[i + 1] = puts[Len(gets) + (i + 1)]
        BY <1>1, <4>1 DEF QueueIInv, MatchedInOrder
      <4> QED BY <2>3, <4>1, <4>2
    <3>2. /\ Len(q'.pendingDequeue) = 0 /\ DOMAIN q'.pendingDequeue = {}
          /\ ~ (Len(gets') > Len(puts'))
      BY <1>2, <2>2, <2>4
    <3>3. Len(q'.queue) = IF Len(puts') > Len(gets') THEN Len(puts') - Len(gets') ELSE 0
      BY <1>2, <2>2, <2>3, <2>4
    <3>4. \A i \in DOMAIN q'.queue : q'.queue[i] = puts'[Len(gets') + i]
      BY <1>2, <2>2, <2>3, <3>1
    <3> QED BY <3>2, <3>3, <3>4 DEF MatchedInOrder
  <2>7. PendingIsRegistered'
    BY <2>1, <2>2, <2>4 DEF QueueIInv, QueueTypeOK, PendingIsRegistered, Waiters
  <2>8. CancelledIsEmpty'
    BY <1>3, <2>2 DEF QueueIInv, CancelledIsEmpty, isEmpty
  <2> QED BY <2>5, <2>6, <2>7, <2>8 DEF QueueIInv
<1>4. CASE q.queue = <<>>
  <2> DEFINE P == q.pendingDequeue
  <2>1. /\ q' = [q EXCEPT !.pendingDequeue = Append(@, c)]
        /\ promise' = [promise EXCEPT ![c] = "pending"]
        /\ value' = value /\ promise[c] = "none"
    BY <1>4 DEF dequeue, Dequeue, isEmpty
  <2>2. /\ q'.queue = <<>> /\ q'.pendingDequeue = Append(P, c)
        /\ q'.cancelled = q.cancelled
        /\ q' \in [queue : Seq(Items), pendingDequeue : Seq(Consumers), cancelled : BOOLEAN]
    BY <1>1, <1>4, <2>1, AppendFacts DEF QueueIInv, QueueTypeOK, QueueType
  <2>3. /\ Len(P) \in Nat /\ Len(q'.pendingDequeue) = Len(P) + 1
        /\ DOMAIN q'.pendingDequeue = 1 .. (Len(P) + 1)
        /\ \A i \in 1 .. Len(P) : q'.pendingDequeue[i] = P[i]
        /\ q'.pendingDequeue[Len(P) + 1] = c
    BY <1>1, <2>2, AppendFacts
  <2>4. Len(gets) >= Len(puts) /\ Len(P) = Len(gets) - Len(puts)
    BY <1>1, <1>2, <1>4 DEF QueueIInv, MatchedInOrder
  <2>5. QueueTypeOK'
    BY <1>2, <2>1, <2>2 DEF QueueIInv, QueueTypeOK, QueueType
  <2>6. MatchedInOrder'
    <3>1. ASSUME NEW i \in 1 .. (Len(P) + 1)
          PROVE  q'.pendingDequeue[i] = gets'[Len(puts) + i]
      <4>1. CASE i = Len(P) + 1
        <5>1. Len(puts) + i = Len(gets) + 1
          BY <1>2, <2>3, <2>4, <4>1
        <5> QED BY <1>2, <2>3, <4>1, <5>1
      <4>2. CASE i # Len(P) + 1
        <5>1. i \in 1 .. Len(P) /\ Len(puts) + i \in 1 .. Len(gets)
          BY <1>2, <2>3, <2>4, <4>2
        <5>2. P[i] = gets[Len(puts) + i]
          BY <1>1, <5>1 DEF QueueIInv, MatchedInOrder
        <5> QED BY <1>2, <2>3, <5>1, <5>2
      <4> QED BY <4>1, <4>2
    <3>2. /\ Len(q'.queue) = 0 /\ DOMAIN q'.queue = {}
          /\ ~ (Len(puts') > Len(gets'))
      BY <1>2, <2>2, <2>4
    <3>3. Len(q'.pendingDequeue) = IF Len(gets') > Len(puts') THEN Len(gets') - Len(puts') ELSE 0
      BY <1>2, <2>3, <2>4
    <3>4. \A i \in DOMAIN q'.pendingDequeue : q'.pendingDequeue[i] = gets'[Len(puts') + i]
      BY <1>2, <2>3, <3>1
    <3> QED BY <3>2, <3>3, <3>4 DEF MatchedInOrder
  <2>7. PendingIsRegistered'
    <3>1. \A d \in Consumers : promise[d] = "pending" <=> \E i \in 1 .. Len(P) : P[i] = d
      BY <1>1 DEF QueueIInv, PendingIsRegistered, Waiters
    <3>2. \A i \in 1 .. Len(P) : P[i] # c
      BY <2>1, <3>1
    <3>a. \A i, j \in 1 .. Len(P) : P[i] = P[j] => i = j
      BY <1>1 DEF QueueIInv, PendingIsRegistered
    <3>b. \A i \in 1 .. (Len(P) + 1) : i \in 1 .. Len(P) \/ i = Len(P) + 1
      BY <2>3
    <3>3. \A i, j \in 1 .. (Len(P) + 1) : q'.pendingDequeue[i] = q'.pendingDequeue[j] => i = j
      BY <2>3, <3>2, <3>a, <3>b
    <3>4. ASSUME NEW d \in Consumers
          PROVE  promise'[d] = "pending" <=> d \in Waiters(q)'
      <4>1. d \in Waiters(q)' <=> \E i \in 1 .. (Len(P) + 1) : q'.pendingDequeue[i] = d
        BY <2>3 DEF Waiters
      <4>2. (\E i \in 1 .. (Len(P) + 1) : q'.pendingDequeue[i] = d)
               <=> d = c \/ \E i \in 1 .. Len(P) : P[i] = d
        BY <2>3
      <4> QED BY <2>1, <3>1, <4>1, <4>2 DEF QueueIInv, QueueTypeOK
    <3> QED BY <2>3, <3>3, <3>4 DEF PendingIsRegistered
  <2>8. CancelledIsEmpty'
    BY <2>2 DEF CancelledIsEmpty, isEmpty
  <2> QED BY <2>5, <2>6, <2>7, <2>8 DEF QueueIInv
<1> QED BY <1>3, <1>4

\* cancel keeps the inductive invariant (asyncQueue.ts, cancel).
LEMMA CancelIInv ==
  ASSUME QueueIInv, cancel
  PROVE  QueueIInv'
<1>1. /\ q' = [queue |-> <<>>, pendingDequeue |-> <<>>, cancelled |-> TRUE]
      /\ promise' = [c \in Consumers |-> IF c \in Waiters(q) THEN "rejected" ELSE promise[c]]
      /\ puts' = <<>> /\ gets' = <<>> /\ value' = value
  BY DEF cancel, Cancel
<1>2. QueueTypeOK'
  BY <1>1 DEF QueueIInv, QueueTypeOK, QueueType
<1>3. MatchedInOrder'
  BY <1>1 DEF MatchedInOrder
<1>4. PendingIsRegistered'
  BY <1>1 DEF QueueIInv, PendingIsRegistered, Waiters
<1>5. CancelledIsEmpty'
  BY <1>1 DEF CancelledIsEmpty, isEmpty
<1> QED BY <1>2, <1>3, <1>4, <1>5 DEF QueueIInv

\* A continuation that runs keeps the inductive invariant.
LEMMA ResumeIInv ==
  ASSUME QueueIInv, NEW c \in Consumers, Resume(c)
  PROVE  QueueIInv'
<1>1. QueueTypeOK'
  BY DEF QueueIInv, QueueTypeOK, Resume
<1>2. MatchedInOrder'
  BY DEF QueueIInv, MatchedInOrder, Resume
<1>3. PendingIsRegistered'
  BY DEF QueueIInv, QueueTypeOK, PendingIsRegistered, Waiters, Resume
<1>4. CancelledIsEmpty'
  BY DEF QueueIInv, CancelledIsEmpty, isEmpty, Resume
<1> QED BY <1>1, <1>2, <1>3, <1>4 DEF QueueIInv

\* The inductive invariant holds in every reachable state.
THEOREM Invariance == QueueSpec => []QueueIInv
<1>1. QueueIInv /\ [QueueNext]_queueVars => QueueIInv'
  <2> SUFFICES ASSUME QueueIInv, [QueueNext]_queueVars PROVE QueueIInv'
    OBVIOUS
  <2>1. ASSUME NEW item \in Items, enqueue(item) PROVE QueueIInv'
    BY <2>1, EnqueueIInv
  <2>2. ASSUME NEW c \in Consumers, dequeue(c) PROVE QueueIInv'
    BY <2>2, DequeueIInv
  <2>3. ASSUME NEW c \in Consumers, Resume(c) PROVE QueueIInv'
    BY <2>3, ResumeIInv
  <2>4. CASE cancel
    BY <2>4, CancelIInv
  <2>5. CASE UNCHANGED queueVars
    BY <2>5 DEF queueVars, QueueIInv, QueueTypeOK, MatchedInOrder, PendingIsRegistered,
                CancelledIsEmpty, Waiters, isEmpty
  <2> QED BY <2>1, <2>2, <2>3, <2>4, <2>5 DEF QueueNext
<1> QED BY <1>1, InitIInv, PTL DEF QueueSpec

\* Every variable keeps its type.
THEOREM TypeCorrectness == QueueSpec => []QueueTypeOK
  BY Invariance, PTL DEF QueueIInv

\* No lost wake-up, for any number of producers and consumers: an item is
\* never stored while a coroutine waits for one.
THEOREM NoLostWakeupHolds == QueueSpec => []NoLostWakeup
<1>1. QueueIInv => NoLostWakeup
  <2> SUFFICES ASSUME QueueIInv PROVE NoLostWakeup
    OBVIOUS
  <2>1. /\ q.queue \in Seq(Items) /\ q.pendingDequeue \in Seq(Consumers)
        /\ Len(puts) \in Nat /\ Len(gets) \in Nat
    BY QueueFields DEF QueueIInv, QueueTypeOK
  <2> QED BY <2>1 DEF QueueIInv, MatchedInOrder, NoLostWakeup, isEmpty, HasWaiter
<1> QED BY <1>1, Invariance, PTL

\* Items and waiters are matched by rank.
THEOREM MatchedInOrderHolds == QueueSpec => []MatchedInOrder
  BY Invariance, PTL DEF QueueIInv

\* No coroutine waits on a promise that the queue has forgotten.
THEOREM PendingIsRegisteredHolds == QueueSpec => []PendingIsRegistered
  BY Invariance, PTL DEF QueueIInv

\* Nothing stored survives cancel.
THEOREM CancelledIsEmptyHolds == QueueSpec => []CancelledIsEmpty
  BY Invariance, PTL DEF QueueIInv

\* The detailed queue implements the abstract channel: every step of the
\* queue is a step of the channel on the same promises.
THEOREM Refinement == QueueSpec => ImplementsChannel
<1>1. QueueInit => Channel!Init
  BY DEF QueueInit, NewQueue, Channel!Init
<1>2. QueueIInv /\ [QueueNext]_queueVars => [Channel!Next]_(Channel!vars)
  <2> SUFFICES ASSUME QueueIInv, [QueueNext]_queueVars
               PROVE  Channel!Next \/ UNCHANGED Channel!vars
    OBVIOUS
  <2>0. /\ q.queue \in Seq(Items) /\ q.pendingDequeue \in Seq(Consumers)
        /\ puts \in Seq(Items) /\ gets \in Seq(Consumers)
        /\ Len(puts) \in Nat /\ Len(gets) \in Nat
        /\ DOMAIN q.queue = 1 .. Len(q.queue)
        /\ DOMAIN q.pendingDequeue = 1 .. Len(q.pendingDequeue)
    BY QueueFields DEF QueueIInv, QueueTypeOK
  <2>1. ASSUME NEW item \in Items, enqueue(item) PROVE Channel!Put(item)
    <3>1. CASE q.pendingDequeue # <<>>
      <4>1. Len(puts) < Len(gets) /\ OldestWaiter(q) = gets[Len(puts) + 1]
        <5>1. Len(q.pendingDequeue) > 0 /\ Head(q.pendingDequeue) = q.pendingDequeue[1]
          BY <2>0, <3>1
        <5> QED BY <2>0, <5>1 DEF QueueIInv, MatchedInOrder, OldestWaiter
      <4>2. q'.cancelled = FALSE
        BY <2>1, <3>1 DEF enqueue, Enqueue, HasWaiter, QueueIInv, QueueTypeOK, QueueType
      <4> QED BY <2>1, <3>1, <4>1, <4>2 DEF enqueue, HasWaiter, Resolve, Channel!Put, Channel!Fulfil
    <3>2. CASE q.pendingDequeue = <<>>
      <4>1. Len(puts) >= Len(gets)
        BY <2>0, <3>2 DEF QueueIInv, MatchedInOrder
      <4>2. q'.cancelled = FALSE
        BY <2>1, <3>2 DEF enqueue, Enqueue, HasWaiter, QueueIInv, QueueTypeOK, QueueType
      <4> QED BY <2>1, <3>2, <4>1, <4>2 DEF enqueue, HasWaiter, Channel!Put
    <3> QED BY <3>1, <3>2
  <2>2. ASSUME NEW c \in Consumers, dequeue(c) PROVE Channel!Get(c)
    <3>0. q'.cancelled = q.cancelled
      BY <2>2 DEF dequeue, Dequeue, isEmpty, QueueIInv, QueueTypeOK, QueueType
    <3>1. CASE q.queue # <<>>
      <4>1. Len(gets) < Len(puts) /\ Head(q.queue) = puts[Len(gets) + 1]
        <5>1. Len(q.queue) > 0 /\ Head(q.queue) = q.queue[1]
          BY <2>0, <3>1
        <5>2. Len(puts) > Len(gets) /\ 1 \in DOMAIN q.queue
          BY <2>0, <5>1 DEF QueueIInv, MatchedInOrder
        <5> QED BY <2>0, <5>1, <5>2 DEF QueueIInv, MatchedInOrder
      <4> QED BY <2>2, <3>0, <3>1, <4>1 DEF dequeue, isEmpty, Resolve, Channel!Get, Channel!Fulfil
    <3>2. CASE q.queue = <<>>
      <4>1. Len(gets) >= Len(puts)
        BY <2>0, <3>2 DEF QueueIInv, MatchedInOrder
      <4> QED BY <2>2, <3>0, <3>2, <4>1 DEF dequeue, isEmpty, Channel!Get
    <3> QED BY <3>1, <3>2
  <2>3. ASSUME NEW c \in Consumers, Resume(c) PROVE Channel!Resume(c)
    BY <2>3 DEF Resume, Channel!Resume
  <2>4. CASE cancel
    <3>1. \A c \in Consumers : c \in Waiters(q) <=> promise[c] = "pending"
      BY DEF QueueIInv, PendingIsRegistered
    <3>2. q'.cancelled = TRUE
      BY <2>4 DEF cancel, Cancel
    <3> QED BY <2>4, <3>1, <3>2 DEF cancel, Channel!CancelAll, Channel!Next
  <2>5. CASE UNCHANGED queueVars
    BY <2>5 DEF queueVars, Channel!vars
  <2> QED BY <2>1, <2>2, <2>3, <2>4, <2>5 DEF QueueNext, Channel!Next
<1> QED BY <1>1, <1>2, Invariance, PTL DEF QueueSpec, ImplementsChannel, Channel!Spec
=============================================================================
