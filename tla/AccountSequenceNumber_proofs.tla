-------------------- MODULE AccountSequenceNumber_proofs --------------------
(***************************************************************************)
(* Proofs about AccountSequenceNumber for any number of coroutines, any    *)
(* window and any wait time.  The inductive invariant IInv adds to the     *)
(* invariants that are wanted the shape of a suspended call, and that a    *)
(* stale read is never ahead of the chain.                                 *)
(***************************************************************************)
EXTENDS AccountSequenceNumber, TLAPS

USE NullAssumption, InFlightAssumption, WaitAssumption

\* What every step of the coroutine that holds the lock establishes.
LockedStep ==
    /\ currentNumber' \in Nat
    /\ grants' \in Seq(Nat)
    /\ used' \in SUBSET Nat
    /\ result' \in [Callers -> Nat \cup {Null}]
    /\ pc' \in [Callers -> {"idle", "polling"} \cup Waiting \cup Asking]
    /\ request' \in [Callers -> {"none", "asked", "answered", "failed"}]
    /\ reply' \in [Callers -> Nat]
    /\ lock' \in BOOLEAN
    /\ MutualExclusion'
    /\ GrantsAreDense'

\* The initial states satisfy the inductive invariant.
LEMMA InitIInv == Init => IInv
<1> SUFFICES ASSUME Init PROVE IInv
  OBVIOUS
<1>1. TypeOK
  <2>1. PICK s \in StartNumbers : InitWith(s)
    BY DEF Init
  <2>2. 0 \in 0 .. (maxWaitTime + 1) /\ <<>> \in Seq(Nat) /\ s \in Nat
    BY StartAssumption
  <2> QED BY <2>1, <2>2 DEF InitWith, TypeOK
<1>2. MutualExclusion
  BY DEF Init, InitWith, MutualExclusion, Holders
<1>3. CallShape /\ NumberShape /\ ReadsBehindChain
  BY DEF Init, InitWith, CallShape, NumberShape, ReadsBehindChain, Asking, Waiting
<1>4. WindowBounded /\ GrantsAreDense /\ UseFollowsGrants /\ NextNumberIsFresh
  BY DEF Init, InitWith, WindowBounded, GrantsAreDense, UseFollowsGrants, NextNumberIsFresh
<1> QED BY <1>1, <1>2, <1>3, <1>4 DEF IInv

\* Releasing the lock, as its holder or without having kept it.
LEMMA ReturnMutex ==
  ASSUME TypeOK, MutualExclusion, NEW c \in Callers, c \in Holders \/ ~lock, Return(c)
  PROVE  MutualExclusion'
<1>1. \A d \in Callers : d \in Holders => d = c
  BY DEF MutualExclusion
<1>2. /\ pc' = [pc EXCEPT ![c] = "idle"] /\ lock' = FALSE
      /\ pc \in [Callers -> {"idle", "polling"} \cup Waiting \cup Asking]
  BY DEF Return, TypeOK
<1>3. Holders' = {}
  BY <1>1, <1>2 DEF Holders
<1> QED BY <1>2, <1>3 DEF MutualExclusion

\* Suspending inside the critical section, as its holder or on entering it.
LEMMA SuspendMutex ==
  ASSUME TypeOK, MutualExclusion, NEW c \in Callers, c \in Holders \/ ~lock, lock' = TRUE,
         NEW where \in Waiting \cup Asking, SuspendOn(c, where)
  PROVE  MutualExclusion'
<1>1. \A d \in Callers : d \in Holders => d = c
  BY DEF MutualExclusion
<1>2. /\ pc' = [pc EXCEPT ![c] = where] /\ where \notin {"idle", "polling"}
      /\ pc \in [Callers -> {"idle", "polling"} \cup Waiting \cup Asking]
  BY DEF SuspendOn, TypeOK, Waiting, Asking
<1>3. Holders' = {c}
  BY <1>1, <1>2 DEF Holders
<1> QED BY <1>3 DEF MutualExclusion

\* The types after a number is handed out.
LEMMA HandOutTypes ==
  ASSUME TypeOK, NEW c \in Callers, NEW current \in Nat, NEW reserved \in Seq(Nat),
         HandOut(c, current, reserved)
  PROVE  /\ currentNumber' \in Nat
         /\ grants' \in Seq(Nat)
         /\ used' \in SUBSET Nat
         /\ result' \in [Callers -> Nat \cup {Null}]
         /\ pc' \in [Callers -> {"idle", "polling"} \cup Waiting \cup Asking]
         /\ request' \in [Callers -> {"none", "asked", "answered", "failed"}]
         /\ reply' \in [Callers -> Nat]
         /\ lock' \in BOOLEAN
<1>0. Append(reserved, current) \in Seq(Nat)
  OBVIOUS
<1>a. currentNumber' = current + 1 /\ grants' = Append(reserved, current) /\ lock' = FALSE
  BY DEF HandOut, Return
<1>1. currentNumber' \in Nat /\ grants' \in Seq(Nat) /\ lock' \in BOOLEAN
  <2>1. currentNumber' \in Nat
    BY <1>a
  <2>2. grants' \in Seq(Nat) /\ lock' \in BOOLEAN
    BY <1>0, <1>a, Zenon
  <2> QED BY <2>1, <2>2
<1>2. used' \in SUBSET Nat /\ result' \in [Callers -> Nat \cup {Null}]
  BY DEF TypeOK, HandOut, ReturnValue
<1>3. /\ pc' \in [Callers -> {"idle", "polling"} \cup Waiting \cup Asking]
      /\ request' \in [Callers -> {"none", "asked", "answered", "failed"}]
      /\ reply' \in [Callers -> Nat]
  BY DEF TypeOK, HandOut, Return
<1> QED BY <1>1, <1>2, <1>3

\* The types after a suspension.
LEMMA SuspendTypes ==
  ASSUME TypeOK, NEW c \in Callers, NEW where \in {"polling"} \cup Waiting \cup Asking,
         SuspendOn(c, where)
  PROVE  /\ pc' \in [Callers -> {"idle", "polling"} \cup Waiting \cup Asking]
         /\ request' \in [Callers -> {"none", "asked", "answered", "failed"}]
         /\ reply' \in [Callers -> Nat]
  BY DEF TypeOK, SuspendOn

\* A sequence of consecutive numbers stays one when the next is appended.
LEMMA HandOutDense ==
  ASSUME NEW c \in Callers, NEW current \in Nat, NEW reserved \in Seq(Nat),
         \A i \in DOMAIN reserved : reserved[i] = current - Len(reserved) + i - 1,
         HandOut(c, current, reserved)
  PROVE  GrantsAreDense'
<1>1. grants' = Append(reserved, current) /\ currentNumber' = current + 1
  BY DEF HandOut
<1>2. /\ Len(reserved) \in Nat /\ Len(grants') = Len(reserved) + 1
      /\ DOMAIN grants' = 1 .. (Len(reserved) + 1)
      /\ DOMAIN reserved = 1 .. Len(reserved)
      /\ \A i \in 1 .. Len(reserved) : grants'[i] = reserved[i]
      /\ grants'[Len(reserved) + 1] = current
  BY <1>1
<1>3. ASSUME NEW i \in 1 .. (Len(reserved) + 1)
      PROVE  grants'[i] = (current + 1) - (Len(reserved) + 1) + i - 1
  <2>1. CASE i = Len(reserved) + 1
    BY <1>2, <2>1
  <2>2. CASE i \in 1 .. Len(reserved)
    <3>1. grants'[i] = current - Len(reserved) + i - 1
      BY <1>2, <2>2
    <3> QED BY <1>2, <3>1
  <2> QED BY <1>2, <2>1, <2>2
<1> QED BY <1>1, <1>2, <1>3 DEF GrantsAreDense

\* As long as nothing was resynced or misread, a number handed out is below
\* the next one, like those in use before.
LEMMA HandOutUse ==
  ASSUME NEW c \in Callers, NEW current \in Nat, NEW reserved, used \in SUBSET Nat,
         ~resynced' /\ ~misread' => \A n \in used : n < current,
         HandOut(c, current, reserved)
  PROVE  UseFollowsGrants'
<1>1. /\ used' = used \cup {current} /\ currentNumber' = current + 1
      /\ currentNumber' # Null
  BY DEF HandOut, ReturnValue
<1> QED BY <1>1 DEF UseFollowsGrants

\* The loop condition of nextSequenceNumber, in the critical section.
LEMMA ProceedNextStep ==
  ASSUME TypeOK, MutualExclusion, NEW c \in Callers, c \in Holders,
         NEW last \in Nat, NEW current \in Nat, NEW reserved \in Seq(Nat),
         \A i \in DOMAIN reserved : reserved[i] = current - Len(reserved) + i - 1,
         NEW where \in Waiting \cup Asking,
         ProceedNext(c, last, current, reserved, where)
  PROVE  LockedStep
<1>1. CASE HandOut(c, current, reserved)
  BY <1>1, HandOutTypes, HandOutDense, ReturnMutex DEF HandOut, LockedStep
<1>2. CASE SuspendOn(c, where) /\ currentNumber' = current /\ grants' = reserved
           /\ UNCHANGED <<lock, used, result>>
  <2>1. lock = TRUE
    BY DEF MutualExclusion, TypeOK
  <2>2. MutualExclusion'
    BY <1>2, <2>1, SuspendMutex
  <2>3. GrantsAreDense'
    BY <1>2 DEF GrantsAreDense
  <2> QED BY <1>2, <2>1, <2>2, <2>3, SuspendTypes DEF TypeOK, LockedStep
<1> QED BY <1>1, <1>2 DEF ProceedNext

\* The loop condition of synchronize, in the critical section.
LEMMA ProceedSyncStep ==
  ASSUME TypeOK, MutualExclusion, NEW c \in Callers, c \in Holders,
         NEW last \in Nat, NEW current \in Nat, NEW reserved \in Seq(Nat), NEW seconds,
         \A i \in DOMAIN reserved : reserved[i] = current - Len(reserved) + i - 1,
         ProceedSync(c, last, current, reserved, seconds)
  PROVE  LockedStep
<1>1. /\ currentNumber' = current /\ grants' = reserved
      /\ UNCHANGED <<used, result>>
  BY DEF ProceedSync
<1>2. GrantsAreDense'
  BY <1>1 DEF GrantsAreDense
<1>3. CASE Return(c)
  BY <1>1, <1>2, <1>3, ReturnMutex DEF TypeOK, Return, LockedStep
<1>4. CASE /\ SuspendOn(c, IF seconds > maxWaitTime THEN "resyncing" ELSE "sleeping")
           /\ UNCHANGED lock
  <2> DEFINE where == IF seconds > maxWaitTime THEN "resyncing" ELSE "sleeping"
  <2>1. where \in Waiting \cup Asking /\ SuspendOn(c, where)
    BY <1>4 DEF Waiting, Asking
  <2>2. lock = TRUE /\ lock' = TRUE
    BY <1>4 DEF MutualExclusion, TypeOK
  <2> HIDE DEF where
  <2>3. MutualExclusion'
    BY <2>1, <2>2, SuspendMutex
  <2> QED BY <1>1, <1>2, <2>1, <2>2, <2>3, SuspendTypes DEF TypeOK, LockedStep
<1> QED BY <1>3, <1>4 DEF ProceedSync

\* Neither loop condition disturbs what is known of the numbers in use.
LEMMA ProceedNextUse ==
  ASSUME TypeOK, UseFollowsGrants, NEW c \in Callers, currentNumber \in Nat,
         NEW last, NEW where, UNCHANGED <<chainSequence, resynced, misread>>,
         ProceedNext(c, last, currentNumber, grants, where)
  PROVE  UseFollowsGrants'
<1>1. CASE HandOut(c, currentNumber, grants)
  <2>1. /\ grants \in Seq(Nat) /\ used \in SUBSET Nat
        /\ ~resynced' /\ ~misread' => \A n \in used : n < currentNumber
    BY DEF TypeOK, UseFollowsGrants
  <2> QED BY <1>1, <2>1, HandOutUse
<1>2. CASE SuspendOn(c, where) /\ currentNumber' = currentNumber
           /\ UNCHANGED <<lock, used, result>>
  BY <1>2 DEF TypeOK, UseFollowsGrants, SuspendOn
<1> QED BY <1>1, <1>2 DEF ProceedNext

LEMMA ProceedSyncUse ==
  ASSUME TypeOK, UseFollowsGrants, NEW c \in Callers, currentNumber \in Nat,
         NEW last, NEW seconds, UNCHANGED <<chainSequence, resynced, misread>>,
         ProceedSync(c, last, currentNumber, grants, seconds)
  PROVE  UseFollowsGrants'
<1>1. currentNumber' = currentNumber /\ used' = used
  BY DEF ProceedSync
<1>2. CASE Return(c)
  BY <1>1, <1>2 DEF TypeOK, UseFollowsGrants, Return
<1>3. CASE SuspendOn(c, IF seconds > maxWaitTime THEN "resyncing" ELSE "sleeping")
  BY <1>1, <1>3 DEF TypeOK, UseFollowsGrants, SuspendOn
<1> QED BY <1>2, <1>3 DEF ProceedSync

\* A call that finds the lock taken changes no number.
LEMMA PollLockIInv ==
  ASSUME IInv, NEW c \in Callers, pc[c] \in {"idle", "polling"}, PollLock(c),
         op' = op \/ op' = [op EXCEPT ![c] = "next"] \/
         (op' = [op EXCEPT ![c] = "sync"] /\ currentNumber # Null),
         UNCHANGED unchangedByEntry
  PROVE  IInv'
<1> USE DEF PollLock, SuspendOn, HandOutNothing, unchangedByEntry
<1>1. TypeOK'
  BY DEF IInv, TypeOK, Asking, Waiting
<1>2. MutualExclusion'
  BY DEF IInv, TypeOK, MutualExclusion, Holders, Asking, Waiting
<1>3. CallShape'
  BY DEF IInv, TypeOK, CallShape, Asking, Waiting
<1>4. NumberShape'
  BY DEF IInv, NumberShape
<1>5. ReadsBehindChain' /\ WindowBounded'
  BY DEF IInv, TypeOK, ReadsBehindChain, WindowBounded, Asking, Waiting
<1>6. GrantsAreDense' /\ NextNumberIsFresh'
  BY DEF IInv, GrantsAreDense, NextNumberIsFresh
<1>7. UseFollowsGrants'
  BY DEF IInv, TypeOK, UseFollowsGrants, Asking, Waiting
<1> QED BY <1>1, <1>2, <1>3, <1>4, <1>5, <1>6, <1>7 DEF IInv

\* A nextSequenceNumber that takes the lock and reads, or hands out at once.
LEMMA EnterNextIInv ==
  ASSUME IInv, NEW c \in Callers, pc[c] \in {"idle", "polling"}, EnterNext(c),
         op' = [op EXCEPT ![c] = "next"], UNCHANGED unchangedByEntry
  PROVE  IInv'
<1>a. ~lock /\ IInv /\ TypeOK /\ MutualExclusion
  BY DEF EnterNext, IInv
<1>b. /\ TypeOK' /\ MutualExclusion' /\ GrantsAreDense' /\ UseFollowsGrants'
  <2>0. /\ op' \in [Callers -> {"next", "sync"}]
        /\ UNCHANGED <<lastUncommintedNumber, elapsed, chainSequence, resynced, misread>>
    BY DEF IInv, TypeOK, unchangedByEntry
  <2>1. ASSUME NEW where \in {"initializing", "updating"}, SuspendOn(c, where), lock' = TRUE,
               HandOutNothing, UNCHANGED currentNumber
        PROVE  TypeOK' /\ MutualExclusion' /\ GrantsAreDense' /\ UseFollowsGrants'
    <3>1. where \in Waiting \cup Asking
      BY DEF Asking
    <3>2. MutualExclusion'
      BY <1>a, <2>1, <3>1, SuspendMutex
    <3>3. TypeOK'
      BY <1>a, <2>0, <2>1, <3>1, SuspendTypes DEF TypeOK, HandOutNothing
    <3>4. GrantsAreDense' /\ UseFollowsGrants'
      BY <1>a, <2>0, <2>1 DEF IInv, TypeOK, GrantsAreDense, UseFollowsGrants, HandOutNothing, SuspendOn
    <3> QED BY <3>2, <3>3, <3>4
  <2>2. CASE currentNumber # Null /\ HandOut(c, currentNumber, grants)
    <3>1. /\ currentNumber \in Nat /\ grants \in Seq(Nat) /\ used \in SUBSET Nat
          /\ \A i \in DOMAIN grants : grants[i] = currentNumber - Len(grants) + i - 1
          /\ ~resynced' /\ ~misread' => \A n \in used : n < currentNumber
      BY <2>0, <2>2 DEF IInv, TypeOK, GrantsAreDense, UseFollowsGrants
    <3>2. GrantsAreDense' /\ UseFollowsGrants'
      BY <2>2, <3>1, HandOutDense, HandOutUse
    <3>3. MutualExclusion'
      BY <1>a, <2>2, ReturnMutex DEF HandOut
    <3>4. TypeOK'
      BY <1>a, <2>0, <2>2, <3>1, HandOutTypes DEF TypeOK
    <3> QED BY <3>2, <3>3, <3>4
  <2> QED BY <2>1, <2>2 DEF EnterNext
<1> USE DEF EnterNext, SuspendOn, HandOut, Return, ReturnValue, WindowFull, HandOutNothing, unchangedByEntry
<1>1. TypeOK'
  BY <1>b
<1>2. MutualExclusion'
  BY <1>b
<1>3. CallShape'
  BY DEF IInv, TypeOK, CallShape, NumberShape, MutualExclusion, Holders, Asking, Waiting
<1>4. NumberShape'
  BY DEF IInv, TypeOK, NumberShape, CallShape, MutualExclusion, Holders, Asking, Waiting
<1>5. ReadsBehindChain'
  BY DEF IInv, TypeOK, ReadsBehindChain, CallShape, Asking, Waiting
<1>6. WindowBounded'
  BY DEF IInv, TypeOK, WindowBounded, ReadsBehindChain, CallShape, NumberShape, Asking, Waiting
<1>7. GrantsAreDense'
  BY <1>b
<1>8. UseFollowsGrants'
  BY <1>b
<1>9. NextNumberIsFresh'
  BY DEF IInv, TypeOK, NextNumberIsFresh, UseFollowsGrants, CallShape, NumberShape, Asking, Waiting
<1> QED BY <1>1, <1>2, <1>3, <1>4, <1>5, <1>6, <1>7, <1>8, <1>9 DEF IInv

\* A synchronize that takes the lock.
LEMMA EnterSyncIInv ==
  ASSUME IInv, NEW c \in Callers, pc[c] \in {"idle", "polling"}, EnterSync(c), currentNumber # Null,
         op' = [op EXCEPT ![c] = "sync"], UNCHANGED unchangedByEntry
  PROVE  IInv'
<1> USE DEF EnterSync, SuspendOn, HandOutNothing, unchangedByEntry
<1>1. TypeOK'
  BY DEF IInv, TypeOK, Asking, Waiting
<1>2. MutualExclusion'
  BY DEF IInv, TypeOK, MutualExclusion, Holders, Asking, Waiting
<1>3. CallShape'
  BY DEF IInv, TypeOK, CallShape, NumberShape, MutualExclusion, Holders, Asking, Waiting
<1>4. NumberShape'
  BY DEF IInv, TypeOK, NumberShape, CallShape, MutualExclusion, Holders, Asking, Waiting
<1>5. ReadsBehindChain'
  BY DEF IInv, TypeOK, ReadsBehindChain, CallShape, Asking, Waiting
<1>6. WindowBounded'
  BY DEF IInv, TypeOK, WindowBounded, ReadsBehindChain, CallShape, NumberShape, Asking, Waiting
<1>7. GrantsAreDense'
  BY DEF IInv, TypeOK, GrantsAreDense, NumberShape, CallShape, Asking, Waiting
<1>8. UseFollowsGrants'
  BY DEF IInv, TypeOK, UseFollowsGrants, NumberShape, CallShape, Asking, Waiting
<1>9. NextNumberIsFresh'
  BY DEF IInv, TypeOK, NextNumberIsFresh, UseFollowsGrants, CallShape, NumberShape, Asking, Waiting
<1> QED BY <1>1, <1>2, <1>3, <1>4, <1>5, <1>6, <1>7, <1>8, <1>9 DEF IInv

\* The first read, of initialize().
LEMMA InitializedIInv ==
  ASSUME IInv, NEW c \in Callers, Initialized(c)
  PROVE  IInv'
<1>a. /\ c \in Holders /\ reply[c] \in Nat /\ grants = <<>>
      /\ lastUncommintedNumber' = reply[c]
  BY DEF IInv, TypeOK, CallShape, NumberShape, Initialized, StoreReply, Holders
<1>b. LockedStep
  <2>1. ProceedNext(c, reply[c], reply[c], grants, "updating") /\ "updating" \in Waiting \cup Asking
    BY DEF Initialized, Asking
  <2>2. grants \in Seq(Nat)
        /\ \A i \in DOMAIN grants : grants[i] = reply[c] - Len(grants) + i - 1
    BY <1>a
  <2> QED BY <1>a, <2>1, <2>2, ProceedNextStep DEF IInv
<1> USE DEF Initialized, ProceedNext, SuspendOn, HandOut, Return, ReturnValue, WindowFull, StoreReply
<1>1. TypeOK'
  BY <1>a, <1>b DEF LockedStep, IInv, TypeOK, Asking, Waiting
<1>2. MutualExclusion'
  BY <1>b DEF LockedStep
<1>3. CallShape'
  BY DEF IInv, TypeOK, CallShape, NumberShape, MutualExclusion, Holders, Asking, Waiting
<1>4. NumberShape'
  BY DEF IInv, TypeOK, NumberShape, CallShape, MutualExclusion, Holders, Asking, Waiting
<1>5. ReadsBehindChain'
  BY DEF IInv, TypeOK, ReadsBehindChain, CallShape, Asking, Waiting
<1>6. WindowBounded'
  BY DEF IInv, TypeOK, WindowBounded, ReadsBehindChain, CallShape, NumberShape, Asking, Waiting
<1>7. GrantsAreDense'
  BY <1>b DEF LockedStep
<1>8. UseFollowsGrants'
  BY DEF IInv, TypeOK, UseFollowsGrants, NumberShape, CallShape, Asking, Waiting
<1>9. NextNumberIsFresh'
  BY DEF IInv, TypeOK, NextNumberIsFresh, UseFollowsGrants, CallShape, NumberShape, Asking, Waiting
<1> QED BY <1>1, <1>2, <1>3, <1>4, <1>5, <1>6, <1>7, <1>8, <1>9 DEF IInv

\* The read before a wait loop.
LEMMA UpdatedIInv ==
  ASSUME IInv, NEW c \in Callers, Updated(c)
  PROVE  IInv'
<1>a. /\ c \in Holders /\ reply[c] \in Nat /\ currentNumber \in Nat /\ grants \in Seq(Nat)
      /\ lastUncommintedNumber' = reply[c]
      /\ op[c] \in {"next", "sync"}
      /\ "sleeping" \in Waiting \cup Asking
  BY DEF IInv, TypeOK, CallShape, Updated, StoreReply, Holders, Waiting
<1>b. LockedStep
  <2>1. \A i \in DOMAIN grants : grants[i] = currentNumber - Len(grants) + i - 1
    BY DEF IInv, GrantsAreDense
  <2>2. CASE op[c] = "next"
    BY <1>a, <2>1, <2>2, ProceedNextStep DEF IInv, Updated
  <2>3. CASE op[c] = "sync"
    BY <1>a, <2>1, <2>3, ProceedSyncStep DEF IInv, Updated
  <2> QED BY <1>a, <2>2, <2>3
<1>c. UseFollowsGrants'
  <2>1. CASE op[c] = "next"
    BY <1>a, <2>1, ProceedNextUse DEF IInv, Updated
  <2>2. CASE op[c] = "sync"
    BY <1>a, <2>2, ProceedSyncUse DEF IInv, Updated
  <2> QED BY <1>a, <2>1, <2>2
<1> USE DEF Updated, ProceedNext, SuspendOn, HandOut, Return, ReturnValue, WindowFull, StoreReply, ProceedSync, KeepTimer
<1>1. TypeOK'
  BY <1>a, <1>b DEF LockedStep, IInv, TypeOK, Asking, Waiting
<1>2. MutualExclusion'
  BY <1>b DEF LockedStep
<1>3. CallShape'
  BY DEF IInv, TypeOK, CallShape, NumberShape, MutualExclusion, Holders, Asking, Waiting
<1>4. NumberShape'
  BY DEF IInv, TypeOK, NumberShape, CallShape, MutualExclusion, Holders, Asking, Waiting
<1>5. ReadsBehindChain'
  BY DEF IInv, TypeOK, ReadsBehindChain, CallShape, Asking, Waiting
<1>6. WindowBounded'
  BY DEF IInv, TypeOK, WindowBounded, ReadsBehindChain, CallShape, NumberShape, Asking, Waiting
<1>7. GrantsAreDense'
  BY <1>b DEF LockedStep
<1>8. UseFollowsGrants'
  BY <1>c
<1>9. NextNumberIsFresh'
  BY DEF IInv, TypeOK, NextNumberIsFresh, UseFollowsGrants, CallShape, NumberShape, Asking, Waiting
<1> QED BY <1>1, <1>2, <1>3, <1>4, <1>5, <1>6, <1>7, <1>8, <1>9 DEF IInv

\* A read inside a wait loop.
LEMMA RefreshedIInv ==
  ASSUME IInv, NEW c \in Callers, Refreshed(c)
  PROVE  IInv'
<1>a. /\ c \in Holders /\ reply[c] \in Nat /\ currentNumber \in Nat /\ grants \in Seq(Nat)
      /\ lastUncommintedNumber' = reply[c]
      /\ op[c] \in {"next", "sync"}
      /\ "sleeping" \in Waiting \cup Asking
  BY DEF IInv, TypeOK, CallShape, Refreshed, StoreReply, Holders, Waiting
<1>b. LockedStep
  <2>1. \A i \in DOMAIN grants : grants[i] = currentNumber - Len(grants) + i - 1
    BY DEF IInv, GrantsAreDense
  <2>2. CASE op[c] = "next"
    BY <1>a, <2>1, <2>2, ProceedNextStep DEF IInv, Refreshed
  <2>3. CASE op[c] = "sync"
    BY <1>a, <2>1, <2>3, ProceedSyncStep DEF IInv, Refreshed
  <2> QED BY <1>a, <2>2, <2>3
<1>c. UseFollowsGrants'
  <2>1. CASE op[c] = "next"
    BY <1>a, <2>1, ProceedNextUse DEF IInv, Refreshed
  <2>2. CASE op[c] = "sync"
    BY <1>a, <2>2, ProceedSyncUse DEF IInv, Refreshed
  <2> QED BY <1>a, <2>1, <2>2
<1> USE DEF Refreshed, ProceedNext, SuspendOn, HandOut, Return, ReturnValue, WindowFull, StoreReply, ProceedSync, KeepTimer
<1>1. TypeOK'
  BY <1>a, <1>b DEF LockedStep, IInv, TypeOK, Asking, Waiting
<1>2. MutualExclusion'
  BY <1>b DEF LockedStep
<1>3. CallShape'
  BY DEF IInv, TypeOK, CallShape, NumberShape, MutualExclusion, Holders, Asking, Waiting
<1>4. NumberShape'
  BY DEF IInv, TypeOK, NumberShape, CallShape, MutualExclusion, Holders, Asking, Waiting
<1>5. ReadsBehindChain'
  BY DEF IInv, TypeOK, ReadsBehindChain, CallShape, Asking, Waiting
<1>6. WindowBounded'
  BY DEF IInv, TypeOK, WindowBounded, ReadsBehindChain, CallShape, NumberShape, Asking, Waiting
<1>7. GrantsAreDense'
  BY <1>b DEF LockedStep
<1>8. UseFollowsGrants'
  BY <1>c
<1>9. NextNumberIsFresh'
  BY DEF IInv, TypeOK, NextNumberIsFresh, UseFollowsGrants, CallShape, NumberShape, Asking, Waiting
<1> QED BY <1>1, <1>2, <1>3, <1>4, <1>5, <1>6, <1>7, <1>8, <1>9 DEF IInv

\* The resync of a wait loop.
LEMMA ResyncedIInv ==
  ASSUME IInv, NEW c \in Callers, Resynced(c)
  PROVE  IInv'
<1>a. /\ c \in Holders /\ reply[c] \in Nat /\ currentNumber \in Nat /\ grants \in Seq(Nat)
      /\ lastUncommintedNumber' = reply[c]
      /\ op[c] \in {"next", "sync"}
      /\ "sleeping" \in Waiting \cup Asking
  BY DEF IInv, TypeOK, CallShape, Resynced, StoreReply, Holders, Waiting
<1>b. LockedStep
  <2>1. \A i \in DOMAIN <<>> : <<>>[i] = reply[c] - Len(<<>>) + i - 1
    BY DEF IInv, GrantsAreDense
  <2>0. <<>> \in Seq(Nat)
    OBVIOUS
  <2>2. CASE op[c] = "next"
    BY <1>a, <2>0, <2>1, <2>2, ProceedNextStep DEF IInv, Resynced
  <2>3. CASE op[c] = "sync"
    BY <1>a, <2>0, <2>1, <2>3, ProceedSyncStep DEF IInv, Resynced
  <2> QED BY <1>a, <2>2, <2>3
<1> USE DEF Resynced, ProceedNext, SuspendOn, HandOut, Return, ReturnValue, WindowFull, StoreReply, ProceedSync, KeepTimer
<1>1. TypeOK'
  BY <1>a, <1>b DEF LockedStep, IInv, TypeOK, Asking, Waiting
<1>2. MutualExclusion'
  BY <1>b DEF LockedStep
<1>3. CallShape'
  BY DEF IInv, TypeOK, CallShape, NumberShape, MutualExclusion, Holders, Asking, Waiting
<1>4. NumberShape'
  BY DEF IInv, TypeOK, NumberShape, CallShape, MutualExclusion, Holders, Asking, Waiting
<1>5. ReadsBehindChain'
  BY DEF IInv, TypeOK, ReadsBehindChain, CallShape, Asking, Waiting
<1>6. WindowBounded'
  BY DEF IInv, TypeOK, WindowBounded, ReadsBehindChain, CallShape, NumberShape, Asking, Waiting
<1>7. GrantsAreDense'
  BY <1>b DEF LockedStep
<1>8. UseFollowsGrants'
  BY DEF IInv, TypeOK, UseFollowsGrants, NumberShape, CallShape, Asking, Waiting
<1>9. NextNumberIsFresh'
  BY DEF IInv, TypeOK, NextNumberIsFresh, UseFollowsGrants, CallShape, NumberShape, Asking, Waiting
<1> QED BY <1>1, <1>2, <1>3, <1>4, <1>5, <1>6, <1>7, <1>8, <1>9 DEF IInv

\* The end of a sleep.
LEMMA WakeUpIInv ==
  ASSUME IInv, NEW c \in Callers, WakeUp(c)
  PROVE  IInv'
<1> USE DEF WakeUp, SuspendOn, numberVars, historyVars
<1>1. TypeOK'
  BY DEF IInv, TypeOK, Asking, Waiting
<1>2. MutualExclusion'
  BY DEF IInv, TypeOK, MutualExclusion, Holders, Asking, Waiting
<1>3. CallShape'
  BY DEF IInv, TypeOK, CallShape, NumberShape, MutualExclusion, Holders, Asking, Waiting
<1>4. NumberShape'
  BY DEF IInv, TypeOK, NumberShape, CallShape, MutualExclusion, Holders, Asking, Waiting
<1>5. ReadsBehindChain'
  BY DEF IInv, TypeOK, ReadsBehindChain, CallShape, Asking, Waiting
<1>6. WindowBounded'
  BY DEF IInv, TypeOK, WindowBounded, ReadsBehindChain, CallShape, NumberShape, Asking, Waiting
<1>7. GrantsAreDense'
  BY DEF IInv, TypeOK, GrantsAreDense, NumberShape, CallShape, Asking, Waiting
<1>8. UseFollowsGrants'
  BY DEF IInv, TypeOK, UseFollowsGrants, NumberShape, CallShape, Asking, Waiting
<1>9. NextNumberIsFresh'
  BY DEF IInv, TypeOK, NextNumberIsFresh, UseFollowsGrants, CallShape, NumberShape, Asking, Waiting
<1> QED BY <1>1, <1>2, <1>3, <1>4, <1>5, <1>6, <1>7, <1>8, <1>9 DEF IInv

\* A failing read.
LEMMA GetInfoFailedIInv ==
  ASSUME IInv, NEW c \in Callers, GetInfoFailed(c)
  PROVE  IInv'
<1>a. c \in Holders
  BY DEF IInv, TypeOK, CallShape, GetInfoFailed, Holders, Asking
<1>b. MutualExclusion'
  BY <1>a, ReturnMutex DEF IInv, GetInfoFailed
<1> USE DEF GetInfoFailed, Return, ReturnValue, KeepTimer
<1>1. TypeOK'
  <2>1. used' \in SUBSET Nat /\ result' \in [Callers -> Nat \cup {Null}] /\ misread' \in BOOLEAN
    <3>1. CASE op[c] = "next" /\ ReturnValue(c, 0) /\ misread' = TRUE
      BY <3>1 DEF IInv, TypeOK
    <3>2. CASE UNCHANGED <<result, used, misread>>
      BY <3>2 DEF IInv, TypeOK
    <3> QED BY <3>1, <3>2
  <2>2. elapsed' \in [Callers -> 0 .. (maxWaitTime + 1)]
    BY DEF IInv, TypeOK
  <2>3. /\ pc' \in [Callers -> {"idle", "polling"} \cup Waiting \cup Asking]
        /\ request' \in [Callers -> {"none", "asked", "answered", "failed"}]
        /\ reply' \in [Callers -> Nat] /\ lock' \in BOOLEAN
    BY DEF IInv, TypeOK
  <2> QED BY <2>1, <2>2, <2>3 DEF IInv, TypeOK
<1>2. MutualExclusion'
  BY <1>b
<1>3. CallShape'
  BY DEF IInv, TypeOK, CallShape, NumberShape, MutualExclusion, Holders, Asking, Waiting
<1>4. NumberShape'
  BY DEF IInv, TypeOK, NumberShape, CallShape, MutualExclusion, Holders, Asking, Waiting
<1>5. ReadsBehindChain'
  BY DEF IInv, TypeOK, ReadsBehindChain, CallShape, Asking, Waiting
<1>6. WindowBounded'
  BY DEF IInv, TypeOK, WindowBounded, ReadsBehindChain, CallShape, NumberShape, Asking, Waiting
<1>7. GrantsAreDense'
  BY DEF IInv, TypeOK, GrantsAreDense, NumberShape, CallShape, Asking, Waiting
<1>8. UseFollowsGrants'
  BY DEF IInv, TypeOK, UseFollowsGrants, NumberShape, CallShape, Asking, Waiting
<1>9. NextNumberIsFresh'
  BY DEF IInv, TypeOK, NextNumberIsFresh, UseFollowsGrants, CallShape, NumberShape, Asking, Waiting
<1> QED BY <1>1, <1>2, <1>3, <1>4, <1>5, <1>6, <1>7, <1>8, <1>9 DEF IInv

\* The node's answer.
LEMMA AnswerIInv ==
  ASSUME IInv, NEW c \in Callers, Answer(c)
  PROVE  IInv'
<1> USE DEF Answer, numberVars, historyVars
<1>1. TypeOK'
  BY DEF IInv, TypeOK, Asking, Waiting
<1>2. MutualExclusion'
  BY DEF IInv, TypeOK, MutualExclusion, Holders, Asking, Waiting
<1>3. CallShape'
  BY DEF IInv, TypeOK, CallShape, NumberShape, MutualExclusion, Holders, Asking, Waiting
<1>4. NumberShape'
  BY DEF IInv, TypeOK, NumberShape, CallShape, MutualExclusion, Holders, Asking, Waiting
<1>5. ReadsBehindChain'
  BY DEF IInv, TypeOK, ReadsBehindChain, CallShape, Asking, Waiting
<1>6. WindowBounded'
  BY DEF IInv, TypeOK, WindowBounded, ReadsBehindChain, CallShape, NumberShape, Asking, Waiting
<1>7. GrantsAreDense'
  BY DEF IInv, TypeOK, GrantsAreDense, NumberShape, CallShape, Asking, Waiting
<1>8. UseFollowsGrants'
  BY DEF IInv, TypeOK, UseFollowsGrants, NumberShape, CallShape, Asking, Waiting
<1>9. NextNumberIsFresh'
  BY DEF IInv, TypeOK, NextNumberIsFresh, UseFollowsGrants, CallShape, NumberShape, Asking, Waiting
<1> QED BY <1>1, <1>2, <1>3, <1>4, <1>5, <1>6, <1>7, <1>8, <1>9 DEF IInv

\* A request that fails.
LEMMA FailIInv ==
  ASSUME IInv, NEW c \in Callers, Fail(c)
  PROVE  IInv'
<1> USE DEF Fail, numberVars, historyVars
<1>1. TypeOK'
  BY DEF IInv, TypeOK, Asking, Waiting
<1>2. MutualExclusion'
  BY DEF IInv, TypeOK, MutualExclusion, Holders, Asking, Waiting
<1>3. CallShape'
  BY DEF IInv, TypeOK, CallShape, NumberShape, MutualExclusion, Holders, Asking, Waiting
<1>4. NumberShape'
  BY DEF IInv, TypeOK, NumberShape, CallShape, MutualExclusion, Holders, Asking, Waiting
<1>5. ReadsBehindChain'
  BY DEF IInv, TypeOK, ReadsBehindChain, CallShape, Asking, Waiting
<1>6. WindowBounded'
  BY DEF IInv, TypeOK, WindowBounded, ReadsBehindChain, CallShape, NumberShape, Asking, Waiting
<1>7. GrantsAreDense'
  BY DEF IInv, TypeOK, GrantsAreDense, NumberShape, CallShape, Asking, Waiting
<1>8. UseFollowsGrants'
  BY DEF IInv, TypeOK, UseFollowsGrants, NumberShape, CallShape, Asking, Waiting
<1>9. NextNumberIsFresh'
  BY DEF IInv, TypeOK, NextNumberIsFresh, UseFollowsGrants, CallShape, NumberShape, Asking, Waiting
<1> QED BY <1>1, <1>2, <1>3, <1>4, <1>5, <1>6, <1>7, <1>8, <1>9 DEF IInv

\* A commit.
LEMMA CommitIInv ==
  ASSUME IInv, Commit
  PROVE  IInv'
<1> USE DEF Commit, numberVars, historyVars, callVars
<1>1. TypeOK'
  BY DEF IInv, TypeOK, Asking, Waiting
<1>2. MutualExclusion'
  BY DEF IInv, TypeOK, MutualExclusion, Holders, Asking, Waiting
<1>3. CallShape'
  BY DEF IInv, TypeOK, CallShape, NumberShape, MutualExclusion, Holders, Asking, Waiting
<1>4. NumberShape'
  BY DEF IInv, TypeOK, NumberShape, CallShape, MutualExclusion, Holders, Asking, Waiting
<1>5. ReadsBehindChain'
  BY DEF IInv, TypeOK, ReadsBehindChain, CallShape, Asking, Waiting
<1>6. WindowBounded'
  BY DEF IInv, TypeOK, WindowBounded, ReadsBehindChain, CallShape, NumberShape, Asking, Waiting
<1>7. GrantsAreDense'
  BY DEF IInv, TypeOK, GrantsAreDense, NumberShape, CallShape, Asking, Waiting
<1>8. UseFollowsGrants'
  BY DEF IInv, TypeOK, UseFollowsGrants, NumberShape, CallShape, Asking, Waiting
<1>9. NextNumberIsFresh'
  BY DEF IInv, TypeOK, NextNumberIsFresh, UseFollowsGrants, CallShape, NumberShape, Asking, Waiting
<1> QED BY <1>1, <1>2, <1>3, <1>4, <1>5, <1>6, <1>7, <1>8, <1>9 DEF IInv

\* The passing of time.
LEMMA TickIInv ==
  ASSUME IInv, Tick
  PROVE  IInv'
<1> USE DEF Tick, numberVars, historyVars
<1>1. TypeOK'
  BY DEF IInv, TypeOK, Asking, Waiting
<1>2. MutualExclusion'
  BY DEF IInv, TypeOK, MutualExclusion, Holders, Asking, Waiting
<1>3. CallShape'
  BY DEF IInv, TypeOK, CallShape, NumberShape, MutualExclusion, Holders, Asking, Waiting
<1>4. NumberShape'
  BY DEF IInv, TypeOK, NumberShape, CallShape, MutualExclusion, Holders, Asking, Waiting
<1>5. ReadsBehindChain'
  BY DEF IInv, TypeOK, ReadsBehindChain, CallShape, Asking, Waiting
<1>6. WindowBounded'
  BY DEF IInv, TypeOK, WindowBounded, ReadsBehindChain, CallShape, NumberShape, Asking, Waiting
<1>7. GrantsAreDense'
  BY DEF IInv, TypeOK, GrantsAreDense, NumberShape, CallShape, Asking, Waiting
<1>8. UseFollowsGrants'
  BY DEF IInv, TypeOK, UseFollowsGrants, NumberShape, CallShape, Asking, Waiting
<1>9. NextNumberIsFresh'
  BY DEF IInv, TypeOK, NextNumberIsFresh, UseFollowsGrants, CallShape, NumberShape, Asking, Waiting
<1> QED BY <1>1, <1>2, <1>3, <1>4, <1>5, <1>6, <1>7, <1>8, <1>9 DEF IInv

\* A call of nextSequenceNumber, whatever it finds.
LEMMA CallNextIInv ==
  ASSUME IInv, NEW c \in Callers, nextSequenceNumber(c)
  PROVE  IInv'
<1>1. pc[c] \in {"idle", "polling"} /\ op' = [op EXCEPT ![c] = "next"] /\ UNCHANGED unchangedByEntry
  BY DEF nextSequenceNumber
<1>2. CASE PollLock(c)
  BY <1>1, <1>2, PollLockIInv
<1>3. CASE EnterNext(c)
  BY <1>1, <1>3, EnterNextIInv
<1> QED BY <1>2, <1>3 DEF nextSequenceNumber

\* A call of synchronize: its numbers differ, so neither is null.
LEMMA CallSyncIInv ==
  ASSUME IInv, NEW c \in Callers, synchronize(c)
  PROVE  IInv'
<1>1. /\ pc[c] \in {"idle", "polling"} /\ op' = [op EXCEPT ![c] = "sync"]
      /\ UNCHANGED unchangedByEntry /\ currentNumber # Null
  BY DEF synchronize, IInv, NumberShape
<1>2. CASE PollLock(c)
  BY <1>1, <1>2, PollLockIInv
<1>3. CASE EnterSync(c)
  BY <1>1, <1>3, EnterSyncIInv
<1> QED BY <1>2, <1>3 DEF synchronize

\* A coroutine that stops polling the lock.
LEMMA TakeLockIInv ==
  ASSUME IInv, NEW c \in Callers, TakeLock(c)
  PROVE  IInv'
<1>1. pc[c] = "polling" /\ op' = op /\ UNCHANGED unchangedByEntry /\ op \in [Callers -> {"next", "sync"}]
  BY DEF TakeLock, IInv, TypeOK
<1>2. CASE op[c] = "next" /\ EnterNext(c)
  <2>1. op' = [op EXCEPT ![c] = "next"]
    BY <1>1, <1>2
  <2> QED BY <1>1, <1>2, <2>1, EnterNextIInv
<1>3. CASE op[c] = "sync" /\ EnterSync(c)
  <2>1. op' = [op EXCEPT ![c] = "sync"] /\ currentNumber # Null
    BY <1>1, <1>3 DEF IInv, CallShape
  <2> QED BY <1>1, <1>3, <2>1, EnterSyncIInv
<1> QED BY <1>2, <1>3 DEF TakeLock

\* Every step keeps the inductive invariant.
LEMMA StepIInv ==
  ASSUME IInv, [Next]_vars
  PROVE  IInv'
<1>1. ASSUME NEW c \in Callers, Call(c) PROVE IInv'
  BY <1>1, CallNextIInv, CallSyncIInv DEF Call
<1>2. ASSUME NEW c \in Callers, Step(c) PROVE IInv'
  BY <1>2, TakeLockIInv, InitializedIInv, UpdatedIInv, RefreshedIInv, ResyncedIInv,
     WakeUpIInv, GetInfoFailedIInv DEF Step
<1>3. ASSUME NEW c \in Callers, Network(c) PROVE IInv'
  BY <1>3, AnswerIInv, FailIInv DEF Network
<1>4. CASE Commit
  BY <1>4, CommitIInv
<1>5. CASE Tick
  BY <1>5, TickIInv
<1>6. CASE UNCHANGED vars
  BY <1>6 DEF vars, numberVars, historyVars, callVars, IInv, TypeOK, MutualExclusion, Holders,
     CallShape, NumberShape, ReadsBehindChain, WindowBounded, GrantsAreDense,
     UseFollowsGrants, NextNumberIsFresh
<1> QED BY <1>1, <1>2, <1>3, <1>4, <1>5, <1>6 DEF Next

\* The inductive invariant holds in every reachable state.
THEOREM Invariance == Spec => []IInv
  BY InitIInv, StepIInv, PTL DEF Spec

\* Every variable keeps its type.
THEOREM TypeCorrectness == Spec => []TypeOK
  BY Invariance, PTL DEF IInv

\* The lock excludes, for any number of coroutines: the test and the
\* assignment of `lock` are in one uninterrupted piece of code.
THEOREM MutualExclusionHolds == Spec => []MutualExclusion
  BY Invariance, PTL DEF IInv

\* The window of maximumInFlight numbers beyond the chain is never exceeded.
THEOREM WindowBoundedHolds == Spec => []WindowBounded
  BY Invariance, PTL DEF IInv

\* Between two resyncs no number is handed out twice and none is skipped.
THEOREM GrantsAreDenseHolds == Spec => []GrantsAreDense
  BY Invariance, PTL DEF IInv

\* Until a wait times out or a read fails, no committed number is handed out.
THEOREM NextNumberIsFreshHolds == Spec => []NextNumberIsFresh
  BY Invariance, PTL DEF IInv

\* Both: the numbers of one object follow on each other and on the chain's.
THEOREM NumbersFollowOnHolds == Spec => []NumbersFollowOn
<1>1. GrantsAreDense /\ NextNumberIsFresh => NumbersFollowOn
  BY DEF NumbersFollowOn
<1> QED
  BY <1>1, GrantsAreDenseHolds, NextNumberIsFreshHolds, PTL

\* A step of a coroutine that is in nextSequenceNumber touches no other one, and
\* a number it returns is new unless something was resynced or misread.
LEMMA NextStep ==
  ASSUME IInv, NEW c \in Callers, nextSequenceNumber(c) \/ (op[c] = "next" /\ Step(c))
  PROVE  /\ op'[c] = "next"
         /\ \A d \in Callers \ {c} : op'[d] = op[d] /\ pc'[d] = pc[d] /\ result'[d] = result[d]
         /\ used \subseteq used' /\ chainSequence' = chainSequence
         /\ \/ result'[c] = result[c] /\ pc'[c] # "idle" /\ used' = used
            \/ /\ result'[c] \in used' /\ result'[c] \in Nat /\ used' = used \cup {result'[c]}
               /\ ~resynced' /\ ~misread' => result'[c] \notin used
         /\ resynced \/ misread => resynced' \/ misread'
<1> DEFINE Others == \A d \in Callers \ {c} : op'[d] = op[d] /\ pc'[d] = pc[d] /\ result'[d] = result[d]
           Fresh == ~resynced' /\ ~misread' => result'[c] \notin used
           Returned == /\ Others /\ result'[c] \in Nat /\ used' = used \cup {result'[c]}
           Waits == /\ Others /\ UNCHANGED <<result, used>> /\ pc'[c] # "idle"
<1>0. /\ op \in [Callers -> {"next", "sync"}] /\ result \in [Callers -> Nat \cup {Null}]
      /\ pc \in [Callers -> {"idle", "polling"} \cup Waiting \cup Asking]
      /\ reply \in [Callers -> Nat] /\ used \in SUBSET Nat /\ currentNumber \in Nat \cup {Null}
      /\ resynced \in BOOLEAN /\ misread \in BOOLEAN
  BY DEF IInv, TypeOK
<1>1. ASSUME NEW where \in {"polling"} \cup Waiting \cup Asking, SuspendOn(c, where),
             UNCHANGED <<result, used>>, op' = op \/ op' = [op EXCEPT ![c] = "next"]
      PROVE  Waits
  <2>1. where # "idle"
    BY DEF Waiting, Asking
  <2> QED BY <1>0, <1>1, <2>1 DEF SuspendOn
<1>2. ASSUME NEW current \in Nat, NEW reserved, HandOut(c, current, reserved),
             op' = op \/ op' = [op EXCEPT ![c] = "next"]
      PROVE  Returned /\ result'[c] = current
  BY <1>0, <1>2 DEF HandOut, ReturnValue, Return
<1>3. currentNumber # Null /\ ~resynced /\ ~misread => currentNumber \notin used
  BY <1>0 DEF IInv, UseFollowsGrants
<1>4. ASSUME NEW current \in Nat, NEW last, NEW reserved, NEW where \in Waiting \cup Asking,
             op' = op, ProceedNext(c, last, current, reserved, where)
      PROVE  Waits \/ (Returned /\ result'[c] = current)
  BY <1>1, <1>2, <1>4 DEF ProceedNext
<1>5. ASSUME EnterNext(c), op' = [op EXCEPT ![c] = "next"] \/ op' = op,
             UNCHANGED unchangedByEntry
      PROVE  Waits \/ (Returned /\ Fresh)
  <2>1. CASE SuspendOn(c, "initializing") /\ HandOutNothing
    BY <1>1, <1>5, <2>1 DEF HandOutNothing, Asking
  <2>2. CASE SuspendOn(c, "updating") /\ HandOutNothing
    BY <1>1, <1>5, <2>2 DEF HandOutNothing, Asking
  <2>3. CASE currentNumber # Null /\ HandOut(c, currentNumber, grants)
    BY <1>0, <1>2, <1>3, <1>5, <2>3 DEF unchangedByEntry
  <2> QED BY <1>5, <2>1, <2>2, <2>3 DEF EnterNext
<1>6. CASE nextSequenceNumber(c)
  <2>1. op'[c] = "next" /\ op' = [op EXCEPT ![c] = "next"] /\ UNCHANGED unchangedByEntry
    BY <1>0, <1>6 DEF nextSequenceNumber
  <2>2. CASE PollLock(c)
    BY <1>0, <1>1, <2>1, <2>2 DEF PollLock, HandOutNothing, unchangedByEntry
  <2>3. CASE EnterNext(c)
    BY <1>0, <1>5, <2>1, <2>3 DEF unchangedByEntry
  <2> QED BY <1>6, <2>2, <2>3 DEF nextSequenceNumber
<1>7. CASE op[c] = "next" /\ TakeLock(c)
  BY <1>0, <1>5, <1>7 DEF TakeLock, unchangedByEntry
<1>8. CASE op[c] = "next" /\ Initialized(c)
  <2>1. currentNumber = Null /\ reply[c] \in Nat /\ op' = op
        /\ UNCHANGED <<chainSequence, resynced, misread>>
    BY <1>0, <1>8 DEF IInv, CallShape, Initialized
  <2>2. ~resynced /\ ~misread => used = {}
    BY <2>1 DEF IInv, UseFollowsGrants
  <2> QED BY <1>0, <1>4, <1>8, <2>1, <2>2 DEF Initialized, Asking
<1>9. CASE op[c] = "next" /\ (Updated(c) \/ Refreshed(c))
  <2>1. currentNumber # Null /\ op' = op /\ UNCHANGED <<chainSequence, resynced, misread>>
        /\ ProceedNext(c, reply[c], currentNumber, grants, "sleeping")
    BY <1>9 DEF IInv, CallShape, Updated, Refreshed, Waiting
  <2> QED BY <1>0, <1>3, <1>4, <1>9, <2>1 DEF Waiting
<1>10. CASE op[c] = "next" /\ Resynced(c)
  <2>1. reply[c] \in Nat /\ op' = op /\ UNCHANGED <<chainSequence, misread>> /\ resynced'
        /\ ProceedNext(c, reply[c], reply[c], <<>>, "sleeping")
    BY <1>0, <1>10 DEF Resynced
  <2> QED BY <1>0, <1>4, <1>10, <2>1 DEF Waiting
<1>11. CASE op[c] = "next" /\ WakeUp(c)
  <2> DEFINE where == IF op[c] = "next" /\ elapsed[c] > maxWaitTime THEN "resyncing" ELSE "refreshing"
  <2>1. where \in Waiting /\ SuspendOn(c, where) /\ op' = op
        /\ UNCHANGED <<result, used, chainSequence, resynced, misread>>
    BY <1>11 DEF WakeUp, Waiting, historyVars
  <2> HIDE DEF where
  <2> QED BY <1>0, <1>1, <1>11, <2>1
<1>12. CASE op[c] = "next" /\ GetInfoFailed(c)
  BY <1>0, <1>12 DEF GetInfoFailed, Return, ReturnValue
<1> QED BY <1>6, <1>7, <1>8, <1>9, <1>10, <1>11, <1>12 DEF Step

\* A coroutine other than the lock's holder hands out nothing.
LEMMA OthersHandOutNothing ==
  ASSUME IInv, NEW c \in Holders, NEW d \in Callers, d # c, Call(d) \/ Step(d) \/ Network(d)
  PROVE  UNCHANGED <<used, result>>
<1>1. lock /\ d \notin Holders
  BY DEF IInv, MutualExclusion, Holders
<1>2. pc[d] \in {"idle", "polling"} /\ request[d] = "none"
  BY <1>1 DEF IInv, TypeOK, CallShape, Holders, Asking
<1>3. CASE Call(d)
  BY <1>1, <1>3 DEF Call, nextSequenceNumber, synchronize, EnterNext, EnterSync, PollLock, HandOutNothing
<1>4. CASE Step(d)
  BY <1>1, <1>2, <1>4 DEF Step, TakeLock, EnterNext, EnterSync, Initialized, Updated, Refreshed,
     Resynced, WakeUp, GetInfoFailed
<1>5. CASE Network(d)
  BY <1>2, <1>5 DEF Network, Answer, Fail
<1> QED BY <1>3, <1>4, <1>5

\* synchronize is a barrier for nextSequenceNumber.
THEOREM SynchronizeIsBarrierHolds == Spec => SynchronizeIsBarrier
<1> DEFINE Barrier == \A c \in Callers :
       op[c] = "sync" /\ c \in Holders /\ c \in Holders' => UNCHANGED <<used, result>>
<1>1. IInv /\ [Next]_vars => [Barrier]_vars
  <2> SUFFICES ASSUME IInv, Next, NEW c \in Callers, op[c] = "sync", c \in Holders
               PROVE  UNCHANGED <<used, result>>
    OBVIOUS
  <2>1. ASSUME NEW d \in Callers, d # c, Call(d) \/ Step(d) \/ Network(d)
        PROVE  UNCHANGED <<used, result>>
    BY <2>1, OthersHandOutNothing
  <2>2. CASE Call(c)
    BY <2>2 DEF Call, nextSequenceNumber, synchronize, Holders
  <2>3. CASE Network(c)
    BY <2>3 DEF Network, Answer, Fail, historyVars
  <2>4. CASE Step(c)
    <3>1. pc[c] # "polling" /\ pc[c] # "initializing"
      BY DEF IInv, CallShape, Holders
    <3> QED BY <2>4, <3>1 DEF Step, TakeLock, Initialized, Updated, Refreshed, Resynced, WakeUp,
            GetInfoFailed, ProceedSync, historyVars
  <2>5. CASE Commit \/ Tick
    BY <2>5 DEF Commit, Tick, historyVars, callVars
  <2> QED BY <2>1, <2>2, <2>3, <2>4, <2>5 DEF Next
<1> QED BY <1>1, Invariance, PTL DEF Spec, SynchronizeIsBarrier
=============================================================================
