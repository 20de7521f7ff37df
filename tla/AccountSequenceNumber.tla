----------------------- MODULE AccountSequenceNumber -----------------------
(***************************************************************************)
(* AccountSequenceNumber (transactions/management/accountSequenceNumber.ts *)
(* ): the distribution of one account's sequence numbers to coroutines.    *)
(*                                                                         *)
(* A coroutine runs without interruption from one await to the next, so an *)
(* action is the code between two awaits, everything it assigns included.  *)
(* pc says which await the coroutine is suspended on:                      *)
(*   idle          in no method                                            *)
(*   polling       the sleep of the `while (this.lock)` loop               *)
(*   initializing  getInfo of the first initialize()      (next only)      *)
(*   updating      getInfo of the update() before the wait loop            *)
(*   sleeping      the sleep of the wait loop                              *)
(*   refreshing    getInfo of the update() inside the wait loop            *)
(*   resyncing     getInfo of the initialize() inside the wait loop        *)
(* A getInfo is answered by the node with the sequence number it has then; *)
(* the coroutine sees the answer later (the reply can be stale).           *)
(***************************************************************************)
EXTENDS Integers, Sequences

CONSTANTS Callers,          \* the coroutines that call the two methods
          Null,             \* null
          maximumInFlight,  \* numbers handed out beyond the committed one
          maxWaitTime,      \* seconds of waiting before a resync
          StartNumbers,     \* the account's number on chain at the start
          MaxNumber         \* bound: no call starts once this number is reached

ASSUME NullAssumption == Null \notin Int
ASSUME InFlightAssumption == maximumInFlight \in Nat \ {0}
ASSUME WaitAssumption == maxWaitTime \in Nat
ASSUME StartAssumption == StartNumbers \subseteq Nat
ASSUME MaxNumberAssumption == MaxNumber \in Nat

VARIABLES
    lastUncommintedNumber,  \* the on-chain number last read, or Null
    currentNumber,          \* the next number to hand out, or Null
    lock,                   \* the flag the methods poll
    op,                     \* the method each coroutine is in, or was last in
    pc,                     \* the await each coroutine is suspended on
    request, reply,         \* the state of its getInfo and the node's answer
    elapsed,                \* now() - startTime, up to one more than the limit
    result,                 \* what nextSequenceNumber returned last, or Null
    chainSequence,          \* the account's sequence number on chain
    used,                   \* history: the numbers nextSequenceNumber returned
    grants,                 \* history: the numbers reserved since the last resync
    resynced,               \* history: a wait timed out and was resynced
    misread                 \* history: a nextSequenceNumber met a failing getInfo

numberVars == <<lastUncommintedNumber, currentNumber, lock>>
historyVars == <<used, grants, resynced, misread>>
callVars == <<op, pc, request, reply, elapsed, result>>
vars == <<numberVars, historyVars, callVars, chainSequence>>

Waiting == {"sleeping", "refreshing", "resyncing"}
Asking == {"initializing", "updating", "refreshing", "resyncing"}

\* The coroutines between their `this.lock = true` and `this.lock = false`.
Holders == {c \in Callers : pc[c] \notin {"idle", "polling"}}

TypeOK ==
    /\ lastUncommintedNumber \in Nat \cup {Null}
    /\ currentNumber \in Nat \cup {Null}
    /\ lock \in BOOLEAN
    /\ op \in [Callers -> {"next", "sync"}]
    /\ pc \in [Callers -> {"idle", "polling"} \cup Waiting \cup Asking]
    /\ request \in [Callers -> {"none", "asked", "answered", "failed"}]
    /\ reply \in [Callers -> Nat]
    /\ elapsed \in [Callers -> 0 .. (maxWaitTime + 1)]
    /\ result \in [Callers -> Nat \cup {Null}]
    /\ chainSequence \in Nat
    /\ used \in SUBSET Nat
    /\ grants \in Seq(Nat)
    /\ resynced \in BOOLEAN
    /\ misread \in BOOLEAN
-----------------------------------------------------------------------------
InitWith(s) ==
    /\ lastUncommintedNumber = Null
    /\ currentNumber = Null
    /\ lock = FALSE
    /\ op = [c \in Callers |-> "next"]
    /\ pc = [c \in Callers |-> "idle"]
    /\ request = [c \in Callers |-> "none"]
    /\ reply = [c \in Callers |-> 0]
    /\ elapsed = [c \in Callers |-> 0]
    /\ result = [c \in Callers |-> Null]
    /\ chainSequence = s
    /\ used = {}
    /\ grants = <<>>
    /\ resynced = FALSE
    /\ misread = FALSE

\* The account may be new (0) or have a history.
Init == \E s \in StartNumbers : InitWith(s)
-----------------------------------------------------------------------------
\* Where a coroutine is suspended after a step.
SuspendOn(c, where) ==
    /\ pc' = [pc EXCEPT ![c] = where]
    /\ request' = [request EXCEPT ![c] = IF where \in Asking THEN "asked" ELSE "none"]
    /\ reply' = [reply EXCEPT ![c] = 0]

\* The end of a method: finally { this.lock = false }.
Return(c) ==
    /\ pc' = [pc EXCEPT ![c] = "idle"]
    /\ request' = [request EXCEPT ![c] = "none"]
    /\ reply' = [reply EXCEPT ![c] = 0]
    /\ lock' = FALSE

\* startTime is a local of the wait loop.
KeepTimer(c) ==
    elapsed' = [elapsed EXCEPT ![c] = IF pc'[c] \in Waiting THEN @ ELSE 0]

\* The value nextSequenceNumber returns.
ReturnValue(c, number) ==
    /\ result' = [result EXCEPT ![c] = number]
    /\ used' = used \cup {number}

\* Mutant: one number too many in flight.
WindowFull_OffByOne(last, current) == current - last > maximumInFlight

WindowFull(last, current) == current - last >= maximumInFlight

\* `nextNumber = this.currentNumber; this.currentNumber += 1` and the return,
\* which follow the window test with no await between them.
HandOut(c, current, reserved) ==
    /\ currentNumber' = current + 1
    /\ grants' = Append(reserved, current)
    /\ ReturnValue(c, current)
    /\ Return(c)

\* No number is handed out in this step.
HandOutNothing == UNCHANGED <<grants, used, result>>

\* nextSequenceNumber from the moment it finds the lock free.
EnterNext(c) ==
    /\ ~lock
    /\ \/ /\ lastUncommintedNumber = Null \/ currentNumber = Null
          /\ lock' = TRUE
          /\ SuspendOn(c, "initializing")
          /\ HandOutNothing /\ UNCHANGED currentNumber
       \/ /\ lastUncommintedNumber # Null /\ currentNumber # Null
          /\ WindowFull(lastUncommintedNumber, currentNumber)
          /\ lock' = TRUE
          /\ SuspendOn(c, "updating")
          /\ HandOutNothing /\ UNCHANGED currentNumber
       \/ /\ lastUncommintedNumber # Null /\ currentNumber # Null
          /\ ~WindowFull(lastUncommintedNumber, currentNumber)
          /\ HandOut(c, currentNumber, grants)

\* Mutant: synchronize does not look at the lock.
EnterSync_NoTest(c) ==
    /\ lock' = TRUE
    /\ SuspendOn(c, "updating")
    /\ HandOutNothing /\ UNCHANGED currentNumber

\* Mutant: synchronize does not take the lock.
EnterSync_NoLock(c) ==
    /\ ~lock
    /\ SuspendOn(c, "updating")
    /\ HandOutNothing /\ UNCHANGED <<lock, currentNumber>>

\* synchronize from the moment it finds the lock free.
EnterSync(c) ==
    /\ ~lock
    /\ lock' = TRUE
    /\ SuspendOn(c, "updating")
    /\ HandOutNothing /\ UNCHANGED currentNumber

\* A method that finds the lock taken sleeps and tests it again.
PollLock(c) ==
    /\ lock
    /\ SuspendOn(c, "polling")
    /\ HandOutNothing /\ UNCHANGED <<lock, currentNumber>>

unchangedByEntry ==
    <<lastUncommintedNumber, elapsed, chainSequence, resynced, misread>>

\* A coroutine calls nextSequenceNumber.
nextSequenceNumber(c) ==
    /\ pc[c] = "idle"
    /\ currentNumber \in {Null} \cup 0 .. (MaxNumber - 1)
    /\ PollLock(c) \/ EnterNext(c)
    /\ op' = [op EXCEPT ![c] = "next"]
    /\ UNCHANGED unchangedByEntry

\* A coroutine calls synchronize; when the numbers agree it returns at once.
synchronize(c) ==
    /\ pc[c] = "idle"
    /\ lastUncommintedNumber # currentNumber
    /\ PollLock(c) \/ EnterSync(c)
    /\ op' = [op EXCEPT ![c] = "sync"]
    /\ UNCHANGED unchangedByEntry

\* A coroutine that polls the lock wakes up and finds it free.
TakeLock(c) ==
    /\ pc[c] = "polling"
    /\ \/ op[c] = "next" /\ EnterNext(c)
       \/ op[c] = "sync" /\ EnterSync(c)
    /\ UNCHANGED <<op, unchangedByEntry>>
-----------------------------------------------------------------------------
\* The loop condition of nextSequenceNumber, with the numbers it sees after an
\* await: hand out a number, or go on waiting at `where`.
ProceedNext(c, last, current, reserved, where) ==
    \/ /\ ~WindowFull(last, current)
       /\ HandOut(c, current, reserved)
    \/ /\ WindowFull(last, current)
       /\ currentNumber' = current
       /\ grants' = reserved
       /\ SuspendOn(c, where)
       /\ UNCHANGED <<lock, used, result>>

\* The loop condition of synchronize: done, resync, or sleep once more.
ProceedSync(c, last, current, reserved, seconds) ==
    /\ currentNumber' = current
    /\ grants' = reserved
    /\ \/ last = current /\ Return(c)
       \/ /\ last # current
          /\ SuspendOn(c, IF seconds > maxWaitTime THEN "resyncing" ELSE "sleeping")
          /\ UNCHANGED lock
    /\ UNCHANGED <<used, result>>

\* The answer of getInfo, which initialize and update store.
StoreReply(c) ==
    /\ request[c] = "answered"
    /\ lastUncommintedNumber' = reply[c]

\* After the initialize() of a first call: both numbers are the chain's.
Initialized(c) ==
    /\ pc[c] = "initializing"
    /\ StoreReply(c)
    /\ ProceedNext(c, reply[c], reply[c], grants, "updating")
    /\ UNCHANGED <<op, elapsed, chainSequence, resynced, misread>>

\* Mutant: the wait of nextSequenceNumber starts with initialize().
Updated_Initialize(c) ==
    /\ pc[c] = "updating"
    /\ StoreReply(c)
    /\ elapsed' = [elapsed EXCEPT ![c] = 0]
    /\ \/ op[c] = "next" /\ ProceedNext(c, reply[c], reply[c], grants, "sleeping")
       \/ op[c] = "sync" /\ ProceedSync(c, reply[c], currentNumber, grants, 0)
    /\ UNCHANGED <<op, chainSequence, resynced, misread>>

\* After the update() before either wait loop; startTime is taken here.
Updated(c) ==
    /\ pc[c] = "updating"
    /\ StoreReply(c)
    /\ elapsed' = [elapsed EXCEPT ![c] = 0]
    /\ \/ op[c] = "next" /\ ProceedNext(c, reply[c], currentNumber, grants, "sleeping")
       \/ op[c] = "sync" /\ ProceedSync(c, reply[c], currentNumber, grants, 0)
    /\ UNCHANGED <<op, chainSequence, resynced, misread>>

\* Mutant: the maximum wait time is never tested.
WakeUp_NoTimeout(c) ==
    /\ pc[c] = "sleeping"
    /\ SuspendOn(c, "refreshing")
    /\ UNCHANGED <<numberVars, historyVars, op, elapsed, result, chainSequence>>

\* After a sleep. nextSequenceNumber tests the time here, synchronize did so
\* before it slept.
WakeUp(c) ==
    /\ pc[c] = "sleeping"
    /\ SuspendOn(c, IF op[c] = "next" /\ elapsed[c] > maxWaitTime
                    THEN "resyncing" ELSE "refreshing")
    /\ UNCHANGED <<numberVars, historyVars, op, elapsed, result, chainSequence>>

\* Mutant: initialize() where the wait loop needs update().
Refreshed_Initialize(c) ==
    /\ pc[c] = "refreshing"
    /\ StoreReply(c)
    /\ \/ op[c] = "next" /\ ProceedNext(c, reply[c], reply[c], grants, "sleeping")
       \/ op[c] = "sync" /\ ProceedSync(c, reply[c], reply[c], grants, elapsed[c])
    /\ KeepTimer(c)
    /\ UNCHANGED <<op, chainSequence, resynced, misread>>

\* After the update() inside a wait loop.
Refreshed(c) ==
    /\ pc[c] = "refreshing"
    /\ StoreReply(c)
    /\ \/ op[c] = "next" /\ ProceedNext(c, reply[c], currentNumber, grants, "sleeping")
       \/ op[c] = "sync" /\ ProceedSync(c, reply[c], currentNumber, grants, elapsed[c])
    /\ KeepTimer(c)
    /\ UNCHANGED <<op, chainSequence, resynced, misread>>

\* After the initialize() inside a wait loop: what was handed out is forgotten.
Resynced(c) ==
    /\ pc[c] = "resyncing"
    /\ StoreReply(c)
    /\ \/ op[c] = "next" /\ ProceedNext(c, reply[c], reply[c], <<>>, "sleeping")
       \/ op[c] = "sync" /\ ProceedSync(c, reply[c], reply[c], <<>>, elapsed[c])
    /\ KeepTimer(c)
    /\ resynced' = TRUE
    /\ UNCHANGED <<op, chainSequence, misread>>

\* getInfo throws: the error is logged, the lock is released, and
\* nextSequenceNumber returns the BigInt(0) it started with.
GetInfoFailed(c) ==
    /\ request[c] = "failed"
    /\ Return(c)
    /\ \/ op[c] = "next" /\ ReturnValue(c, 0) /\ misread' = TRUE
       \/ op[c] = "sync" /\ UNCHANGED <<result, used, misread>>
    /\ KeepTimer(c)
    /\ UNCHANGED <<lastUncommintedNumber, currentNumber, grants, resynced,
                   op, chainSequence>>
-----------------------------------------------------------------------------
\* The full node answers getInfo with the state it has now.
Answer(c) ==
    /\ request[c] = "asked"
    /\ request' = [request EXCEPT ![c] = "answered"]
    /\ reply' = [reply EXCEPT ![c] = chainSequence]
    /\ UNCHANGED <<numberVars, historyVars, op, pc, elapsed, result, chainSequence>>

\* The request fails, or its answer is an error.
Fail(c) ==
    /\ request[c] = "asked"
    /\ request' = [request EXCEPT ![c] = "failed"]
    /\ UNCHANGED <<numberVars, historyVars, op, pc, reply, elapsed, result, chainSequence>>

\* A transaction with the account's next number is committed. Only numbers
\* that nextSequenceNumber returned are used: the account has one manager.
Commit ==
    /\ chainSequence \in used
    /\ chainSequence' = chainSequence + 1
    /\ UNCHANGED <<numberVars, historyVars, callVars>>

\* A second passes on the clock of every wait loop.
Tick ==
    /\ \E c \in Callers : pc[c] \in Waiting /\ elapsed[c] <= maxWaitTime
    /\ elapsed' = [c \in Callers |->
                      IF pc[c] \in Waiting /\ elapsed[c] <= maxWaitTime
                      THEN elapsed[c] + 1 ELSE elapsed[c]]
    /\ UNCHANGED <<numberVars, historyVars, op, pc, request, reply, result, chainSequence>>

\* The steps the runtime takes by itself once a call is made.
Step(c) ==
    \/ TakeLock(c)
    \/ Initialized(c) \/ Updated(c) \/ Refreshed(c) \/ Resynced(c)
    \/ WakeUp(c)
    \/ GetInfoFailed(c)

Call(c) == nextSequenceNumber(c) \/ synchronize(c)

Network(c) == Answer(c) \/ Fail(c)

Next ==
    \/ \E c \in Callers : Call(c) \/ Step(c) \/ Network(c)
    \/ Commit
    \/ Tick

\* A resumable coroutine is resumed, every getInfo ends, and time passes. No
\* transaction needs to commit, and no coroutine needs to make a call.
Fairness ==
    /\ \A c \in Callers : WF_vars(Step(c)) /\ WF_vars(Network(c))
    /\ WF_vars(Tick)

Spec == Init /\ [][Next]_vars
FairSpec == Spec /\ Fairness
-----------------------------------------------------------------------------
\* The lock works: it is set exactly while one coroutine is between taking and
\* releasing it (the test and the assignment have no await between them).
MutualExclusion ==
    /\ lock <=> Holders # {}
    /\ \A c, d \in Holders : c = d

\* No more than maximumInFlight numbers beyond the chain's are ever handed out,
\* however stale the reads are and whatever is resynced.
WindowBounded ==
    currentNumber # Null => currentNumber <= chainSequence + maximumInFlight

\* Since the last resync the numbers were handed out one by one, with no gap
\* and no number twice, up to the one that comes next.
GrantsAreDense ==
    \A i \in DOMAIN grants : grants[i] = currentNumber - Len(grants) + i - 1

\* As long as no wait timed out and no read failed, the next number is not
\* one the chain has already committed.
NextNumberIsFresh ==
    currentNumber # Null /\ ~resynced /\ ~misread => chainSequence <= currentNumber

\* What nextSequenceNumber returns follows on what it returned before, and is not
\* behind the chain.
NumbersFollowOn == GrantsAreDense /\ NextNumberIsFresh

\* What the invariants above need to be inductive.
CallShape ==
    \A c \in Callers :
       /\ pc[c] \in Asking <=> request[c] # "none"
       /\ pc[c] \in {"initializing"} => op[c] = "next" /\ currentNumber = Null
       /\ pc[c] \in {"updating"} \cup Waiting => currentNumber # Null
       /\ pc[c] = "polling" /\ op[c] = "sync" => currentNumber # Null

NumberShape ==
    /\ lastUncommintedNumber = Null <=> currentNumber = Null
    /\ currentNumber = Null => grants = <<>>

\* No read is ahead of the chain.
ReadsBehindChain ==
    /\ lastUncommintedNumber # Null => lastUncommintedNumber <= chainSequence
    /\ \A c \in Callers : request[c] = "answered" => reply[c] <= chainSequence

\* As long as nothing was resynced or misread, the numbers in use are the ones
\* below currentNumber, and before the first one the chain does not move.
UseFollowsGrants ==
    ~resynced /\ ~misread =>
       /\ currentNumber = Null => used = {}
       /\ currentNumber # Null => \A n \in used : n < currentNumber
       /\ used = {} => \A c \in Callers : request[c] = "answered" => reply[c] = chainSequence

IInv ==
    /\ TypeOK /\ MutualExclusion /\ CallShape /\ NumberShape
    /\ ReadsBehindChain /\ WindowBounded /\ GrantsAreDense
    /\ UseFollowsGrants /\ NextNumberIsFresh

\* synchronize is a barrier: while it runs, no nextSequenceNumber returns.
SynchronizeIsBarrier ==
    [][\A c \in Callers :
          op[c] = "sync" /\ c \in Holders /\ c \in Holders' => UNCHANGED <<used, result>>]_vars

\* Whoever takes the lock releases it, even when nothing ever commits: the
\* wait loops end by resyncing, and a failing getInfo ends the method.
LockIsReleased == lock ~> ~lock

=============================================================================
