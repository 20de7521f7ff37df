# TLA+ models of the Endless TypeScript SDK

Models, model-checking configurations and machine-checked proofs for the SDK
(TypeScript). Paths below are relative to the repository;
`management/` stands for `src/transactions/management/`.

1. [The system](#1-the-system)
2. [Modules and how they correspond to the code](#2-modules-and-how-they-correspond-to-the-code)
3. [Runs](#3-runs)
4. [Fairness](#4-fairness)
5. [Proofs](#5-proofs)
6. [Where code and documentation disagree](#6-where-code-and-documentation-disagree)
7. [Not modelled](#7-not-modelled)
8. [Plan](#8-plan)

## 1. The system

The SDK is a client library: an `Endless` object groups API classes, whose
methods build a request, send it to a full node or an indexer, and return the
data. State that outlives an `await` is in the batch submission machinery (four
classes stacked on each other), in the functions that wait or fetch in several
requests, in a module-level cache, in the keyless accounts, and in the
transaction objects that several parties share. The rest is conversion: from
what a caller gives to bytes, from ABIs and type texts to type tags, from
options to queries.

JavaScript runs one piece of code at a time, so the interleavings that matter
are those of coroutines at their `await`s, of timers, and of the answers of
services whose state moves meanwhile. Nothing is persisted: there is no crash
recovery. The repository has no tests; its README, its examples and the
comments are the documentation the models are read against.

| Component | Source | State | Operations | What is hard, and what makes it correct |
|---|---|---|---|---|
| AsyncQueue | `management/asyncQueue.ts` | items, pending promises, cancelled flag | enqueue, dequeue, cancel, isEmpty | items and waiters meet in order; no item stored while somebody waits; nothing survives a cancel |
| AccountSequenceNumber | `management/accountSequenceNumber.ts` | last committed number read, next number, lock flag | nextSequenceNumber, synchronize (over initialize, update) | a lock made of a flag and a timer; stale and failing reads; window of numbers in flight; resync after a timeout |
| TransactionWorker | `management/transactionWorker.ts` | three AsyncQueues, two record arrays, started flag, one AccountSequenceNumber | push, start, stop, and the tasks submitNextTransaction, processTransactions | a run loop that outlives `stop`, two loops on one set of queues, submissions paired by position, one failure in a batch |
| TransactionManagement | `src/api/transactionSubmission/management.ts` | the current worker, event listeners | forSingleAccount | every payload of a batch gets an outcome |
| Waiting and block filling | `src/internal/transaction.ts` | locals across requests | waitForTransaction, waitForIndexer, getBlockByVersion, getBlockByHeight | late answers against the timeout, errors that are retried, pages in any order, page boundaries |
| Memoized reads | `src/utils/memoize.ts`, users in `src/internal/` | module-level cache with times to live | memoizeAsync, memoize, clear | concurrent misses, nested caches, keys that must tell networks apart, expiry |
| Transaction builder | `src/transactions/transactionBuilder/` | none | generateTransactionPayload, ABI argument conversion, generateRawTransaction, sign, simulate | what is accepted must be what the chain decodes; reads that another sender overtakes; simulation assembled apart from submission |
| Transaction submission | `src/internal/transactionSubmission.ts`, `src/api/transactionSubmission/` | the shared transaction object | generate, sign, simulate, submit, rotateAuthKey | parties that sign in any order around one object, a sequence number read twice |
| HTTP client | `src/client/` | none | get, post, paginateWithCursor, error classes | which failures become which error; cursors |
| Accounts | `src/account/` | keys | sign, verify, derive from a path | signer order, bitmaps, thresholds; two paths or two words that give one key |
| Keyless accounts | `src/account/Keyless*`, `src/internal/keyless.ts` | ephemeral key, proof or its promise | fetch proof, wait, sign, serialize | signing before the proof has arrived, expiry; commitments and nonces that two inputs share; a key pair stored while the user logs in |
| Keys and signatures | `src/core/crypto/` | none | layouts, bitmaps, authentication keys | bit boundaries, hash inputs that must differ |
| BCS | `src/bcs/` | buffer and offset | serialize, deserialize | ULEB128 bounds, two methods per class written apart |
| Addresses, hex | `src/core/` | none | strict, relaxed and base 58 texts | one text with two readings |
| Type tags | `src/transactions/typeTag/` | parser stack | parseTypeTag | the stack parser against the grammar |
| Transaction objects | `src/transactions/instances/`, `authenticator/` | none | serialize, deserialize | variants |
| API facade and reads | `src/api/`, `src/internal/` | none | a hundred queries, builders and waits | options lost on the way, columns a table lacks, waiting for the wrong processor, names that expire |
| Types and constants | `src/types/` | none | the schema and documents of the indexer | documents, conditions and result types written apart |
| CLI processes | `src/cli/` | child process | run, stop, the commands of Move | several calls of run on one child that comes up, dies or is killed; a check that lasts past the limit |

The stack whose interactions matter most:

```
 application          push / start / stop          events
     |                       |                       ^
 TransactionManagement  ->  TransactionWorker  ------+
                             |   |    |    |
            transactionsQueue  taskQueue  outstandingTransactions   (AsyncQueue)
                             |             |
        AccountSequenceNumber           waitForTransaction
                             |             |
                             full node (accounts, mempool, chain)
```

`start` queues the two tasks and begins `run()`, which nobody awaits. The
submission task takes a number from AccountSequenceNumber, a payload from
`transactionsQueue`, and puts the promise of the submission, with the number,
in `outstandingTransactions`. The processing task drains that queue in batches,
waits for all of a batch to settle, and reports each one by events.
TransactionManagement creates a worker, starts it and pushes a whole batch in
one synchronous piece of code, and emits the worker's events again.

`PROJECT.json` lists, under `hazards`, the places where this code can go wrong
in a way a unit test hardly reaches, with the properties that cover each.

## 2. Modules and how they correspond to the code

One convention holds in all modules: **an action is the code between two
`await`s**, with everything it assigns and every method it calls. A program
counter (`pc`, `at`) names the `await` a coroutine is suspended on. A request
is answered in one step, with the state the node has then, and seen by its
coroutine in a later one, so every answer may be stale. Names follow the code.
Definitions whose name has a suffix (`Updated_Initialize`, `WindowFull_OffByOne`,
...) and a comment that begins with "Mutant" are wrong variants of the
definition that follows them; no behaviour uses them. They show what the
properties would catch.

**AsyncQueueOps** - enqueue, dequeue and cancel on a queue as functions of a
record `[queue, pendingDequeue, cancelled]`. AsyncQueue and TransactionWorker
share them. A waiter stands for its resolver and rejecter pair.

**AsyncQueue** - one queue object with its coroutines: `enqueue`, `dequeue`,
`cancel` are the methods, `Resume` is the later continuation of a settled
promise. Producers may be anybody, at any time.

**AsyncChannel** - what the queue promises: an abstract channel in which the
i-th dequeue since the last cancel receives the i-th item. It knows the two
histories and nothing of arrays of items or waiters. AsyncQueue implements it.

**AccountSequenceNumber** - both methods, at the grain of their awaits, for a
set of callers, each in at most one call.

| Action | Code |
|---|---|
| `nextSequenceNumber`, `synchronize` | a call up to its first await |
| `TakeLock` | the end of a lock poll that finds `lock` false, and what follows |
| `Initialized` | the answer of the first `initialize()` |
| `Updated` | the answer of the `update()` before a wait loop |
| `WakeUp` | the end of the sleep in a wait loop |
| `Refreshed`, `Resynced` | the answers of `update()`, `initialize()` in a wait loop |
| `GetInfoFailed` | the `catch` and `finally` of both methods |
| `Answer`, `Fail`, `Commit`, `Tick` | the node, the chain, the clock |

Two pieces of control are where they are in the code and not where one expects
them: nextSequenceNumber tests the time after its sleep, synchronize before it;
and after a resync nextSequenceNumber goes on in the same loop. The chain
commits only numbers that were handed out, the assumption that the class doc
makes (`accountSequenceNumber.ts:18`, one object per account).

**TransactionWorker** - composes three queues (through AsyncQueueOps) with
AccountSequenceNumber (`Numbers == INSTANCE ... WITH Callers <- Loops`): the
coroutines that ask for numbers are the run loops. Each successful `start()`
begins a run loop; a `stop()` ends only loops that await a task, so a second
start puts a second loop beside the first on the same queues. A payload is a
number, its submission promise is `submission[p]`, and the node is `Admit`,
`Accepted`, `Rejected`, `Commit`, `Expire`: a number that is committed, or taken
in the mempool, is refused; a response may be lost although the transaction was
admitted; a transaction may never be executed. `Checked` is the result of
`waitForTransaction`: fulfilled only if the chain holds a success (that is
`OutcomeMatchesChain` of WaitForTransaction), rejected for any reason. The test
and the dequeue in generateNextTransaction are one step because no await
separates them, so the dequeue always finds a payload.

**TransactionManagement** - extends the worker with `forSingleAccount(n)`: the
start and n pushes are one step, since forSingleAccount does not await. Its
event listeners emit the worker's events again and change nothing else, so the
`events` history stands for both.

**WaitForTransaction** - one call of waitForTransaction beside a node on which
the transaction may be unknown, pending, committed, or dropped again. Time is
counted in units of 1/2560 s, so that the intervals 200 ms x 1.5^k are exact for
the nine sleeps of a 20 s wait. `FirstLook`, `LongWaited`, `Polled`, `EndSleep` are
the code after each await; `Conclude` is what follows the loop. An answer is the
transaction or one of four classes of failure, the ones the code tells apart:
404, 5xx, another 4xx, and an exception that is not an EndlessApiError. Which
response becomes which is endlessRequest, at the head of the module: a status and a
body become an answer, an EndlessApiError or a TypeError. A body is data, a
description of an error, the text of something on the way, or nothing; a proxy's text
of a 5xx is not retried, because looking for `message` in it throws.
As in the code, `timeElapsed` counts the long wait and the sleeps, and not how
long the polls themselves take.
`RequestTimes` and `LongWaits` bound how long a request may take.

**BlockFill** - getBlockByVersion/Height with fillBlockTransactions. A
transaction is its version number. `PagesFrom` is the `for` loop that builds the
requests; pages arrive, or fail, in any order; `Combine` is what follows
`Promise.all`. A page is one request, because the node sends no cursor for
transactions.

**KeylessAccount** - deriveKeylessAccount, getProof and the proof of an account.
`fetch` is the await getProof is suspended on, `promise` what it returned,
`reactions` the coroutines that await this promise, in the order they began to:
JavaScript resumes them in that order. With a callback the account exists at
once and its constructor runs `init`, which is the first reaction; without one,
deriveKeylessAccount itself awaits the proof (`Derived`). Whatever can go wrong
in getProof rejects the promise: the horizon cannot be read, the ephemeral key
lives too long, the proving service fails, the key has expired when the proof is
to be signed with it.

**SignAndSubmit** - extends KeylessAccount with calls of
signAndSubmitTransaction, for the three classes of signer that can hold keyless
accounts.

| Action | Code |
|---|---|
| `signAndSubmitTransaction` | up to the first await: the proofs, or the submission |
| `ProofFetched` | the promise of one proof resumes the call; `Promise.all` fails with the first failure |
| `SignWaited` | all proofs are there: sign, begin to submit |
| `Posted` | the node answers, or the request fails |

Only KeylessAccount and MultiKeyAccount are waited for (`Awaited`). A
MultiAuthKeyAccount with a keyless signer has a `waitForProofFetch` too, but it
is not called: such a call can end with "Proof not found", in the model as in the
code. The bitmap of a MultiKeyAccount is the set of its bits; a bit of 32 or
more is written outside the array and lost, so that the signature, which counts
signatures against bits, is refused.

**MemoizedReads** - memoizeAsync and the four reads that go through it. Every
await is a step, so two misses at once both ask and the later one stores last.
`read.keys` are the cache keys of a read from the outside in (fetchAbi nests
getModule); the module's key has no network in it. Time is kept as ages and
needs no bound.

**AccountKeys** - the calls that depend on what the chain says of an account:
generateRawTransaction's read of the sequence number and the submission,
rotateAuthKey with its two reads, lookupOriginalAccountAddress and
deriveAccountFromPrivateKey, which asks for the single-sender account and then
for the legacy one. Users run these calls at once; every answer is a step.

**AnsNames** - `internal/ans.ts`: the transactions built from a name (register,
renew, set), the views (owner, expiration, target, primary name) and the
threshold of time of the lists of names. A registration expires, is renewed or
changes its owner between two answers. Months and days are short, and
`setDate` carries over them as JavaScript's does.

**Digits** - positional notation, for texts and for numbers packed into bytes.
**AddressText** - AccountAddress, AuthenticationKey and Hex: five printed forms
and all readings. Texts and their meaning are modelled with two small bases, in which
some digits are letters (`Decimals` of the digits are none) and a letter has a second,
lower case `LowerCase` characters on, as "A" and "a" have among the letters of base 58.
Hexadecimal is read in both cases and printed in one. The module's head says which
relations of 16, 58 and 32 bytes the small numbers keep.

**Accounts** - each class of account: what it signs with, the authenticator it
puts around a signature, and its own verifySignature, which for a KeylessAccount depends
on whether it has expired. A signature is its key and its message.

**Signing** - one transaction among several programs: who generates it, who
signs it, the fee payer who writes its address into the object that all signers
of a program share, the copies that travel as bytes, and the end as a
simulation, a mock simulation or a submission. `NodeAccepts` is the external
node: it verifies what the SDK assembled.

**KeyDerivation** - an application that makes keyless public keys, ephemeral key pairs
and private keys, and verifies signatures, one after another. A hash is the record of
what went into it, and a private key the chain of indices from its seed; what is
modelled is what the SDK does before the libraries: padding, packing into numbers below
the field's order, the lengths that are appended, 32-bit indices, and the comparison of
a signature's second half with the order of the group. `RequestJwt` is the user leaving
the page: the pair is dropped, and only its serialized form is left
(`DeserializePair`).

**CommandLine** - the one LocalNode object with several callers of `run` and `stop`, and
the children it spawns, which come up, answer and die as they please. `run[c].pc` names
the await of a caller: the check of run, the first check of waitUntilProcessIsUp, the
sleep, and the checks of its loop. Below it, the commands of Move with their named
addresses.

**Bcs**, **BcsCodec**, **WireFormats** - the methods of Serializer
and Deserializer; the layout of each serializable class, twice where its two
methods are written apart, and what they make of a value; and an object that hops
between programs as bytes, within a longer buffer. `Base` is the number of values
of a byte: 256 in the code, 16 in the run, so that carries, continuation bits and
overflow fit TLC's integers. WireFormats also has what is hashed: signing
messages and the inputs of authentication keys and derived addresses.

**EntryFunctionArguments** - type tags, and convertArgument and checkType: every pairing
of a caller's JavaScript value with the type of a parameter. **TypeTagParser** - the loop
of parseTypeTag with one action per branch over a text of tokens. **Builders** - the
transaction builders of the facade, each with its Move function, the ABI table it
carries and the arguments it makes of its own. **TypedCalls** composes them with
the parser and WireFormats: from a call to a payload, and over the wire.

**IndexerSchema**, **GraphqlQueries** - data of the code as data
of the model: the columns, relations, filters and orders of each table, what
each document selects and declares, and what the result types promise.
**IndexerCalls** - the functions of `internal/*.ts` over them: which options each
sends on, which condition it builds, and whether the indexer accepts the result.
**ClientReads** - the methods of `api/*.ts` that offer them, with the processor each
waits for, and a client that makes such calls while the chain and the
processors move: waitForIndexer, the query, and paginateWithCursor over an
account that changes between pages.

**MC modules.** Where the values of the constants fit a `.cfg`, the run uses the module
itself. `MCTypedCalls` lists the calls and objects of the instance, and has behaviours
of KeyDerivation beside those of TypedCalls; `MCWaiting` has behaviours of AsyncQueue, of
AccountSequenceNumber, of WaitForTransaction and of CommandLine, one of them each. `MCSignAndSubmit` lists the parties of a
transaction and has behaviours of SignAndSubmit and of Signing. `MCAccountCalls` lists
the calls of MemoizedReads, AccountKeys, AnsNames and AddressText; a behaviour is of one
of them, because they share no state. `MCClientReads` adds the behaviours of BlockFill
to those of ClientReads in the same way.

## 3. Runs

| Run | Configuration | What it shows |
|---|---|---|
| `waiting` | queue: 2 items, 3 coroutines, 4 enqueues between cancels; numbers: 2 callers, window 2, wait limit 1 s, calls start below number 3, account new or used; wait: 20 s timeout, 200 ms first interval, requests of 0 or 1 s, long waits of 0, 10 or 30 s; local nodes: 2 callers, limit 3 s, checks of up to 1 s, 2 children | the queue implements AsyncChannel: matching in order, no lost wake-up, nothing kept by a cancel; lock, window, density and freshness of numbers, synchronize as a barrier, the lock is always released; the outcome of a wait is the chain's, the timeout neither early nor late; a run of a local node tells the truth and ends in time; waits and runs end |
| `transaction_worker` | 2 payloads, 2 starts, 1 stop, window 2, wait limit 0, new account | no submission lost or repeated with two run loops, records and events match, numbers are not reused |
| `transaction_management` | 2 payloads, 1 start, 1 stop, window 1, wait limit 0 | every payload of a batch is reported |
| `keyless_submission` | 2 keyless signers with keys at positions 33 and 5, one plain signer at 2, at most 2 signers per account, 2 calls, horizon 0, keys that expire at 1, clock up to 2; 5 accounts, 2 programs, 3 signatures | waiting calls find their proofs, the callback is told the truth, what is submitted is signed in the order of the bitmap, every call ends; what the right parties signed is accepted; a simulation is assembled like a submission; what an account calls valid, its own signers made |
| `typed_calls` | base 16, texts of up to 5 tokens, type tags nested twice, 2 hops; keys: bytes of 2 values, 2 to a number below 11, names of up to 3 bytes, peppers of 1, a group of order 5, indices around an offset of 700, 2 things made, 3 s | type texts are read as written; what is accepted decodes, but for vectors of mixed elements; objects and arguments survive the wire; hash inputs differ; another identity, pair, path or word gives another key or nonce, a login ends with its pair, a message has one signature |
| `client_reads` | 4 ledger versions, requests of 0, 300 or 2900 ms, 2 histories of an account, pages of 1; blocks that end at 0, 1, 9, 10 with pages of 3 | reads show the caller's own writes, options reach the rows, the wait for the indexer is honest and ends, pages are complete, queries fit the schema; blocks are tiled |
| `account_calls` | 2 callers on 2 networks, time to live 1, latency 1; 2 users, 2 keys, numbers below 2, 2 accounts; names that expire at 3 or 5, months of 2 and 3 days; base 3 and 5 with 2 bytes, two letter cases | age of cached answers, when the chain may refuse, which scheme a key resolves to, when names end, how addresses are read |
| `management_generation_failure`, `derive_after_rotation`, `unseparated_names`, `spaced_types_refused`, `incomplete_blocks` | as above, one module's behaviours or calls each | see section 6 |

**What the composite properties say.**
`NumbersFollowOn`, `BlocksAreFilled`, `ReadsAnswerTheCall`, `ValuesSurviveTheWire`,
`KeysHaveOneOrigin`, `LoginsKeepTheirPairs` and `ProcessesKeepTheirPromises` are conjunctions
of named parts, each part stated, and where section 5 says so proved, on its own;
`WaitsEnd` says that waitForTransaction and every run() of a local node end.
`CachedAnswersAreRecent`: an answer is at most one time to live old *per layer of
cache* it went through, counted from the node's answer, and of the caller's
network except through the module's key. `RefusedOnlyWhenOvertaken`: a transaction or
rotation fails on chain only because another one of the account came in between,
or because a sponsored one took an error for a new account.
`NamesKeepTheirTimes`: a subdomain is registered to end no later than its domain did
at some time during the call, a list holds every name within its grace period but
for the last day, whatever the month and wherever midnight falls, and a view returns
what the contract held. `AddressesAreReadAsWritten`: every
printed form is read back as the same address, and a typed text has one meaning
for strict, relaxed and hex readers unless it is base 58, whatever the case of its
letters. `TypesAreRead`: a type that is parsed has the names of its text, each as often,
without what was given to a placeholder of an ABI, which the parser drops; and a text that
spells a type is read as that type unless a blank stands before a comma.
`AcceptedArgumentsDecode`: an argument that was accepted is in the payload as bytes that
decode as a value of the parameter's type, with nothing left over, and so are the
properties of digital assets. That the value is the one the caller meant is not said. One
exception is named, the one checkType leaves open: a MoveVector of several elements that
the caller built himself and whose later elements are not of the type. And each builder
fits its own ABI: its calls are rejected exactly if an argument is of a form that its
ABI cannot take though its types allow it (`Unconvertible`). `VerdictsAreRight`: what
verifySignature calls valid was made over that message by signers of the account, each
counted once; and with the bitmap of its own signers the verdict is the node's, unless the
account has expired or needs a keyless key of several. `BlocksAreFilled`: a returned block
is in order and complete but for a last version that would need a page of its own.
`QueriesFitTheSchema` and `OptionsAreHonoured` name the methods that break them as
exceptions; the exceptions are listed in section 6.

Some properties leave out the worst case of the hazard they belong to, because the
code does what the hazard fears: numbers after a resync or a failed read
(`NumbersFollowOn`, `NumbersAreNotReused`), a lost response reported as a failure
(`RecordsMatchSubmissions`), a long string of a script (`ValuesSurviveTheWire`), indices of
2^31 and more (`KeysHaveOneOrigin`), the event wrappers (`ReadsAnswerTheCall`). Each says
exactly where it stops; the notes of the hazards repeat it.

**Bounds, and why they are enough.**
Queues: three waiters are needed to see an order among the waiters behind a
matched one; four enqueues with two items fill, drain and refill the queue
within one generation, and cancel starts a new one any number of times.
Sequence numbers: `MaxNumber` limits the numbers at which a call may *start*; it
is larger than the window, so the window fills, waits, is resynced and fills
again. Two callers give every contention on the lock; the proof covers more.
`StartNumbers` is the number the account starts with: new (0) or used (1).
`elapsed` is counted to one past the limit, where all larger values behave
alike. Worker: two payloads and two loops are the smallest system in which loops
compete for a payload, an outstanding transaction and a batch; with a window of
2 the third number (the task asks for one more than there are payloads) must
wait. The account is new, the case in which the 0 that a failed read returns is a
number the node may accept. `MaxNumber` 8 is never reached there. The management
run takes a window of 1, so that the batch is larger than the window and progress
hangs on commits or resyncs. In both, a wait limit of 0 means one tick and not
none: the code compares with `>`. waitForTransaction runs at the real defaults;
the two request times make a poll free or longer than several intervals, the long
waits end before, or after, the timeout. Block sizes from 1 to 11 against pages of
3 meet every residue and a block that begins at version 0; the theorem covers the
rest.

Keyless signing: two signers and two calls let a call wait for two proofs, of
which the first can fail, and let two calls wait for one promise; a horizon of 0
against keys that expire at 1 makes the outcome of the lifetime test depend on
when it is made, and time can pass the expiry while the call waits. Position 33
lies beyond the bitmap. Signing: five accounts, one of each class, some
of which share keys, and the one with several keys has three of which two sign; two programs let
one object be shared and another be a copy, and three signatures are a sender, a secondary
signer and a fee payer, or one of them twice. Signatures put together by hand have any
part of any key over any message at any set of positions.

Reads: three versions after the first let a processor be behind, at and beyond
the minimum, and an account change between the first, second and third page; one
history loses an item before the cursor, one only gains. Requests of 2900 ms fall
on both sides of the 3 s limit with the pauses between them. Cache: with a time to
live and a latency of one tick an entry is fresh, about to end and ended, and an
answer is as old as it may be when stored. Keys: two users, so that each call can
be overtaken at each await; `MaxNumber` 2 allows it twice. Names: months of two and
three days with a grace period of two days make the threshold cross the first of
a month, and every clock value occurs at both readings. Addresses: all texts up to
five characters. Types: five tokens hold two nested generics, an empty argument
and a comma at each place; texts that spell a type have blanks at any of the four places;
texts of ABIs have placeholders with and without arguments. Arguments: every form of a
value against every parameter, with vectors whose later elements differ from the first,
with null, undefined and an ArrayBuffer. Objects: each class with values in which every part
takes each of its samples, and whose neighbours differ (see MCTypedCalls); strings
of 0, 1 and 9 bytes reach the length that needs a second ULEB128 byte (8 at base 16).

Key derivation: names as long as their limit, one byte longer and shorter, of one and of
two numbers; a field that two bytes fit into and three do not; keys of ephemeral pairs that
are given an expiry, or one that a later `now` would change; indices on both sides of the
offset and of twice the offset. Two things made are the pair that every property
compares. Command line: with a limit of 3 s and checks of 0 or 1 s a loop ends by the
clock after two or more rounds, and a check can begin before the limit and end after it;
two callers and two children let one caller's child replace the other's, and each be
stopped, or die, while the other is waited for.

`CHECK_DEADLOCK FALSE` is set where the system may stop for good: a call has
ended, a worker was stopped or has nothing left to do, or a number bound is
reached. The other runs check deadlock.

## 4. Fairness

Safety is checked without fairness. The liveness properties assume:

- a coroutine whose await is settled is resumed (`WF` of its steps): the
  JavaScript event loop runs every queued continuation and every expired timer;
- a request ends, in an answer or in an exception (`WF` of `Network`, `Answer`,
  `Respond`, in SignAndSubmit of `AccountStep` and `Call`, in ClientReads within
  `Client`). The SDK sets no time limit of its own: a request that hung for ever
  would hang each of these methods, so this is an assumption about the transport.
  The properties hold whichever way requests end;
- time passes (`WF` of `Tick`) - in WaitForTransaction and ClientReads the clock
  moves with the sleeps and requests themselves;
- in CommandLine, what is due is done and seconds pass (`WF` of each caller's steps and
  of `SecondPasses`) - a check ends within `LongestCheck`, again an assumption about the
  transport; an exception of a child nobody listens to ends the program, and then
  nothing is promised;
- `Checked` ends: that is `WaitingEnds`, checked in the module of the wait.

Not assumed: that any transaction commits, that a processor of the indexer
moves, that the node accepts anything, that the application calls anything, or
that a coroutine that polls the lock ever wins it against another (the code does
not promise an order, `accountSequenceNumber.ts:45-55`). So `LockIsReleased` says
that the holder lets go, not that everybody gets a turn.

## 5. Proofs

The proofs are checked by TLAPS, for every value of the constants that satisfies
the named assumptions of the modules, which TLC evaluates in the runs. Most say what
kind of value a constant is (`Nat`, positive, `Null` and `Undefined` no number). The others:
`ReadsAssumption` has a longest request, and finite sets of items per version;
`KnownReadsAssumption` has the reads of MemoizedReads be those that the code makes;
`AnsAssumption` has a day be more than one millisecond; `SigningAssumption` has
accounts be what the constructors make, none at the address ZERO; `AddressAssumption`
has the relations of base 16 and base 58 that decide how a text is read; `BaseAssumption`
has a byte be two halves, of at least two values each. One more is a
hypothesis of the theorems about Signing, because TLC's model values cannot be asked:
`NothingIsNoFunction`, undefined is no object and no array. KeyDerivation's assumptions
are what the constants of the code satisfy: 31 bytes fit below the field's order, a hash
fits into 32 bytes, every name's limit fits into the inputs poseidonHash takes, numbers of
seconds are below the order, and no fixed index of a path reaches the offset.

Every invariant that a run checks is a theorem, but for those named at the end. The
shape is the same throughout: an inductive invariant from named conjuncts, a lemma per
action, and a theorem that puts them together.

**AsyncQueue_proofs.** `QueueIInv` is the type invariant, `MatchedInOrder`,
`PendingIsRegistered` and `CancelledIsEmpty`. `NoLostWakeup` alone is not
inductive: that an `enqueue` finds the right waiter needs to know who waits.
`MatchedInOrder` says it: what is stored, and who waits, are the two unmatched
ends of the histories of enqueues and dequeues, so at most one of them is not
empty, and `NoLostWakeup` follows by arithmetic. `Refinement` proves
`Spec => ImplementsChannel` step by step: resolving the oldest waiter is the
channel's delivery because the oldest waiter is the one at position
`Len(puts) + 1` of the dequeues. Any number of items, coroutines and enqueues.

**AccountSequenceNumber_proofs.** `IInv` adds four conjuncts to the wanted ones.
`CallShape`: at which await which request is open and whether the numbers are
initialized. `NumberShape`: both numbers are null together.
`ReadsBehindChain`: neither the stored committed number nor an answer still on
its way is ahead of the chain - that is why the window test, made with a stale
number, can only be too strict, and `WindowBounded` is preserved.
`UseFollowsGrants`: until a resync or a failed read, the numbers in use are below
the next one, so a commit cannot overtake it (`NextNumberIsFresh`).
`MutualExclusion` is inductive with the types alone. The proof has a lemma for
what any step of the lock holder establishes, and one step per action.
`SynchronizeIsBarrier` is an action property from the same invariant: a step
that returns a number is a step of the holder, and there is one. Any set of
callers, window, wait limit, starting number and number bound.

**WaitForTransaction_proofs.** The overshoot is the interesting one. The last
sleep may begin just before the timeout, so the bound is the length of an
interval: `2 * (backoffIntervalMs - FirstBackoff) <= timeElapsed`, the intervals
grow no faster than half of what was slept so far; preserved because
`b * 3 \div 2 <= b + b / 2`. Hence
`timeElapsed <= timeoutSecs + timeoutSecs \div 2 + FirstBackoff` for every
timeout. `WaitShape` carries that a poll or sleep is reached only with a
transaction or an error in hand, which makes the branch that throws
"Fetching transaction ... failed" without either unreachable.

`TimeoutIsOnTimeHolds` joins the two bounds of the timeout. `AnswersAreResponses` is
the lemma that ties in endlessRequest: every response becomes an answer that the loop
can tell apart.

The same module has the theorems about *CommandLine*. Their invariant says of each call
what it may still spend (`InTime`): a sleep begins within the limit, so that what is left
of it is within the limit too; the check that follows adds at most `LongestCheck`. Any
callers, limits and children.

**TransactionWorker_proofs.** The invariant has five layers, each proved with the ones
before it. `Control` is the types, what a run loop's locals are at each of its
awaits, who waits on which queue, and AccountSequenceNumber's invariant; it comes with
`ImplementsNumbers`: every behaviour of the worker is one of AccountSequenceNumber,
whose theorems therefore hold inside it (this is why that module's proof is
instantiated here with `Callers <- Loops`). `PlacesInv` is the one that
`SubmittedIsNeverLost` needs: a payload is kept in at most one place of six (a queue,
the hands of a run loop, a batch not yet reported, the records), a place tells
whether it was submitted, and a submitted payload has a place. `WhereaboutsAreKept`
shows that a place of `PlacesInv` is one of the whereabouts the property lists.
`RecordsInv` adds that whatever carries a transaction and a number carries a true
pair, which gives `RecordsMatchSubmissions`. `EventsInv` says that an event about a
transaction has a record behind it, and that during a check of a transaction its only
event is transactionSent and no other loop checks it: without the last part two
loops could report the same outcome. `NumbersInv` says that as long as nothing was
resynced or misread, the numbers that loops hold and those in transactions are all
different; it rests on `NumberShape` (a held number was granted) and on the
density of grants. Any number of payloads, of starts and of stops.

**ClientReads_proofs.** *The wait.* `Waits` strengthens `IndexerWaitIsHonest` by where
in the loop of waitForIndexer the time was last tested: a request begins within the
limit, so the wait ends at most one pause and one request after it.
*One read.* `Synced` is `ReadYourWrites` and `OptionsAreHonoured` with the fact that
joins them to the wait: what was heard of a processor is no newer than what it has.
The property names the methods that break it; that no other one does is
`MethodsAreSound`, which goes through every method and shows that it
waits for the processor of its table and sends the options it accepts.
*Pages with a cursor.* `PagesSoFar`: what was collected ascends, was there at a version
the read saw, lies before the cursor, and holds everything before the cursor that was
there all along. `NextPage_Pages` is the step: a page that is cut is a run of the
items from the cursor on, so nothing falls between two pages.
*Blocks.* `PagesAreRequested`: the requested pages are `PagesFrom` of what came with the
block, a closed form of the `for` loop. That they tile the range (`PagesTile`) is
arithmetic on the quotient. `BlockHolds` adds what the loop of `Promise.all`'s result
builds, page after page a `Run` of versions (`RunsMeet`, `PagesMeet`), from which
`BlockIsInOrder` follows by `PagesTogether`, an induction on the pages; `LastPage` says
which versions the last page ends with, and so when the last of the block is skipped.

**AccountCalls_proofs.** *AccountKeys.* `KeysInv` is the types, `UpToDate` and `Resolves`
of each call. `UpToDate` says what a call still knows while nobody has overtaken it: its
signer is the account's key, the challenge of a rotation holds the account as it
is, and the number is the account's (or the 0 of a sponsored error). `Resolves` says
that the legacy account is asked for only after the answer that there is no
single-sender one, and needs that what is known to the chain stays known
(`KnownStays`). The hard case is `Executed`, where the step of one user makes
another's knowledge stale exactly when it sets `overtaken`.
*MemoizedReads.* `MemoInv` bounds the age of every answer by where it is: under way by the
requests made so far, when stored by `Spent`, one time to live per layer below. The
bound of an entry in the cache (`Allowed`) may depend on nothing but its key, since
reads of different kinds share keys; `KeysTell` shows that all reads with a key agree.
*AnsNames.* `AnsInv` says what each await of a call knows of the contracts that were
there meanwhile. The calendar is proved apart: `MonthStarts` to `MonthsInOrder` about
prefix sums of the months, and `ThresholdIsLate`, that `setDate` over a month's end
gives a time at most a day too late, for months of any lengths and any grace period.
*AddressText.* What goes around is a typed text or a form of the address that was
meant; the work is below that, in what positional notation does (the lemmas about it are in
`Induction`). Digits are unique
(`DigitsAreUnique`), a number has one shortest sequence of digits (`ShortestIsUnique`),
and zeroes in front change nothing (`ZerosInFront`). From these follows that bs58decode
takes bs58encode back (`bs58encodeFacts`). The argument with a decision in it is
`LongIsNotBs58`: fromString tries base 58 first, and neither a LONG form nor one digit
is ever base 58 of LENGTH bytes. Leading "1"s stand for a zero byte each, and the other
letters for a number that must fit into the other bytes. Without any "1" in front it
does not fit, by `AddressAssumption`; and each "1" takes a whole byte off the room, two
digits, but only one letter off the number.
`PairsAreUnique` is the same for hexadecimal, where a byte is two digits, and `CaseFacts`
that a digit in either case is one digit and in lower case itself: reading undoes printing,
and printing what was read gives the text in lower case (`HexIsDigits`, `LowerIsRead`). Any
two bases and any length with the relations of `AddressAssumption`.

**Signing_proofs.** *SignAndSubmit.* That a waiting call finds its proof rests on an
order: `init` assigns the proof when it runs, and the call reads it when *it* runs,
both woken by the same promise. `FetchShape` states why the order is right: `init` is
the first reaction of a background fetch and only calls come after it; once it
has run, the proof is there exactly if the promise was fulfilled. `WaitingShape`
carries this to the calls. `Submissions` is what `SubmittedIsSigned` needs: the
signers of a multi-key account stand in the order of their keys (`KeyOrderExists`:
every list of distinct signers has one, so that the `CHOOSE` of the sort finds it),
and `BitsFollowSigners`: the i-th signature is the one of the i-th bit.
`ProofsDoStay` is why a proof found at signing is still there when it is posted.
*Signing.* `Provenance` says what the transaction of a program and what each
authenticator have to do with the transaction as it was generated: they are it, or it
with the address of somebody who became fee payer. If there was one fee payer,
everybody signed a message that the node accepts (`VersionMessages`), which is
`SubmittedVerifies`. `SimulationMirrorsSubmission` compares the two assemblies part by
part (`ShapeFacts`). `VerdictsAreRight` rests on `RankFacts`: the position of a bit
among the bits is what verifyMultiKey counts, so that two parts of an accepted signature
are compared with two different signers, and equal parts would have made two keys of one
account equal. Any accounts of the five classes, any programs, drafts, messages and number
of signatures.
*KeyDerivation.* The invariant is that everything was made by its constructor
(`DerivationInv`), and that the pair in memory, the one in storage and the nonce of the
JWT belong together (`LoginInv`). The work is in the packing: chunks of bytes are numbers
below the field's order, so reducing them changes nothing (`PackedAreScalars`), equal
chunks are equal bytes (`PackedTell`), and equal padded names of equal length are equal
names (`PaddingTells`) - without the appended length they would not be. A signature's
s below the order is the only one of its residue (`CanonicalIsSmall`: comparing bytes from
the highest is comparing numbers), and `ChildIndex` is injective below 2^32
(`PathsAreTold`). Any field, group, lengths and limits with the assumptions above.

*Bcs* (in ClientReads_proofs). What is written is read back in front of any bytes that
follow, so that parts of an object can be read one by one: `UintsAreReadBack`,
`WordsAreReadBack`, `Uleb128IsReadBack`, `BytesAreReadBack`; and `Uleb128IsBounded`,
that no bytes at all make deserializeUleb128AsU32 return more than a u32. What
digits are worth is in `Induction`; the work is in where things are: each word among the bytes of a
number (`WordsInOrder`, an induction on what is appended), and where the uleb128 loop ends
(`LoopReadsGroups`): it must not stop at MaxU32 before the last group, which holds
because the last of several groups is not 0 and the groups before it are worth less. Any
even number of values of a byte, from 4 on.

**Induction.** The library's induction theorems take a predicate as parameter, which
the installed provers cannot instantiate. `Induction` does without: a set that holds
`a`, and with each number below `b` the next one, holds `a .. b`, which follows from
the well-foundedness of `<` (`LeastNumber`). Each use builds the set from its property.
With it come the values of recursive functions on `1 .. n`, of `FlattenSeq`, and of the
sorted sequence of a finite set, the arithmetic of `\div` and `%`, and what digits in any
base do: values are unique, bounded by the powers of the base, and keep their value behind
zeroes.

**Only model-checked.** Liveness (`LockIsReleased`, `WaitsEnd`, `BatchIsReported`,
`CallsEnd`, `ReadsEnd`). Of `typed_calls`, the invariants of layouts and types
(`TypesAreRead`, `AcceptedArgumentsDecode`, `ValuesSurviveTheWire`, `HashInputsDiffer`):
layouts and types are trees of any depth, their operators are RECURSIVE, and modules
that reach those are beyond tlapm; only the bytes below them (`Bcs`) are proved about. `QueriesFitTheSchema`: no argument, only the
evaluation of large tables, which is TLC's work.

## 6. Where code and documentation disagree

Five runs end with a counterexample; PROJECT.json quotes the lines.

- `management_generation_failure` / `EverySubmissionIsReported`: one transaction
  that cannot be generated rejects `run()`, which nobody awaits; transactions
  submitted before it are executed, and no event is ever fired.
- `derive_after_rotation` / `DerivedAccountExists`: isAccountExist follows the
  table of original addresses, but the account is built with the address that the
  new key would derive, which is not on chain.
- `unseparated_names` / `NamesAreSeparated`: prepareNamedAddresses counts its index before
  it compares (`move.ts:166-168`): of two names none is followed by the comma that its doc
  shows, of three only the first.
- `spaced_types_refused` / `SpacedTypesAreRead`: parseTypeTag refuses a blank before a
  comma, and so the `Pair< u8 , u16>` of its own comment.
- `incomplete_blocks` / `BlocksAreComplete`: fillBlockTransactions runs while
  `i < lastVersion` and never asks for a last version that needs a page of its own; the
  block is returned without it.

Others, met while modelling and in the models as the code has them:

*Submission and waiting.* When `getInfo` fails, nextSequenceNumber returns 0, which
it neither read nor reserved. A payload pushed after the submission task found
none is never submitted. batchTransactionsForSingleAccount
(`src/api/transaction.ts:333-344`) does not await forSingleAccount: it resolves at
once, and a failure becomes an unhandled rejection although the doc (:320) says
the function throws. waitForTransaction sleeps its whole last interval: with the
defaults nothing looks after about 15 s, and a transaction that commits then is
reported at about 23 s as pending. With a
fee payer, any error of getInfo becomes sequence number 0. rotateAuthKey reads the
number twice. waitForIndexer's branch without a processor has no caller.

*HTTP client.* The text of a proxy's 5xx, and an indexer's answer without data,
throw TypeErrors (`src/client/core.ts:109`). EndlessConfig never assigns
`settings.indexerV2`. getRequestUrl has no case for FAUCET and PEPPER, so
postEndlessFaucet and postEndlessPepperService always throw. getEndlessIndexer drops
`options.overrides`, paginateWithCursor and the prover and pepper posts do not merge
the client configuration, and HEADERS overrides of one request are lost.

*Cache.* The key of getModule has no network. An ABI can be ten minutes old because
two caches of five nest. getKeylessConfig has no ledger version in its key. Keys
hold the caller's spelling of an address.

*Reads.* The condition of getAccountCollectionsWithOwnedTokens (`internal/account.ts:358`)
compares `amount`, a column its table does not have, so that the indexer refuses every such
call. The two table reads need the condition they document as optional. Event
wrappers drop offset and limit; the coins' REST calls ignore an order.
getAccountTokensCount waits for the processor of another table.
lookupOriginalAccountAddress accepts minimumLedgerVersion and never waits. Order
types offer relations the schema refuses, `OrderByArg<GetAccountCoinsDataResponse>`
is the type of a page, getOwnedDigitalAssets returns the type of another query.
getCollectionId, getAccountCoinAmount and getProcessorStatus dereference a first
row that may be missing. Conditions of the name service carry an address as its
caller wrote it.

*Names and addresses.* The grace threshold takes now() twice, so a call at midnight
at the end of a month is off by the length of a month. A subdomain's expiration is
never compared with now; "abc." is a domain "abc". An unprefixed hexadecimal text
that is also base 58 of 32 bytes is read as another address, where the comment of
fromString promises the hexadecimal reading. Hex.isValid refuses "0x1".

*Builders and arguments.* Properties of type ADDRESS given as AccountAddress are
always rejected, raw Uint8Array addresses are rejected by freeze, unfreeze,
mintSoulBound and transferCoin, FixedBytes by checkType, which of a vector looks only at
the first element. `vec<u8>tor` is accepted, and arguments of a placeholder in an ABI's
type are dropped. ULEB128 accepts forms
that are not canonical. A script's string of 128 bytes or more loses one of two
length bytes. TypeTagReference writes no value; `MoveVector.U8([])` throws.
generateViewFunctionPayload spreads its arguments after the ABI.
mintDigitalAsset does not compare the numbers of its property lists.

*Signing.* generateSigningMessageForSerializable names the class by
`constructor.name`, which a minifier changes. A text "face" is signed as bytes
0xface. A second transactionAsFeePayer invalidates what was signed over the
first's address. signAndSubmitTransaction never passes a feePayerAuthenticator.
Submit.multiAuthKey and Simulate.mock always throw for sponsored transactions;
simulating a multi-agent transaction with a MultiKey or keyless key falls into the
legacy path and throws. MultiKeyAccount.verifySignature ignores the bitmap and the
threshold, and throws with a keyless key.

*Keys and processes.* isValidHardenedPath says that all components of an Ed25519 path
must be hardened (`hdKey.ts:51`), but an index of 2^31 or more passes its test, and the
2^31 that is added in 32 bits makes it an unhardened one; so `KeysHaveOneOrigin` stops at
32 bits. An index above 2^32 is derived with its remainder, and digits beyond
2^53 are rounded. A pair given 0 as its expiry gets the one of two weeks. A second `run` on a
LocalNode forgets the child it started before, which `stop` then cannot kill; an "error"
of a child, such as a missing npx, has no listener and ends the program.

## 7. Not modelled

- Curves, hashes, pairings, the seed of a mnemonic and random generation: third-party
  libraries.
- Wording of errors, logging, telemetry headers, URLs and the encoding of bodies.
- In keyless accounts: the pepper service, the decoding of the JWT's contents, and whether
  the chain accepts a proof. A key whose address is given explicitly loses it when it is
  deserialized; the model's accounts have the address their key derives.
- In key derivation: path numbers beyond 2^53, whole hours of a local time zone that is not
  whole hours away.
- Of the command line: the output of the children, and a process number that the operating
  system gives out again between the child's end and `stop`.
- `miniprogram.ts`: a copy of the builder's payload functions that nothing imports.
- Type declarations without behaviour: nullable fields, generated input types of
  tables that no function reads, the scalars of columns. Most of
  `types/generated/types.ts` is of this kind.
- Single reads of the full node that return one answer as it came, gas and expiry
  options of a transaction.
- A listener that throws inside `emit` (the listeners installed by
  TransactionManagement are async and cannot), and how often a poll of 10 ms
  repeats, which no property depends on.
- That the node answers a page of transactions with fewer than asked: the
  versions of a block are committed when the block is.
- Two workers on one account (below).

## 8. Plan

Done, in this order: AsyncQueue and its refinement, AccountSequenceNumber,
TransactionWorker, TransactionManagement, WaitForTransaction, BlockFill,
KeylessAccount and SignAndSubmit; the BCS layouts, the type-tag parser, argument
conversion and the builders; the indexer's schema, documents, calls and reads;
MemoizedReads and AccountKeys; Accounts and Signing; AnsNames and AddressText;
KeyDerivation and CommandLine.

Next, most important first:

1. **TwoWorkers**: a second forSingleAccount while the first worker still runs,
   two AccountSequenceNumber objects on one account. It needs an abstraction of
   the worker: two copies of its state exceed TLC's reach at any useful bound.
2. Layouts without RECURSIVE operators, one definition per class, so that what a class
   keeps on the wire follows from the theorems about the bytes of Bcs.
