----------------------------- MODULE BlockFill ----------------------------
(***************************************************************************)
(* getBlockByVersion and getBlockByHeight with fillBlockTransactions       *)
(* (internal/transaction.ts): the node returns a block with the first of   *)
(* its transactions, the rest is fetched in pages, all at once, and put    *)
(* together when the last page has arrived.                                *)
(*                                                                         *)
(* A transaction is its version. A page is fetched by getTransactions,     *)
(* whose single request (the node sends no cursor for transactions) is     *)
(* answered with the committed transactions of the range, or fails.        *)
(***************************************************************************)
EXTENDS Integers, Sequences, SequencesExt

CONSTANTS pageSize,     \* 100 in the code
          LastVersions  \* bound: the last versions of the blocks considered

ASSUME PageSizeAssumption == pageSize \in Nat \ {0}
ASSUME LastVersionsAssumption == LastVersions \subseteq Nat

VARIABLES
    blockPc,                          \* block, pages, returned or thrown
    withTransactions,            \* options?.withTransactions
    firstVersion, lastVersion,   \* of the block at the node
    transactions,                \* block.transactions
    latestVersion,               \* the last version the node sent with it
    pages,                       \* fetchFutures: offset and limit of each
    responses                    \* the settled ones: an answer or a failure

requestVars == <<withTransactions, firstVersion, lastVersion>>
blockVars == <<blockPc, requestVars, transactions, latestVersion, pages, responses>>

BlockInit ==
    /\ blockPc = "block"
    /\ withTransactions \in BOOLEAN
    /\ lastVersion \in LastVersions
    /\ firstVersion \in 0 .. lastVersion
    /\ transactions = <<>>
    /\ latestVersion = -1
    /\ pages = <<>>
    /\ responses = <<>>
-----------------------------------------------------------------------------
\* The versions a .. b, as a sequence.
Run(a, b) == [i \in 1 .. (b - a + 1) |-> a + i - 1]

Smaller(a, b) == IF a < b THEN a ELSE b

\* How many times `for (let i = from; i < last; i += pageSize)` runs.
PageCount(from, last) ==
    IF from < last THEN (last - from + pageSize - 1) \div pageSize ELSE 0

\* Mutant: the last page is not cut at the end of the block.
PagesFrom_NoCut(from, last) ==
    [k \in 1 .. PageCount(from, last) |->
        [offset |-> from + (k - 1) * pageSize, limit |-> pageSize]]

\* The pages that loop requests.
PagesFrom(from, last) ==
    [k \in 1 .. PageCount(from, last) |->
        LET i == from + (k - 1) * pageSize
        IN  [offset |-> i, limit |-> Smaller(pageSize, last - i + 1)]]

\* The node answers with the block and its first n transactions, and the pages
\* with the others are requested. A block with all of them is returned as it is.
BlockArrives(n) ==
    /\ blockPc = "block"
    /\ withTransactions
    /\ n \in 0 .. (lastVersion - firstVersion + 1)
    /\ transactions' = Run(firstVersion, firstVersion + n - 1)
    /\ latestVersion' = firstVersion + n - 1
    /\ \/ /\ latestVersion' = lastVersion
          /\ blockPc' = "returned"
          /\ UNCHANGED <<pages, responses>>
       \/ /\ latestVersion' # lastVersion
          /\ blockPc' = "pages"
          /\ pages' = PagesFrom(latestVersion' + 1, lastVersion)
          /\ responses' = [k \in DOMAIN pages' |-> "pending"]
    /\ UNCHANGED requestVars

\* Without the option the block is returned with no transactions.
BlockArrivesBare ==
    /\ blockPc = "block"
    /\ ~withTransactions
    /\ blockPc' = "returned"
    /\ UNCHANGED <<requestVars, transactions, latestVersion, pages, responses>>

\* The request for the block fails.
BlockFails ==
    /\ blockPc = "block"
    /\ blockPc' = "thrown"
    /\ UNCHANGED <<requestVars, transactions, latestVersion, pages, responses>>

\* A page is answered, before or after the others.
PageArrives(k) ==
    /\ k \in DOMAIN pages
    /\ responses[k] = "pending"
    /\ responses' = [responses EXCEPT ![k] = "answered"]
    /\ UNCHANGED <<blockPc, requestVars, transactions, latestVersion, pages>>

\* A page fails, and Promise.all rejects on the first failure.
PageIsLost(k) ==
    /\ k \in DOMAIN pages
    /\ responses[k] = "pending"
    /\ responses' = [responses EXCEPT ![k] = "failed"]
    /\ blockPc' = IF blockPc = "pages" THEN "thrown" ELSE blockPc
    /\ UNCHANGED <<requestVars, transactions, latestVersion, pages>>

\* The answer of the node to page k.
Answer(k) == Run(pages[k].offset, pages[k].offset + pages[k].limit - 1)

\* Every page has arrived (there may be none): they are put together in the
\* order in which they were requested.
Combine ==
    /\ blockPc = "pages"
    /\ \A k \in DOMAIN pages : responses[k] = "answered"
    /\ transactions' = transactions \o FlattenSeq([k \in DOMAIN pages |-> Answer(k)])
    /\ blockPc' = "returned"
    /\ UNCHANGED <<requestVars, latestVersion, pages, responses>>

BlockNext ==
    \/ \E n \in 0 .. (lastVersion - firstVersion + 1) : BlockArrives(n)
    \/ BlockArrivesBare
    \/ BlockFails
    \/ \E k \in DOMAIN pages : PageArrives(k) \/ PageIsLost(k)
    \/ Combine

BlockSpec == BlockInit /\ [][BlockNext]_blockVars
-----------------------------------------------------------------------------
\* The pages requested cover each version after the ones that came with the
\* block exactly once, up to the last but one, whatever the page size, and no
\* page reaches beyond the block.
PagesTile ==
    blockPc = "pages" =>
       /\ \A v \in (latestVersion + 1) .. (lastVersion - 1) :
             \E k \in DOMAIN pages :
                /\ v \in pages[k].offset .. (pages[k].offset + pages[k].limit - 1)
                /\ \A j \in DOMAIN pages :
                      v \in pages[j].offset .. (pages[j].offset + pages[j].limit - 1) => j = k
       /\ \A k \in DOMAIN pages : pages[k].offset + pages[k].limit - 1 <= lastVersion

\* The versions that were left to fetch before the last one fill the pages that
\* were requested, and the last one would need a page of its own.
LastIsSkipped ==
    latestVersion < lastVersion /\ lastVersion = latestVersion + 1 + Len(pages) * pageSize

\* A block that is returned has its transactions in order, none twice, in whatever
\* order the pages arrived, and all of them, except for the last one where that
\* would need a page of its own: `i < lastVersion` stops short of it.
BlockIsInOrder ==
    blockPc = "returned" /\ withTransactions =>
       transactions = Run(firstVersion, IF LastIsSkipped THEN lastVersion - 1 ELSE lastVersion)

\* What a caller of getBlockByVersion or getBlockByHeight gets.
BlocksAreFilled == PagesTile /\ BlockIsInOrder

\* What the documentation of withTransactions promises ("include all transactions
\* in the block"): a block that is returned has every one of its transactions.
BlocksAreComplete ==
    blockPc = "returned" /\ withTransactions => transactions = Run(firstVersion, lastVersion)
=============================================================================
