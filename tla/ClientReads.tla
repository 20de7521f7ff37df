----------------------------- MODULE ClientReads -----------------------------
(***************************************************************************)
(* One client's reads, one at a time, while the chain and the indexer move *)
(* on: the methods of api/*.ts, which wait for a processor of the indexer  *)
(* (waitForIndexer, internal/transaction.ts) and then ask it, and the      *)
(* reads of the full node that follow a cursor (paginateWithCursor,        *)
(* client/get.ts).  Time is the `elapsed` milliseconds of a wait; every    *)
(* other step takes none of it.                                            *)
(*                                                                         *)
(* Every version of the ledger adds one row to every table; a processor at *)
(* version v has written the rows 1 .. v.  The full node keeps items whose *)
(* keys are numbers, Items(v) at version v, and a page holds PageSize.     *)
(***************************************************************************)
EXTENDS Integers, Sequences, FiniteSets, SequencesExt

(***************************************************************************)
(* The reads that the classes of api/*.ts offer on the indexer's tables.   *)
(* Each waits until the processor it names has reached the caller's        *)
(* minimumLedgerVersion, if there is one, and then makes a call of         *)
(* IndexerCalls with the options it accepts.  The methods of ANS, Coin and *)
(* getChainTopUserTransactions accept no minimum and wait for nothing.     *)
(***************************************************************************)
Calls == INSTANCE IndexerCalls

\* utils/const.ts
ACCOUNT_TRANSACTION_PROCESSOR == "account_transactions_processor"
DEFAULT == "default_processor"
EVENTS_PROCESSOR == "events_processor"
FUNGIBLE_ASSET_PROCESSOR == "fungible_asset_processor"
STAKE_PROCESSOR == "stake_processor"
TOKEN_V2_PROCESSOR == "token_v2_processor"
USER_TRANSACTION_PROCESSOR == "user_transaction_processor"
NoProcessor == "no processor"

\* waitForIndexerOnVersion({ minimumLedgerVersion, processorType }), then the call.
After(waited, call, accepted) ==
    [processorType |-> waited, accepts |-> accepted,
     table |-> call.table, sends |-> call.sends, accepted |-> call.accepted,
     needsWhere |-> call.needsWhere, unsorted |-> call.unsorted, typed |-> call.typed,
     newestFirst |-> call.newestFirst, address |-> call.address, takes |-> call.takes]

Unsynced(call, accepts) == After(NoProcessor, call, accepts)

\* The tables each processor writes.  The indexer is a service outside this
\* repository: the pairs are those of the methods that agree with each other.
Keeper(table) ==
    CASE table \in {"current_token_ownerships_v2", "current_collection_ownership_v2_view",
                    "current_token_datas_v2", "token_activities_v2", "current_collections_v2"}
             -> TOKEN_V2_PROCESSOR
      [] table \in {"current_fungible_asset_balances", "fungible_asset_activities",
                    "fungible_asset_metadata"} -> FUNGIBLE_ASSET_PROCESSOR
      [] table \in {"delegated_staking_activities", "num_active_delegator_per_pool"}
             -> STAKE_PROCESSOR
      [] table = "events" -> EVENTS_PROCESSOR
      [] table = "account_transactions" -> ACCOUNT_TRANSACTION_PROCESSOR
      [] table = "user_transactions" -> USER_TRANSACTION_PROCESSOR
      [] OTHER -> DEFAULT
-----------------------------------------------------------------------------
None == Calls!None
Limited == Calls!Limited
Sorted == Calls!Sorted
Page == Calls!Page
SortedPage == Calls!SortedPage
Filtered == Calls!FromCaller

(* api/account.ts *)
getAccountTokensCount == After(ACCOUNT_TRANSACTION_PROCESSOR, Calls!getAccountTokensCount, None)
getAccountOwnedTokens == After(TOKEN_V2_PROCESSOR, Calls!getAccountOwnedTokens, SortedPage)
getAccountOwnedTokensFromCollectionAddress ==
    After(TOKEN_V2_PROCESSOR, Calls!getAccountOwnedTokensFromCollectionAddress, SortedPage)
getAccountCollectionsWithOwnedTokens ==
    After(TOKEN_V2_PROCESSOR, Calls!getAccountCollectionsWithOwnedTokens, SortedPage)
getAccountTransactionsCount ==
    After(ACCOUNT_TRANSACTION_PROCESSOR, Calls!getAccountTransactionsCount, None)
getAccountCoinsData == After(FUNGIBLE_ASSET_PROCESSOR, Calls!getAccountCoinsData, Sorted \cup Filtered)
getCoinsDataCreatedBy == After(FUNGIBLE_ASSET_PROCESSOR, Calls!getCoinsDataCreatedBy, Sorted \cup Filtered)
getAccountCoinsCount == After(FUNGIBLE_ASSET_PROCESSOR, Calls!getAccountCoinsCount, None)
getAccountCoinAmount == After(FUNGIBLE_ASSET_PROCESSOR, Calls!getAccountCoinAmount, None)
getAccountEDSAmount == getAccountCoinAmount
getAccountOwnedObjects == After(DEFAULT, Calls!getAccountOwnedObjects, SortedPage)
getAccountsCoinBalance == Unsynced(Calls!getAccountsCoinBalance, None)

(* api/coin.ts *)
getCoinData == Unsynced(Calls!getCoinData, None)
getCoinListDataById == Unsynced(Calls!getCoinListDataById, None)

(* api/digitalAsset.ts *)
getCollectionData == After(TOKEN_V2_PROCESSOR, Calls!getCollectionData, None)
getCollectionDataByCollectionId ==
    After(TOKEN_V2_PROCESSOR, Calls!getCollectionDataByCollectionId, None)
getCollectionId == After(TOKEN_V2_PROCESSOR, Calls!getCollectionId, None)
getDigitalAssetData == After(TOKEN_V2_PROCESSOR, Calls!getDigitalAssetData, None)
getCurrentDigitalAssetOwnership ==
    After(TOKEN_V2_PROCESSOR, Calls!getCurrentDigitalAssetOwnership, None)
getOwnedDigitalAssets == After(TOKEN_V2_PROCESSOR, Calls!getOwnedDigitalAssets, SortedPage)
\* Mutant: it waits for another processor than its table's.
getDigitalAssetActivity_Default == After(DEFAULT, Calls!getDigitalAssetActivity, SortedPage)
getDigitalAssetActivity == After(TOKEN_V2_PROCESSOR, Calls!getDigitalAssetActivity, SortedPage)

(* api/event.ts *)
getModuleEventsByEventType ==
    After(EVENTS_PROCESSOR, Calls!getModuleEventsByEventType, SortedPage)
getAccountEventsByCreationNumber ==
    After(EVENTS_PROCESSOR, Calls!getAccountEventsByCreationNumber, None)
getAccountEventsByEventType ==
    After(EVENTS_PROCESSOR, Calls!getAccountEventsByEventType, SortedPage)
getEvents == After(EVENTS_PROCESSOR, Calls!getEvents, SortedPage \cup Filtered)

(* api/fungibleAsset.ts *)
getFungibleAssetMetadata ==
    After(FUNGIBLE_ASSET_PROCESSOR, Calls!getFungibleAssetMetadata, Page \cup Filtered)
getFungibleAssetMetadataByAssetType ==
    [After(FUNGIBLE_ASSET_PROCESSOR, Calls!getFungibleAssetMetadata, None) EXCEPT !.takes = "first"]
getFungibleAssetActivities ==
    After(FUNGIBLE_ASSET_PROCESSOR, Calls!getFungibleAssetActivities, Page \cup Filtered)
getCurrentFungibleAssetBalances ==
    After(FUNGIBLE_ASSET_PROCESSOR, Calls!getCurrentFungibleAssetBalances, Page \cup Filtered)

(* api/staking.ts *)
getNumberOfDelegators == After(STAKE_PROCESSOR, Calls!getNumberOfDelegators, None)
getNumberOfDelegatorsForAllPools ==
    After(STAKE_PROCESSOR, Calls!getNumberOfDelegatorsForAllPools, Sorted)
getDelegatedStakingActivities == After(STAKE_PROCESSOR, Calls!getDelegatedStakingActivities, None)

(* api/table.ts, api/general.ts *)
getTableItemsData ==
    After(DEFAULT, Calls!getTableItemsData, SortedPage \cup Filtered)
getTableItemsMetadata ==
    After(DEFAULT, Calls!getTableItemsMetadata, SortedPage \cup Filtered)
getChainTopUserTransactions == Unsynced(Calls!getChainTopUserTransactions, Limited)
getIndexerLastSuccessVersion == Unsynced(Calls!getIndexerLastSuccessVersion, None)
getProcessorStatus == Unsynced(Calls!getProcessorStatus, None)

(* api/ans.ts *)
getName == Unsynced(Calls!getName, None)
getAccountNames == Unsynced(Calls!getAccountNames, SortedPage \cup Filtered)
getAccountDomains == Unsynced(Calls!getAccountDomains, SortedPage \cup Filtered)
getAccountSubdomains == Unsynced(Calls!getAccountSubdomains, SortedPage \cup Filtered)
getDomainSubdomains == Unsynced(Calls!getDomainSubdomains, SortedPage \cup Filtered)

Methods ==
    {getAccountTokensCount, getAccountOwnedTokens, getAccountOwnedTokensFromCollectionAddress,
     getAccountCollectionsWithOwnedTokens, getAccountTransactionsCount, getAccountCoinsData,
     getCoinsDataCreatedBy, getAccountCoinsCount, getAccountCoinAmount, getAccountEDSAmount,
     getAccountOwnedObjects, getAccountsCoinBalance, getCoinData, getCoinListDataById,
     getCollectionData, getCollectionDataByCollectionId, getCollectionId, getDigitalAssetData,
     getCurrentDigitalAssetOwnership, getOwnedDigitalAssets, getDigitalAssetActivity,
     getModuleEventsByEventType, getAccountEventsByCreationNumber, getAccountEventsByEventType,
     getEvents, getFungibleAssetMetadata, getFungibleAssetMetadataByAssetType,
     getFungibleAssetActivities, getCurrentFungibleAssetBalances, getNumberOfDelegators,
     getNumberOfDelegatorsForAllPools, getDelegatedStakingActivities, getTableItemsData,
     getTableItemsMetadata, getChainTopUserTransactions, getIndexerLastSuccessVersion,
     getProcessorStatus, getName, getAccountNames,
     getAccountDomains, getAccountSubdomains, getDomainSubdomains}
-----------------------------------------------------------------------------
CONSTANTS MaxVersion,    \* bound: the last version of the ledger
          RequestTimes,  \* the milliseconds a request for a status may take
          Histories,     \* the functions Items that the node may have lived through
          PageSize,      \* the most items the node puts into a page
          Nothing        \* undefined

ASSUME ReadsAssumption ==
    /\ MaxVersion \in Nat /\ PageSize \in Nat \ {0} /\ RequestTimes \subseteq Nat
    /\ \E t \in RequestTimes : \A u \in RequestTimes : u <= t
    /\ \A Items \in Histories :
          /\ DOMAIN Items = 0 .. MaxVersion
          /\ \A version \in 0 .. MaxVersion :
                Items[version] \in SUBSET Nat /\ IsFiniteSet(Items[version])
    /\ Nothing \notin Nat

Versions == 0 .. MaxVersion

VARIABLES ledger,          \* the latest version of the chain
          processed,       \* the version reached by each processor the call touches
          pc,
          method, minimum, options, spelling,  \* the call and its arguments
          elapsed, indexerVersion,             \* locals of waitForIndexer
          Items, pinned, start, since, out,    \* locals of paginateWithCursor
          outcome

waitVars == <<method, minimum, elapsed, indexerVersion>>
pageVars == <<Items, pinned, start, since, out>>
vars == <<ledger, processed, pc, waitVars, options, spelling, pageVars, outcome>>

Threw(why) == [kind |-> "threw", value |-> why]
Returned(kind, value) == [kind |-> kind, value |-> value]

Forget ==
    /\ Items' = Nothing /\ pinned' = Nothing /\ start' = Nothing
    /\ since' = Nothing /\ out' = <<>>

ForgetCall ==
    /\ method' = Nothing /\ minimum' = Nothing /\ options' = {} /\ spelling' = "long"
    /\ elapsed' = 0 /\ indexerVersion' = -1 /\ processed' = <<>>

Init ==
    /\ ledger = 0 /\ processed = <<>> /\ pc = "idle"
    /\ method = Nothing /\ minimum = Nothing /\ options = {} /\ spelling = "long"
    /\ elapsed = 0 /\ indexerVersion = -1
    /\ Items = Nothing /\ pinned = Nothing /\ start = Nothing /\ since = Nothing /\ out = <<>>
    /\ outcome = Nothing
-----------------------------------------------------------------------------
(* The indexer's reads. *)

Touched(m) == {m.processorType, Keeper(m.table)} \ {NoProcessor}

\* waitForIndexerOnVersion: without a minimum nothing is waited for.  The caller
\* knows its minimum from a transaction that the chain has committed.
Begin(m, min) ==
    /\ pc = "idle"
    /\ (m.processorType = NoProcessor => min = Nothing)
    /\ \E at \in [Touched(m) -> 0 .. ledger \cup {Nothing}] : processed' = at
    /\ method' = m /\ minimum' = min
    /\ pc' = IF min = Nothing THEN "reading" ELSE "testing"
    /\ outcome' = Nothing
    /\ UNCHANGED <<ledger, options, spelling, elapsed, indexerVersion, pageVars>>

timeoutMilliseconds == 3000
pause == 200

\* Mutant: no timeout at all.
TestTimeout_Never ==
    /\ pc = "testing" /\ pc' = "asking"
    /\ UNCHANGED <<ledger, processed, waitVars, options, spelling, pageVars, outcome>>

\* The top of the loop: the time is tested before each request.
TestTimeout ==
    /\ pc = "testing"
    /\ \/ /\ elapsed > timeoutMilliseconds
          /\ pc' = "done" /\ outcome' = Threw("timeout")
       \/ /\ elapsed <= timeoutMilliseconds
          /\ pc' = "asking" /\ UNCHANGED outcome
    /\ UNCHANGED <<ledger, processed, waitVars, options, spelling, pageVars>>

\* The answer of getProcessorStatus.  A processor the indexer does not know has
\* no status, and reading its last_success_version is a TypeError.
HearStatus(milliseconds) ==
    LET version == processed[method.processorType] IN
    /\ pc = "asking"
    /\ elapsed' = elapsed + milliseconds
    /\ \/ /\ version = Nothing
          /\ pc' = "done" /\ outcome' = Threw("TypeError")
          /\ UNCHANGED indexerVersion
       \/ /\ version # Nothing
          /\ indexerVersion' = version
          /\ pc' = IF version >= minimum THEN "reading" ELSE "sleeping"
          /\ UNCHANGED outcome
    /\ UNCHANGED <<ledger, processed, method, minimum, options, spelling, pageVars>>

\* Mutant: the start time is taken again on every turn.
Sleep_Restarted ==
    /\ pc = "sleeping"
    /\ elapsed' = 0 /\ pc' = "testing"
    /\ UNCHANGED <<ledger, processed, method, minimum, indexerVersion, options, spelling,
                   pageVars, outcome>>

Sleep ==
    /\ pc = "sleeping"
    /\ elapsed' = elapsed + pause /\ pc' = "testing"
    /\ UNCHANGED <<ledger, processed, method, minimum, indexerVersion, options, spelling,
                   pageVars, outcome>>

\* The rows the condition selects, in an order the query's order_by allows, and
\* the page of one row, after one row, that offset and limit cut out of them.  A
\* caller's own condition is one that every row meets.  A processor has one row of
\* status, whatever its version.
Selected(m, spelled) ==
    IF processed[Keeper(m.table)] = Nothing \/ (m.address = "given" /\ spelled # "long") THEN {}
    ELSE IF m.table = "processor_status" THEN {1}
    ELSE 1 .. processed[Keeper(m.table)]

Descending(rows) == \A i, j \in DOMAIN rows : i < j => rows[i] > rows[j]

Cut(rows, sent) ==
    LET first == IF "offset" \in sent THEN 2 ELSE 1
        last == IF "limit" \in sent THEN first ELSE Len(rows)
    IN  SubSeq(rows, first, IF last < Len(rows) THEN last ELSE Len(rows))

Taken(takes, rows) ==
    CASE takes = "all" -> Returned("rows", rows)
      [] takes = "count" -> Returned("count", Len(rows))
      [] takes = "fieldOfFirst" /\ rows = <<>> -> Threw("TypeError")
      [] takes = "firstOrZero" /\ rows = <<>> -> Returned("count", 0)
      [] takes = "first" /\ rows = <<>> -> Returned("row", Nothing)
      [] OTHER -> Returned("row", rows[1])

\* What the caller may order the rows by: a column, or whatever else the type of
\* the rows lets it name.
Keys(sent) == IF "order_by" \in sent THEN {"a column"} \cup method.unsorted ELSE {"a column"}

Refused(given, key) ==
    ~method.accepted \/ (method.needsWhere /\ "where" \notin given) \/ key \in method.unsorted

\* The call of IndexerCalls.  The caller's options and the spelling of its
\* address matter only here.
Read(given, spelled) ==
    LET sent == given \cap method.sends
        all == Selected(method, spelled)
    IN  /\ pc = "reading"
        /\ spelling' = spelled
        /\ \E rows \in [1 .. Cardinality(all) -> all], key \in Keys(sent) :
              /\ \A row \in all : \E i \in DOMAIN rows : rows[i] = row
              /\ ("order_by" \in sent \/ method.newestFirst => Descending(rows))
              /\ options' = given \cup (method.unsorted \cap {key})
              /\ outcome' = IF Refused(given, key) THEN Threw("refused")
                            ELSE Taken(method.takes, Cut(rows, sent))
        /\ pc' = "done"
        /\ UNCHANGED <<ledger, processed, waitVars, pageVars>>
-----------------------------------------------------------------------------
(* The reads that follow a cursor: getModules and getResources.            *)

ItemsAt(version) == {key \in Items[version] : start = Nothing \/ key >= start}

\* The node lists its items in the order of their keys.
InOrder(keys) ==
    CHOOSE list \in [1 .. Cardinality(keys) -> keys] :
        \A i, j \in DOMAIN list : i < j => list[i] < list[j]

BeginPages(lived, version) ==
    /\ pc = "idle"
    /\ Items' = lived /\ pinned' = version /\ start' = Nothing /\ since' = ledger /\ out' = <<>>
    /\ pc' = "paging" /\ outcome' = Nothing
    /\ UNCHANGED <<ledger, processed, waitVars, options, spelling>>

\* Mutant: every request asks for the first page.
NextPage_Again ==
    LET left == InOrder(Items[IF pinned = Nothing THEN ledger ELSE pinned])
        cursor == IF Len(left) > PageSize THEN left[PageSize + 1] ELSE Nothing
    IN  /\ pc = "paging" /\ Len(out) <= 2 * PageSize
        /\ out' = out \o SubSeq(left, 1, IF cursor = Nothing THEN Len(left) ELSE PageSize)
        /\ start' = cursor
        /\ \/ cursor # Nothing /\ UNCHANGED <<pc, outcome>>
           \/ cursor = Nothing /\ pc' = "done" /\ outcome' = Returned("items", out')
        /\ UNCHANGED <<ledger, processed, waitVars, options, spelling, Items, pinned, since>>

\* One turn of the loop.  The cursor in the headers is the key of the next item,
\* and there is none behind the last page; the next request starts at it.
NextPage ==
    LET left == InOrder(ItemsAt(IF pinned = Nothing THEN ledger ELSE pinned))
        cursor == IF Len(left) > PageSize THEN left[PageSize + 1] ELSE Nothing
    IN  /\ pc = "paging"
        /\ out' = out \o SubSeq(left, 1, IF cursor = Nothing THEN Len(left) ELSE PageSize)
        /\ start' = cursor
        /\ \/ cursor # Nothing /\ UNCHANGED <<pc, outcome>>
           \/ cursor = Nothing /\ pc' = "done" /\ outcome' = Returned("items", out')
        /\ UNCHANGED <<ledger, processed, waitVars, options, spelling, Items, pinned, since>>

\* A page that cannot be had rejects the call: the pages before it are lost.
PageFails ==
    /\ pc = "paging"
    /\ pc' = "done" /\ outcome' = Threw("request")
    /\ UNCHANGED <<ledger, processed, waitVars, options, spelling, pageVars>>
-----------------------------------------------------------------------------
(* The client goes on, and so do the chain and the indexer.                *)

Return ==
    /\ pc = "done"
    /\ pc' = "idle" /\ outcome' = Nothing
    /\ ForgetCall /\ Forget
    /\ UNCHANGED ledger

Commit ==
    /\ ledger < MaxVersion
    /\ ledger' = ledger + 1
    /\ UNCHANGED <<processed, pc, waitVars, options, spelling, pageVars, outcome>>

Process(p) ==
    /\ pc # "done"
    /\ processed[p] # Nothing /\ processed[p] < ledger
    /\ processed' = [processed EXCEPT ![p] = @ + 1]
    /\ UNCHANGED <<ledger, pc, waitVars, options, spelling, pageVars, outcome>>

Client ==
    \/ TestTimeout \/ Sleep \/ NextPage \/ PageFails
    \/ \E milliseconds \in RequestTimes : HearStatus(milliseconds)
    \/ pc = "reading" /\ \E given \in SUBSET method.accepts, spelled \in {"long", "short"} :
                              Read(given, spelled)

Next ==
    \/ \E m \in Methods, min \in 0 .. ledger \cup {Nothing} : Begin(m, min)
    \/ \E lived \in Histories, version \in 0 .. ledger \cup {Nothing} : BeginPages(lived, version)
    \/ Client \/ Return \/ Commit
    \/ \E p \in DOMAIN processed : Process(p)

Spec == Init /\ [][Next]_vars /\ WF_vars(Client)
-----------------------------------------------------------------------------
TimedOut == outcome.kind = "threw" /\ outcome.value = "timeout"
WasRefused == outcome.kind = "threw" /\ outcome.value = "refused"
\* A call that ended with the answer of the indexer.
Answered == pc = "done" /\ method # Nothing /\ ~TimedOut

\* The rows an answer shows: those of a version at or below `version` are there.
Shows(version) ==
    CASE outcome.kind = "rows" -> 1 .. version \subseteq ToSet(outcome.value)
      [] outcome.kind = "count" -> outcome.value >= version
      [] outcome.kind = "row" -> version > 0 => outcome.value # Nothing
      [] outcome.kind = "threw" -> version = 0 \/ (outcome.value = "TypeError" /\ indexerVersion = -1)

\* Reads are synced up to the minimum the caller gave: everything the chain
\* committed up to minimumLedgerVersion is in the answer, so a caller finds what
\* its own transaction wrote.  Two exceptions are in the code: a page shows only
\* its rows, and getAccountTokensCount waits for another processor than the one
\* that keeps the tokens.
ReadYourWrites ==
    Answered /\ minimum # Nothing /\ method # getAccountTokensCount
        /\ options \cap Page = {} /\ ~WasRefused
        /\ method.table # "processor_status" /\ ~(method.address = "given" /\ spelling = "short")
        => Shows(minimum)

\* The two wrappers of getEvents that accept a page and lose it.
LosesPage == {getModuleEventsByEventType, getAccountEventsByEventType}
\* The coins' methods accept an order their REST path does not carry.
LosesOrder == {getAccountCoinsData, getCoinsDataCreatedBy}

\* The options a method accepts reach the rows it returns: no more of them than
\* the limit, in the order asked for, and, in that order, not those before the
\* offset.  LosesPage and LosesOrder are the code's exceptions.
OptionsAreHonoured ==
    Answered /\ outcome.kind = "rows" =>
        LET rows == outcome.value
            newest == processed[Keeper(method.table)]
        IN  /\ "limit" \in options /\ method \notin LosesPage => Len(rows) <= 1
            /\ "order_by" \in options /\ method \notin LosesOrder => Descending(rows)
            /\ {"offset", "order_by"} \subseteq options /\ method \notin LosesPage
                 => newest \notin ToSet(rows)

\* What a caller reads is what it asked for, and no older than its own writes.
ReadsAnswerTheCall == ReadYourWrites /\ OptionsAreHonoured

\* The relations that the types of the rows offer as names to order by.
OneRow == {"current_token_data", "current_collection"}

\* Every call that its types allow is one the indexer takes, and its rows have the
\* fields their type promises, although the conditions and the orders are sent as
\* untyped variables.  The code has three exceptions: the condition of
\* getAccountCollectionsWithOwnedTokens compares a column its table lacks, the two
\* table reads need the condition they call optional, and a relation is no order.
QueriesFitTheSchema ==
    Answered =>
        /\ WasRefused =>
              \/ method = getAccountCollectionsWithOwnedTokens
              \/ method \in {getTableItemsData, getTableItemsMetadata} /\ "where" \notin options
              \/ options \cap OneRow # {}
        /\ outcome.kind \in {"row", "rows"} => method.typed

LongestRequest == CHOOSE t \in RequestTimes : \A u \in RequestTimes : u <= t

\* waitForIndexer gives up only after its three seconds, only if the last status
\* it heard was behind, and never later than a pause and a request after them; a
\* status that is late but sufficient still lets the call go on.
IndexerWaitIsHonest ==
    method # Nothing =>
        /\ elapsed <= timeoutMilliseconds + pause + LongestRequest
        /\ pc = "done" /\ TimedOut => elapsed > timeoutMilliseconds /\ indexerVersion < minimum
        /\ pc = "reading" /\ minimum # Nothing => indexerVersion >= minimum

\* The versions an unpinned read may have seen.
Seen == IF pinned = Nothing THEN since .. ledger ELSE {pinned}

\* A read that follows a cursor returns, in order and once each, only items that
\* were there at a version it saw, and misses none that was there at all of them.
\* Pinned to a ledger version it is therefore exactly that version's items.
PagesAreComplete ==
    Items # Nothing =>
        /\ \A i, j \in DOMAIN out : i < j => out[i] < out[j]
        /\ pc = "done" /\ outcome.kind = "items" =>
              /\ \A key \in ToSet(out) : \E version \in Seen : key \in Items[version]
              /\ \A key \in UNION {Items[version] : version \in Seen} :
                    (\A version \in Seen : key \in Items[version]) => key \in ToSet(out)

\* Every call comes to an end, whether the processor it waits for moves or not.
ReadsEnd == (pc # "idle") ~> (pc = "done")
=============================================================================
