------------------------- MODULE ClientReads_proofs -------------------------
(***************************************************************************)
(* Proofs about ClientReads, for any request times, ledger and processors: *)
(* the wait for the indexer ends in time, and what it reports is what it   *)
(* heard.  And about BlockFill, for every page size and every block: the   *)
(* pages that are requested cover the missing versions, and put together   *)
(* they are the block, in whatever order they arrive.  And about the bytes *)
(* of Bcs that all calls and answers go through.                           *)
(***************************************************************************)
EXTENDS ClientReads, BlockFill, Bcs, Induction, TLAPS

\* What is known at each point of the loop of waitForIndexer.
Waits ==
    /\ ledger \in Nat /\ minimum \in Nat \cup {Nothing}
    /\ elapsed \in Nat /\ indexerVersion \in Nat \cup {-1}
    /\ minimum # Nothing => processed \in [Touched(method) -> Nat \cup {Nothing}]
                            /\ method.processorType # NoProcessor
    /\ pc \in {"testing", "asking", "sleeping"} => minimum # Nothing /\ indexerVersion < minimum
    /\ pc = "idle" => elapsed = 0 /\ indexerVersion = -1 /\ minimum = Nothing /\ method = Nothing
    /\ pc = "reading" /\ minimum # Nothing => indexerVersion >= minimum
    /\ pc = "asking" => elapsed <= timeoutMilliseconds
    /\ pc = "sleeping" => elapsed <= timeoutMilliseconds + LongestRequest
    /\ elapsed <= timeoutMilliseconds + pause + LongestRequest
    /\ pc = "paging" => minimum = Nothing /\ method = Nothing
    /\ pc = "done" /\ TimedOut => method = Nothing
                                  \/ (elapsed > timeoutMilliseconds /\ indexerVersion < minimum)

\* No request takes longer than the longest.
LEMMA LongestFacts ==
    LongestRequest \in Nat /\ \A t \in RequestTimes : t \in Nat /\ t <= LongestRequest
  BY ReadsAssumption DEF LongestRequest

\* Before the first call nothing is waited for.
LEMMA WaitsInitially == Init => Waits
  BY LongestFacts DEF Init, Waits, timeoutMilliseconds, pause

LEMMA Begin_Waits ==
  ASSUME Waits, NEW m \in Methods, NEW min \in 0 .. ledger \cup {Nothing}, Begin(m, min)
  PROVE  Waits'
  BY LongestFacts DEF Waits, Begin, timeoutMilliseconds, pause, TimedOut, pageVars

LEMMA TestTimeout_Waits == Waits /\ TestTimeout => Waits'
  BY LongestFacts DEF Waits, TestTimeout, timeoutMilliseconds, pause, TimedOut, waitVars, Threw
LEMMA HearStatus_Waits ==
  ASSUME Waits, NEW t \in RequestTimes, HearStatus(t)
  PROVE  Waits'
  BY LongestFacts DEF Waits, HearStatus, timeoutMilliseconds, pause, TimedOut, pageVars, Threw, Touched
LEMMA Sleep_Waits == Waits /\ Sleep => Waits'
  BY LongestFacts DEF Waits, Sleep, timeoutMilliseconds, pause, TimedOut
LEMMA Read_Waits ==
  ASSUME Waits, NEW given, NEW spelled, Read(given, spelled)
  PROVE  Waits'
<1>1. pc' = "done" /\ pc = "reading" /\ ~TimedOut'
  BY DEF Read, TimedOut, Taken, Returned, Threw, Refused
<1> QED BY <1>1 DEF Waits, Read, waitVars
\* Following a cursor, returning, and what the chain and the indexer do.
LEMMA Others_Wait ==
  ASSUME Waits,
         \/ \E lived \in Histories, version \in 0 .. ledger \cup {Nothing} : BeginPages(lived, version)
         \/ NextPage \/ PageFails \/ Return \/ Commit
         \/ \E p \in DOMAIN processed : Process(p)
  PROVE  Waits'
<1>1. CASE \E lived \in Histories, version \in 0 .. ledger \cup {Nothing} : BeginPages(lived, version)
  BY <1>1, LongestFacts DEF Waits, BeginPages, waitVars, TimedOut, timeoutMilliseconds, pause
<1>2. CASE NextPage
  BY <1>2 DEF Waits, NextPage, waitVars, TimedOut, Returned
<1>3. CASE PageFails
  BY <1>3 DEF Waits, PageFails, waitVars, TimedOut, Threw
<1>4. CASE Return
  BY <1>4, LongestFacts DEF Waits, Return, ForgetCall, timeoutMilliseconds, pause, TimedOut
<1>5. CASE Commit
  BY <1>5 DEF Waits, Commit, waitVars, TimedOut
<1>6. CASE \E p \in DOMAIN processed : Process(p)
  <2>1. PICK p \in DOMAIN processed : Process(p)
    BY <1>6
  <2>2. minimum # Nothing => processed' \in [Touched(method) -> Nat \cup {Nothing}]
    BY <2>1 DEF Waits, Process
  <2> QED BY <2>1, <2>2 DEF Waits, Process, waitVars, TimedOut
<1> QED BY <1>1, <1>2, <1>3, <1>4, <1>5, <1>6

\* Every step keeps what is known.
LEMMA WaitsStep ==
  ASSUME Waits, [Next]_vars
  PROVE  Waits'
<1>1. CASE \E m \in Methods, min \in 0 .. ledger \cup {Nothing} : Begin(m, min)
  BY <1>1, Begin_Waits
<1>2. CASE Client
  BY <1>2, TestTimeout_Waits, HearStatus_Waits, Sleep_Waits, Read_Waits, Others_Wait DEF Client
<1>3. CASE \/ \E lived \in Histories, version \in 0 .. ledger \cup {Nothing} : BeginPages(lived, version)
           \/ Return \/ Commit \/ \E p \in DOMAIN processed : Process(p)
  BY <1>3, Others_Wait
<1>4. CASE UNCHANGED vars
  BY <1>4 DEF vars, waitVars, Waits, TimedOut
<1> QED
  BY <1>1, <1>2, <1>3, <1>4 DEF Next

\* waitForIndexer: it gives up only after its three seconds and only if the last
\* status it heard was behind, never later than a pause and the longest request
\* after them, and lets the read go on only if the processor has got there.
THEOREM IndexerWaitIsHonestHolds == Spec => []IndexerWaitIsHonest
<1>1. Init => Waits
  BY WaitsInitially
<1>2. Waits /\ [Next]_vars => Waits'
  BY WaitsStep
<1>3. Waits => IndexerWaitIsHonest
  BY DEF Waits, IndexerWaitIsHonest
<1> QED BY <1>1, <1>2, <1>3, PTL DEF Spec

-----------------------------------------------------------------------------
Takes == {"all", "count", "fieldOfFirst", "firstOrZero", "first"}
Kept == Page \cup Sorted

\* What the proofs need to know of a method: it waits for the processor that keeps
\* its table, if for any, and passes on the options it accepts.
Sound(m) ==
    /\ m.takes \in Takes
    /\ m.processorType # NoProcessor /\ m # getAccountTokensCount
          => m.processorType = Keeper(m.table)
    /\ m \notin LosesPage => m.accepts \cap Page \subseteq m.sends
    /\ m \notin LosesOrder \/ ("offset" \in m.accepts /\ m \notin LosesPage)
          => m.accepts \cap Sorted \subseteq m.sends

\* The table a call reads, and the options it sends.
Asks(c, table, sends) == c.table = table /\ c.sends = sends /\ c.takes \in Takes

LEMMA QueryAsks ==
  ASSUME NEW query, NEW type, NEW condition, NEW address, NEW sends, NEW takes \in Takes
  PROVE  Asks(Calls!queryIndexer(query, type, condition, address, sends, takes), query.table, sends)
  BY DEF Asks, Calls!queryIndexer

LEMMA RestAsks ==
  ASSUME NEW table, NEW address, NEW sends, NEW takes \in Takes
  PROVE  Asks(Calls!Rest(table, address, sends, takes), table, sends)
  BY DEF Asks, Calls!Rest

\* A method that waits for its table's processor, if for any.
LEMMA AfterIsSound ==
  ASSUME NEW c, NEW table, NEW sends, Asks(c, table, sends),
         NEW waited \in {NoProcessor, Keeper(table)},
         NEW accepts, accepts \cap Kept \subseteq sends
  PROVE  Sound(After(waited, c, accepts))
  BY DEF Asks, Sound, After, Kept

\* The processors of the tables.
LEMMA Keepers ==
  /\ Keeper("account_transactions") = ACCOUNT_TRANSACTION_PROCESSOR
  /\ Keeper("current_collection_ownership_v2_view") = TOKEN_V2_PROCESSOR
  /\ Keeper("current_collections_v2") = TOKEN_V2_PROCESSOR
  /\ Keeper("current_endless_names") = DEFAULT
  /\ Keeper("current_fungible_asset_balances") = FUNGIBLE_ASSET_PROCESSOR
  /\ Keeper("current_objects") = DEFAULT
  /\ Keeper("current_token_datas_v2") = TOKEN_V2_PROCESSOR
  /\ Keeper("current_token_ownerships_v2") = TOKEN_V2_PROCESSOR
  /\ Keeper("delegated_staking_activities") = STAKE_PROCESSOR
  /\ Keeper("events") = EVENTS_PROCESSOR
  /\ Keeper("fungible_asset_activities") = FUNGIBLE_ASSET_PROCESSOR
  /\ Keeper("fungible_asset_metadata") = FUNGIBLE_ASSET_PROCESSOR
  /\ Keeper("num_active_delegator_per_pool") = STAKE_PROCESSOR
  /\ Keeper("processor_status") = DEFAULT
  /\ Keeper("table_items") = DEFAULT
  /\ Keeper("table_metadatas") = DEFAULT
  /\ Keeper("token_activities_v2") = TOKEN_V2_PROCESSOR
  /\ Keeper("user_transactions") = USER_TRANSACTION_PROCESSOR
  BY DEF Keeper

\* The tables of the queries.
LEMMA Tables ==
  /\ Calls!GetAccountCoinsCount.table = "current_fungible_asset_balances"
  /\ Calls!GetAccountCoinsData.table = "current_fungible_asset_balances"
  /\ Calls!GetAccountCollectionsWithOwnedTokens.table = "current_collection_ownership_v2_view"
  /\ Calls!GetAccountOwnedObjects.table = "current_objects"
  /\ Calls!GetAccountOwnedTokens.table = "current_token_ownerships_v2"
  /\ Calls!GetAccountOwnedTokensByTokenData.table = "current_token_ownerships_v2"
  /\ Calls!GetAccountOwnedTokensFromCollection.table = "current_token_ownerships_v2"
  /\ Calls!GetAccountTokensCount.table = "current_token_ownerships_v2"
  /\ Calls!GetAccountTransactionsCount.table = "account_transactions"
  /\ Calls!GetChainTopUserTransactions.table = "user_transactions"
  /\ Calls!GetCollectionData.table = "current_collections_v2"
  /\ Calls!GetCurrentFungibleAssetBalances.table = "current_fungible_asset_balances"
  /\ Calls!GetCurrentTokenOwnership.table = "current_token_ownerships_v2"
  /\ Calls!GetDelegatedStakingActivities.table = "delegated_staking_activities"
  /\ Calls!GetEvents.table = "events"
  /\ Calls!GetFungibleAssetActivities.table = "fungible_asset_activities"
  /\ Calls!GetFungibleAssetMetadata.table = "fungible_asset_metadata"
  /\ Calls!GetNames.table = "current_endless_names"
  /\ Calls!GetNumberOfDelegators.table = "num_active_delegator_per_pool"
  /\ Calls!GetProcessorStatus.table = "processor_status"
  /\ Calls!GetTableItemsData.table = "table_items"
  /\ Calls!GetTableItemsMetadata.table = "table_metadatas"
  /\ Calls!GetTokenActivity.table = "token_activities_v2"
  /\ Calls!GetTokenData.table = "current_token_datas_v2"
  BY DEF Calls!Query, Calls!Count, Calls!GetAccountCoinsCount, Calls!GetAccountCoinsData, Calls!GetAccountCollectionsWithOwnedTokens, Calls!GetAccountOwnedObjects, Calls!GetAccountOwnedTokens, Calls!GetAccountOwnedTokensByTokenData, Calls!GetAccountOwnedTokensFromCollection, Calls!GetAccountTokensCount, Calls!GetAccountTransactionsCount, Calls!GetChainTopUserTransactions, Calls!GetCollectionData, Calls!GetCurrentFungibleAssetBalances, Calls!GetCurrentTokenOwnership, Calls!GetDelegatedStakingActivities, Calls!GetEvents, Calls!GetFungibleAssetActivities, Calls!GetFungibleAssetMetadata, Calls!GetNames, Calls!GetNumberOfDelegators, Calls!GetProcessorStatus, Calls!GetTableItemsData, Calls!GetTableItemsMetadata, Calls!GetTokenActivity, Calls!GetTokenData

\* A call that takes something else of the rows, and one that hands on only some options.
LEMMA ChangedAsks ==
  ASSUME NEW query, NEW type, NEW condition, NEW address, NEW sends, NEW takes \in Takes,
         NEW k \in Takes
  PROVE  Asks([Calls!queryIndexer(query, type, condition, address, sends, takes) EXCEPT !.takes = k],
              query.table, sends)
  BY DEF Asks, Calls!queryIndexer
LEMMA ThroughAsks ==
  ASSUME NEW query, NEW type, NEW condition, NEW address, NEW sends, NEW takes \in Takes, NEW o
  PROVE  Asks(Calls!Through(Calls!queryIndexer(query, type, condition, address, sends, takes), o),
              query.table, sends \cap o)
  BY DEF Asks, Calls!queryIndexer, Calls!Through

\* The wrappers of getEvents hand on the order only.
LEMMA EventsAsk ==
  ASSUME NEW columns, NEW address
  PROVE  Asks(Calls!EventsWhere(columns, address), "events", SortedPage \cap Sorted)
<1> DEFINE paths == Calls!Paths(columns)
           call == Calls!Through(Calls!queryIndexer(Calls!GetEvents, Calls!GetEventsQuery, paths, address,
                                                    Calls!SortedPage, "all"), Calls!Sorted)
<1>1. "all" \in Takes
  BY DEF Takes
<1>2. Calls!EventsWhere(columns, address) = call
  BY DEF Calls!EventsWhere
<1> HIDE DEF paths
<1>3. Asks(call, Calls!GetEvents.table, Calls!SortedPage \cap Calls!Sorted)
  BY <1>1, ThroughAsks
<1> HIDE DEF call
<1> QED
  BY <1>2, <1>3, Tables DEF SortedPage, Sorted

LEMMA MethodsAreSound == \A m \in Methods : Sound(m)
<1> USE DEF None, Limited, Sorted, Page, SortedPage, Filtered, Kept
<1>a. /\ {"all", "count", "fieldOfFirst", "firstOrZero", "first"} = Takes
      /\ Calls!None = None
  BY DEF Takes
<1>1. Sound(getAccountOwnedTokens)
  BY QueryAsks, AfterIsSound, Keepers, Tables, <1>a DEF getAccountOwnedTokens, Calls!getAccountOwnedTokens
<1>2. Sound(getAccountOwnedTokensFromCollectionAddress)
  BY QueryAsks, AfterIsSound, Keepers, Tables, <1>a DEF getAccountOwnedTokensFromCollectionAddress, Calls!getAccountOwnedTokensFromCollectionAddress
<1>3. Sound(getAccountCollectionsWithOwnedTokens)
  BY QueryAsks, AfterIsSound, Keepers, Tables, <1>a DEF getAccountCollectionsWithOwnedTokens, Calls!getAccountCollectionsWithOwnedTokens
<1>4. Sound(getAccountTransactionsCount)
  BY QueryAsks, AfterIsSound, Keepers, Tables, <1>a DEF getAccountTransactionsCount, Calls!getAccountTransactionsCount
<1>5. Sound(getAccountCoinsCount)
  BY QueryAsks, AfterIsSound, Keepers, Tables, <1>a DEF getAccountCoinsCount, Calls!getAccountCoinsCount
<1>6. Sound(getAccountOwnedObjects)
  BY QueryAsks, AfterIsSound, Keepers, Tables, <1>a DEF getAccountOwnedObjects, Calls!getAccountOwnedObjects
<1>7. Sound(getAccountsCoinBalance)
  BY RestAsks, AfterIsSound, Keepers, Tables, <1>a DEF getAccountsCoinBalance, Calls!getAccountsCoinBalance, Unsynced
<1>8. Sound(getCoinData)
  BY RestAsks, AfterIsSound, Keepers, Tables, <1>a DEF getCoinData, Calls!getCoinData, Unsynced
<1>9. Sound(getCoinListDataById)
  BY RestAsks, AfterIsSound, Keepers, Tables, <1>a DEF getCoinListDataById, Calls!getCoinListDataById, Unsynced
<1>10. Sound(getCollectionData)
  BY QueryAsks, AfterIsSound, Keepers, Tables, <1>a DEF getCollectionData, Calls!getCollectionData
<1>11. Sound(getCollectionDataByCollectionId)
  BY QueryAsks, AfterIsSound, Keepers, Tables, <1>a DEF getCollectionDataByCollectionId, Calls!getCollectionDataByCollectionId
<1>12. Sound(getCollectionId)
  BY ChangedAsks, AfterIsSound, Keepers, Tables, <1>a DEF getCollectionId, Calls!getCollectionId, Calls!getCollectionData
<1>13. Sound(getDigitalAssetData)
  BY QueryAsks, AfterIsSound, Keepers, Tables, <1>a DEF getDigitalAssetData, Calls!getDigitalAssetData
<1>14. Sound(getCurrentDigitalAssetOwnership)
  BY QueryAsks, AfterIsSound, Keepers, Tables, <1>a DEF getCurrentDigitalAssetOwnership, Calls!getCurrentDigitalAssetOwnership
<1>15. Sound(getOwnedDigitalAssets)
  BY QueryAsks, AfterIsSound, Keepers, Tables, <1>a DEF getOwnedDigitalAssets, Calls!getOwnedDigitalAssets
<1>16. Sound(getDigitalAssetActivity)
  BY QueryAsks, AfterIsSound, Keepers, Tables, <1>a DEF getDigitalAssetActivity, Calls!getDigitalAssetActivity
<1>17. Sound(getAccountEventsByCreationNumber)
  <2>1. Asks(Calls!getAccountEventsByCreationNumber, "events", SortedPage \cap Sorted)
    BY EventsAsk DEF Calls!getAccountEventsByCreationNumber
  <2> QED
    BY <2>1, AfterIsSound, Keepers DEF getAccountEventsByCreationNumber, Calls!None
<1>18. Sound(getEvents)
  BY QueryAsks, AfterIsSound, Keepers, Tables, <1>a DEF getEvents, Calls!getEvents
<1>19. Sound(getFungibleAssetMetadata)
  BY QueryAsks, AfterIsSound, Keepers, Tables, <1>a DEF getFungibleAssetMetadata, Calls!getFungibleAssetMetadata
<1>20. Sound(getFungibleAssetActivities)
  BY QueryAsks, AfterIsSound, Keepers, Tables, <1>a DEF getFungibleAssetActivities, Calls!getFungibleAssetActivities
<1>21. Sound(getCurrentFungibleAssetBalances)
  BY QueryAsks, AfterIsSound, Keepers, Tables, <1>a DEF getCurrentFungibleAssetBalances, Calls!getCurrentFungibleAssetBalances
<1>22. Sound(getNumberOfDelegators)
  BY QueryAsks, AfterIsSound, Keepers, Tables, <1>a DEF getNumberOfDelegators, Calls!getNumberOfDelegators
<1>23. Sound(getNumberOfDelegatorsForAllPools)
  BY QueryAsks, AfterIsSound, Keepers, Tables, <1>a DEF getNumberOfDelegatorsForAllPools, Calls!getNumberOfDelegatorsForAllPools
<1>24. Sound(getDelegatedStakingActivities)
  BY QueryAsks, AfterIsSound, Keepers, Tables, <1>a DEF getDelegatedStakingActivities, Calls!getDelegatedStakingActivities
<1>25. Sound(getTableItemsData)
  BY QueryAsks, AfterIsSound, Keepers, Tables, <1>a DEF getTableItemsData, Calls!getTableItemsData
<1>26. Sound(getTableItemsMetadata)
  BY QueryAsks, AfterIsSound, Keepers, Tables, <1>a DEF getTableItemsMetadata, Calls!getTableItemsMetadata
<1>27. Sound(getChainTopUserTransactions)
  BY QueryAsks, AfterIsSound, Keepers, Tables, <1>a DEF getChainTopUserTransactions, Calls!getChainTopUserTransactions, Unsynced
<1>28. Sound(getIndexerLastSuccessVersion)
  BY ChangedAsks, AfterIsSound, Keepers, Tables, <1>a DEF getIndexerLastSuccessVersion, Calls!getIndexerLastSuccessVersion, Calls!getProcessorStatuses, Unsynced
<1>29. Sound(getProcessorStatus)
  BY QueryAsks, AfterIsSound, Keepers, Tables, <1>a DEF getProcessorStatus, Calls!getProcessorStatus, Unsynced
<1>30. Sound(getName)
  BY QueryAsks, AfterIsSound, Keepers, Tables, <1>a DEF getName, Calls!getName, Unsynced
<1>31. Sound(getAccountNames)
  BY QueryAsks, AfterIsSound, Keepers, Tables, <1>a DEF getAccountNames, Calls!getAccountNames, Calls!NamesWhere, Unsynced
<1>32. Sound(getAccountDomains)
  BY QueryAsks, AfterIsSound, Keepers, Tables, <1>a DEF getAccountDomains, Calls!getAccountDomains, Calls!NamesWhere, Unsynced
<1>33. Sound(getAccountSubdomains)
  BY QueryAsks, AfterIsSound, Keepers, Tables, <1>a DEF getAccountSubdomains, Calls!getAccountSubdomains, Calls!NamesWhere, Unsynced
<1>34. Sound(getDomainSubdomains)
  BY QueryAsks, AfterIsSound, Keepers, Tables, <1>a DEF getDomainSubdomains, Calls!getDomainSubdomains, Calls!NamesWhere, Unsynced
<1>35. Sound(getAccountTokensCount)
  <2>1. Calls!getAccountTokensCount.takes \in Takes
    BY QueryAsks, <1>a DEF Calls!getAccountTokensCount, Asks
  <2>2. getAccountTokensCount.takes \in Takes /\ getAccountTokensCount.accepts = None
    BY <2>1 DEF getAccountTokensCount, After
  <2>3. None \cap Page = {} /\ None \cap Sorted = {}
    BY DEF Calls!None
  <2> QED
    BY <2>2, <2>3 DEF Sound
<1>36. Sound(getAccountCoinsData) /\ Sound(getCoinsDataCreatedBy)
  <2>1. /\ Asks(Calls!getAccountCoinsData, "current_fungible_asset_balances", Calls!FromCaller)
        /\ Asks(Calls!getCoinsDataCreatedBy, "current_fungible_asset_balances", Calls!FromCaller)
    BY RestAsks, <1>a DEF Calls!getAccountCoinsData, Calls!getCoinsDataCreatedBy
  <2>2. /\ (Sorted \cup Filtered) \cap Page = {} /\ "offset" \notin Sorted \cup Filtered
    BY DEF Calls!FromCaller, Calls!Sorted, Calls!Page
  <2>3. ASSUME NEW c, Asks(c, "current_fungible_asset_balances", Calls!FromCaller),
               NEW m \in LosesOrder, m = After(FUNGIBLE_ASSET_PROCESSOR, c, Sorted \cup Filtered)
        PROVE  Sound(m)
    <3>1. /\ m.takes \in Takes /\ m.processorType = FUNGIBLE_ASSET_PROCESSOR
          /\ m.table = "current_fungible_asset_balances" /\ m.accepts = Sorted \cup Filtered
      BY <2>3 DEF Asks, After
    <3> QED
      BY <2>2, <3>1, Keepers DEF Sound
  <2> QED
    BY <2>1, <2>3 DEF getAccountCoinsData, getCoinsDataCreatedBy, LosesOrder
<1>37. Sound(getAccountCoinAmount) /\ Sound(getAccountEDSAmount)
  <2>1. Asks(Calls!getAccountCoinAmount, "current_fungible_asset_balances", {})
    BY <1>a DEF Calls!getAccountCoinAmount, Calls!getAccountCoinsData, Calls!Through, Calls!Rest, Asks,
                Calls!None
  <2> QED
    BY <2>1, AfterIsSound, Keepers DEF getAccountCoinAmount, getAccountEDSAmount, Calls!None
<1>38. Sound(getFungibleAssetMetadataByAssetType)
  <2>1. Asks(Calls!getFungibleAssetMetadata, "fungible_asset_metadata", Page \cup Filtered)
    BY QueryAsks, Tables, <1>a DEF Calls!getFungibleAssetMetadata
  <2> DEFINE m == getFungibleAssetMetadataByAssetType
  <2>2. /\ m.takes = "first" /\ m.processorType = FUNGIBLE_ASSET_PROCESSOR
        /\ m.table = "fungible_asset_metadata" /\ m.accepts = {}
    BY <2>1 DEF getFungibleAssetMetadataByAssetType, After, Asks, Calls!None
  <2> HIDE DEF m
  <2>3. Sound(m)
    BY <2>2, Keepers DEF Sound, Takes
  <2> QED
    BY <2>3 DEF m
<1>39. Sound(getModuleEventsByEventType) /\ Sound(getAccountEventsByEventType)
  <2>1. /\ Asks(Calls!getModuleEventsByEventType, "events", SortedPage \cap Sorted)
        /\ Asks(Calls!getAccountEventsByEventType, "events", SortedPage \cap Sorted)
    BY EventsAsk DEF Calls!getModuleEventsByEventType, Calls!getAccountEventsByEventType
  <2>2. ASSUME NEW c, Asks(c, "events", SortedPage \cap Sorted),
               NEW m \in LosesPage, m = After(EVENTS_PROCESSOR, c, SortedPage)
        PROVE  Sound(m)
    <3>1. /\ m.takes \in Takes /\ m.processorType = EVENTS_PROCESSOR
          /\ m.table = "events" /\ m.accepts = SortedPage /\ m.sends = SortedPage \cap Sorted
      BY <2>2 DEF Asks, After
    <3> QED
      BY <3>1, Keepers DEF Sound
  <2> QED
    BY <2>1, <2>2 DEF getModuleEventsByEventType, getAccountEventsByEventType, LosesPage
<1> QED
  BY <1>1, <1>2, <1>3, <1>4, <1>5, <1>6, <1>7, <1>8, <1>9, <1>10, <1>11, <1>12, <1>13, <1>14, <1>15, <1>16, <1>17, <1>18, <1>19, <1>20, <1>21, <1>22, <1>23, <1>24, <1>25, <1>26, <1>27, <1>28, <1>29, <1>30, <1>31, <1>32, <1>33, <1>34, <1>35, <1>36, <1>37, <1>38, <1>39 DEF Methods

\* The rows that are selected.
LEMMA SelectedFacts ==
  ASSUME NEW m, NEW spelled, NEW v, v = processed[Keeper(m.table)], v \in Nat \cup {Nothing}
  PROVE  LET all == Selected(m, spelled)
         IN  /\ all \in {{}, {1}} \/ (v \in Nat /\ all = 1 .. v)
             /\ all \in SUBSET Nat /\ Cardinality(all) \in Nat
             /\ all = {1} => Cardinality(all) = 1
             /\ v \in Nat /\ all = 1 .. v => Cardinality(all) = v
             /\ all = {} => Cardinality(all) = 0
<1> DEFINE all == Selected(m, spelled)
<1>1. Nothing \notin Nat
  BY ReadsAssumption
<1>2. all \in {{}, {1}} \/ (v \in Nat /\ all = 1 .. v)
  BY <1>1 DEF Selected
<1> HIDE DEF all
<1>3. Cardinality({}) = 0 /\ Cardinality({1}) = 1
  BY FS_EmptySet, FS_Singleton
<1>4. v \in Nat => Cardinality(1 .. v) = v
  <2> SUFFICES ASSUME v \in Nat PROVE Cardinality(1 .. v) = v
    OBVIOUS
  <2>1. 1 \in Int /\ v \in Int
    OBVIOUS
  <2>2. Cardinality(1 .. v) = IF 1 > v THEN 0 ELSE v - 1 + 1
    BY <2>1, FS_Interval
  <2> QED
    BY <2>2
<1>5. all \in SUBSET Nat
  BY <1>2
<1>6. Cardinality(all) \in Nat
  <2>1. CASE all = {}
    BY <1>3, <2>1
  <2>2. CASE all = {1}
    BY <1>3, <2>2
  <2>3. CASE v \in Nat /\ all = 1 .. v
    BY <1>4, <2>3
  <2> QED
    BY <1>2, <2>1, <2>2, <2>3
<1>7. (all = {1} => Cardinality(all) = 1) /\ (all = {} => Cardinality(all) = 0)
  BY <1>3
<1>8. v \in Nat /\ all = 1 .. v => Cardinality(all) = v
  BY <1>4
<1> QED
  BY <1>2, <1>5, <1>6, <1>7, <1>8 DEF all

\* What a page of one row is of the rows in their order.
IsPageOf(c, rows, n, sent) ==
    /\ c \in Seq(Nat) /\ Len(c) \in Nat /\ DOMAIN c = 1 .. Len(c)
    /\ "limit" \in sent => Len(c) <= 1
    /\ Descending(rows) => Descending(c)
    /\ "offset" \in sent => \A i \in DOMAIN c : \E j \in 2 .. n : c[i] = rows[j]
    /\ sent \cap Page = {} => Len(c) = n /\ \A i \in 1 .. n : c[i] = rows[i]

LEMMA CutFacts ==
  ASSUME NEW n \in Nat, NEW S \in SUBSET Nat, NEW rows \in [1 .. n -> S], NEW sent
  PROVE  IsPageOf(Cut(rows, sent), rows, n, sent)
<1> DEFINE first == IF "offset" \in sent THEN 2 ELSE 1
           last == IF "limit" \in sent THEN first ELSE Len(rows)
           end == IF last < Len(rows) THEN last ELSE Len(rows)
           c == SubSeq(rows, first, end)
<1>1. Cut(rows, sent) = c
  BY DEF Cut
<1>2. rows \in Seq(Nat) /\ Len(rows) = n /\ DOMAIN rows = 1 .. n /\ \A i \in 1 .. n : rows[i] \in Nat
  <2>1. rows \in [1 .. n -> Nat]
    OBVIOUS
  <2> QED
    BY <2>1
<1>3. /\ first \in {1, 2} /\ end \in 0 .. n \cup {1, 2} /\ end <= n /\ end \in Int
      /\ "offset" \in sent => first = 2
      /\ "limit" \in sent => end <= first
      /\ sent \cap Page = {} => first = 1 /\ end = n
  BY <1>2 DEF Page, Calls!Page
<1> HIDE DEF first, last, end
<1>4. \A i \in first .. end : i \in 1 .. n /\ rows[i] \in Nat
  BY <1>2, <1>3
<1>5. /\ c \in Seq(Nat) /\ Len(c) = (IF first <= end THEN end - first + 1 ELSE 0)
      /\ \A i \in 1 .. (end - first + 1) : c[i] = rows[first + i - 1]
  <2>1. first \in Int /\ end \in Int
    BY <1>3
  <2> QED
    BY <1>4, <2>1, SubSeqProperties
<1>6. Len(c) \in Nat /\ DOMAIN c = 1 .. Len(c)
  BY <1>5, LenProperties
<1> HIDE DEF c
<1>7. \A i \in 1 .. Len(c) : /\ c[i] = rows[first + i - 1] /\ first + i - 1 \in first .. n
                             /\ first + i - 1 \in 1 .. n
  BY <1>3, <1>5
<1>8. "limit" \in sent => Len(c) <= 1
  BY <1>3, <1>5
<1>9. ASSUME Descending(rows) PROVE Descending(c)
  <2> SUFFICES ASSUME NEW i \in 1 .. Len(c), NEW j \in 1 .. Len(c), i < j PROVE c[i] > c[j]
    BY <1>6 DEF Descending
  <2>1. first + i - 1 < first + j - 1
    BY <1>3
  <2> QED
    BY <1>2, <1>7, <1>9, <2>1 DEF Descending
<1>10. "offset" \in sent => \A i \in DOMAIN c : \E j \in 2 .. n : c[i] = rows[j]
  BY <1>3, <1>6, <1>7
<1>11. ASSUME sent \cap Page = {} PROVE Len(c) = n /\ \A i \in 1 .. n : c[i] = rows[i]
  <2>1. first = 1 /\ end = n
    BY <1>3, <1>11
  <2>2. Len(c) = n
    BY <1>5, <2>1
  <2>3. \A i \in 1 .. n : c[i] = rows[1 + i - 1] /\ 1 + i - 1 = i
    BY <1>7, <2>1, <2>2
  <2> QED
    BY <2>2, <2>3
<1> QED
  BY <1>1, <1>5, <1>6, <1>8, <1>9, <1>10, <1>11 DEF IsPageOf

\* What a call takes of its rows.
LEMMA TakenFacts ==
  ASSUME NEW takes \in Takes, NEW rows
  PROVE  \/ takes = "all" /\ Taken(takes, rows) = Returned("rows", rows)
         \/ takes = "count" /\ Taken(takes, rows) = Returned("count", Len(rows))
         \/ rows = <<>> /\ Taken(takes, rows) \in
               {Threw("TypeError"), Returned("count", 0), Returned("row", Nothing)}
         \/ rows # <<>> /\ Taken(takes, rows) = Returned("row", rows[1])
  BY DEF Taken, Takes

\* An answer and the versions that its processor had reached.
Synced ==
    /\ method # Nothing =>
          /\ method \in Methods
          /\ processed \in [Touched(method) -> Nat \cup {Nothing}]
          /\ indexerVersion # -1 =>
                /\ minimum # Nothing
                /\ processed[method.processorType] \in Nat
                /\ processed[method.processorType] >= indexerVersion
    /\ ReadYourWrites /\ OptionsAreHonoured

\* The processor that keeps a table is one the call touches.
LEMMA KeeperIsTouched == \A m : Keeper(m.table) \in Touched(m) /\ Keeper(m.table) # NoProcessor
<1>1. \A t : Keeper(t) # NoProcessor
  BY DEF Keeper, NoProcessor, ACCOUNT_TRANSACTION_PROCESSOR, DEFAULT, EVENTS_PROCESSOR,
         FUNGIBLE_ASSET_PROCESSOR, STAKE_PROCESSOR, TOKEN_V2_PROCESSOR, USER_TRANSACTION_PROCESSOR
<1> QED
  BY <1>1 DEF Touched

\* The answer of the indexer's table.
LEMMA Read_Syncs ==
  ASSUME Waits, Synced, method # Nothing, NEW given \in SUBSET method.accepts,
         NEW spelled \in {"long", "short"}, Read(given, spelled)
  PROVE  ReadYourWrites' /\ OptionsAreHonoured'
<1> DEFINE sent == given \cap method.sends
           all == Selected(method, spelled)
           n == Cardinality(all)
           v == processed[Keeper(method.table)]
<1>1. /\ pc = "reading" /\ pc' = "done" /\ spelling' = spelled
      /\ UNCHANGED <<processed, method, minimum, indexerVersion>>
  BY DEF Read, waitVars
<1>2. PICK rows \in [1 .. n -> all], key \in Keys(sent) :
         /\ \A row \in all : \E i \in DOMAIN rows : rows[i] = row
         /\ ("order_by" \in sent \/ method.newestFirst => Descending(rows))
         /\ options' = given \cup (method.unsorted \cap {key})
         /\ outcome' = IF Refused(given, key) THEN Threw("refused")
                       ELSE Taken(method.takes, Cut(rows, sent))
  BY DEF Read
<1>3. Sound(method) /\ Keeper(method.table) \in Touched(method) /\ v \in Nat \cup {Nothing}
  BY MethodsAreSound, KeeperIsTouched DEF Synced
<1>4. /\ all \in {{}, {1}} \/ (v \in Nat /\ all = 1 .. v)
      /\ all \in SUBSET Nat /\ n \in Nat
      /\ all = {1} => n = 1
      /\ v \in Nat /\ all = 1 .. v => n = v
      /\ all = {} => n = 0
  BY <1>3, SelectedFacts
<1>a. DOMAIN rows = 1 .. n
  OBVIOUS
<1>b. all = IF v = Nothing \/ (method.address = "given" /\ spelled # "long") THEN {}
            ELSE IF method.table = "processor_status" THEN {1} ELSE 1 .. v
  BY DEF Selected
<1> DEFINE c == Cut(rows, sent)
<1> HIDE DEF all, n, v
<1>5. /\ c \in Seq(Nat) /\ Len(c) \in Nat /\ DOMAIN c = 1 .. Len(c)
      /\ "limit" \in sent => Len(c) <= 1
      /\ Descending(rows) => Descending(c)
      /\ "offset" \in sent => \A i \in DOMAIN c : \E j \in 2 .. n : c[i] = rows[j]
      /\ sent \cap Page = {} => Len(c) = n /\ \A i \in 1 .. n : c[i] = rows[i]
  <2>1. all \in SUBSET Nat /\ rows \in [1 .. n -> all] /\ n \in Nat
    BY <1>4
  <2> HIDE DEF sent
  <2>2. IsPageOf(Cut(rows, sent), rows, n, sent)
    BY <2>1, CutFacts
  <2> QED
    BY <2>2 DEF IsPageOf
<1> HIDE DEF c, sent
<1>6. outcome' = (IF Refused(given, key) THEN Threw("refused") ELSE Taken(method.takes, c))
  BY <1>2 DEF c
<1>7. \/ method.takes = "all" /\ Taken(method.takes, c) = Returned("rows", c)
      \/ method.takes = "count" /\ Taken(method.takes, c) = Returned("count", Len(c))
      \/ c = <<>> /\ Taken(method.takes, c) \in
            {Threw("TypeError"), Returned("count", 0), Returned("row", Nothing)}
      \/ c # <<>> /\ Taken(method.takes, c) = Returned("row", c[1])
  BY <1>3, TakenFacts DEF Sound
<1>8. ReadYourWrites'
  <2> SUFFICES ASSUME minimum # Nothing, method # getAccountTokensCount, options' \cap Page = {},
                      ~WasRefused', method.table # "processor_status",
                      ~(method.address = "given" /\ spelled = "short")
               PROVE  Shows(minimum)'
    BY <1>1 DEF ReadYourWrites
  <2>1. ~Refused(given, key)
    BY <1>6 DEF WasRefused, Threw
  <2>2. minimum \in Nat /\ v \in Nat /\ v >= minimum
    <3>1. method.processorType # NoProcessor /\ minimum \in Nat /\ indexerVersion \in Nat
          /\ indexerVersion >= minimum
      BY <1>1 DEF Waits
    <3>2. method.processorType = Keeper(method.table)
      BY <1>3, <3>1 DEF Sound
    <3>3. processed[method.processorType] \in Nat /\ processed[method.processorType] >= indexerVersion
      BY <3>1 DEF Synced
    <3> QED
      BY <3>1, <3>2, <3>3 DEF v
  <2>3. all = 1 .. v /\ n = v
    <3>1. v # Nothing
      BY <2>2, ReadsAssumption
    <3> QED
      BY <1>4, <1>b, <2>2, <3>1
  <2>4. Len(c) = v /\ \A i \in 1 .. v : c[i] = rows[i]
    <3>1. sent \cap Page = {}
      BY <1>2 DEF sent
    <3> QED
      BY <1>5, <2>3, <3>1
  <2>5. Shows(minimum)' =
          CASE outcome'.kind = "rows" -> 1 .. minimum \subseteq ToSet(outcome'.value)
            [] outcome'.kind = "count" -> outcome'.value >= minimum
            [] outcome'.kind = "row" -> minimum > 0 => outcome'.value # Nothing
            [] outcome'.kind = "threw" -> minimum = 0
                                            \/ (outcome'.value = "TypeError" /\ indexerVersion = -1)
    BY <1>1 DEF Shows
  <2>6. CASE outcome' = Returned("rows", c)
    <3>1. 1 .. minimum \subseteq ToSet(c)
      <4> SUFFICES ASSUME NEW w \in 1 .. minimum PROVE \E i \in DOMAIN c : c[i] = w
        BY DEF ToSet
      <4>1. w \in all
        BY <2>2, <2>3
      <4>2. PICK i \in 1 .. v : rows[i] = w
        BY <1>2, <1>a, <2>3, <4>1
      <4> QED
        BY <1>5, <2>4, <4>2
    <3> QED
      BY <2>5, <2>6, <3>1 DEF Returned
  <2>7. CASE outcome' = Returned("count", Len(c))
    BY <2>2, <2>4, <2>5, <2>7 DEF Returned
  <2>8. CASE c = <<>> /\ outcome' \in {Threw("TypeError"), Returned("count", 0), Returned("row", Nothing)}
    <3>1. Len(c) = 0
      BY <2>8
    <3>2. minimum = 0
      BY <2>2, <2>4, <3>1
    <3>3. CASE outcome' = Threw("TypeError")
      BY <2>5, <3>2, <3>3 DEF Threw
    <3>a. 0 >= minimum /\ ~(minimum > 0)
      BY <3>2
    <3>4. CASE outcome' = Returned("count", 0)
      <4>1. outcome'.kind = "count" /\ outcome'.value >= minimum
        BY <3>a, <3>4 DEF Returned
      <4> QED
        BY <2>5, <4>1
    <3>5. CASE outcome' = Returned("row", Nothing)
      <4>1. outcome'.kind = "row"
        BY <3>5 DEF Returned
      <4> QED
        BY <2>5, <3>a, <4>1
    <3> QED
      BY <2>8, <3>3, <3>4, <3>5
  <2>9. CASE c # <<>> /\ outcome' = Returned("row", c[1])
    <3>1. Len(c) # 0
      BY <1>5, <2>9, EmptySeq
    <3>2. c[1] \in Nat
      BY <1>5, <3>1, ElementOfSeq
    <3>3. c[1] # Nothing
      BY <3>2, ReadsAssumption
    <3> QED
      BY <2>5, <2>9, <3>3 DEF Returned
  <2> QED
    BY <1>6, <1>7, <2>1, <2>6, <2>7, <2>8, <2>9
<1>9. OptionsAreHonoured'
  <2> SUFFICES ASSUME outcome'.kind = "rows"
               PROVE  LET rs == outcome'.value
                      IN  /\ "limit" \in options' /\ method \notin LosesPage => Len(rs) <= 1
                          /\ "order_by" \in options' /\ method \notin LosesOrder => Descending(rs)
                          /\ {"offset", "order_by"} \subseteq options' /\ method \notin LosesPage
                               => v \notin ToSet(rs)
    BY <1>1 DEF OptionsAreHonoured, v
  <2>1. ~Refused(given, key) /\ outcome'.value = c
    BY <1>6, <1>7 DEF Threw, Returned
  <2>2. options' = given
    BY <1>2, <2>1 DEF Refused
  <2>3. {"limit", "offset"} \subseteq Page /\ "order_by" \in Sorted
    BY DEF Page, Sorted, Calls!Page, Calls!Sorted
  <2>4. /\ method \notin LosesPage => method.accepts \cap Page \subseteq method.sends
        /\ method \notin LosesOrder \/ ("offset" \in method.accepts /\ method \notin LosesPage)
              => method.accepts \cap Sorted \subseteq method.sends
    BY <1>3 DEF Sound
  <2>5. "limit" \in options' /\ method \notin LosesPage => Len(c) <= 1
    BY <1>5, <2>2, <2>3, <2>4 DEF sent
  <2>6. "order_by" \in options' /\ method \notin LosesOrder => Descending(c)
    <3>1. "order_by" \in options' /\ method \notin LosesOrder => "order_by" \in sent
      BY <2>2, <2>3, <2>4 DEF sent
    <3> QED
      BY <1>2, <1>5, <3>1
  <2>7. ASSUME {"offset", "order_by"} \subseteq options', method \notin LosesPage, v \in ToSet(c)
        PROVE  FALSE
    <3>1. "offset" \in sent /\ "order_by" \in sent
      BY <2>2, <2>3, <2>4, <2>7 DEF sent
    <3>2. Descending(rows)
      BY <1>2, <3>1
    <3>3. PICK i \in DOMAIN c : c[i] = v
      BY <2>7 DEF ToSet
    <3>4. PICK j \in 2 .. n : rows[j] = v
      BY <1>5, <3>1, <3>3
    <3>5. 1 \in 1 .. n /\ j \in 1 .. n /\ 1 < j /\ n # 1 /\ n # 0
      BY <1>4, <3>4
    <3>6. rows[1] > rows[j] /\ rows[1] \in all /\ rows[1] \in Nat
      BY <1>4, <1>a, <3>2, <3>5 DEF Descending
    <3>7. v \in Nat /\ all = 1 .. v
      BY <1>4, <3>5
    <3> QED
      BY <3>4, <3>6, <3>7
  <2> QED
    BY <2>1, <2>5, <2>6, <2>7
<1> QED
  BY <1>8, <1>9

\* A processor that is not known ends the wait before anything was heard.
LEMMA HearStatus_Syncs ==
  ASSUME Waits, Synced, NEW t \in RequestTimes, HearStatus(t)
  PROVE  Synced'
<1>1. /\ pc = "asking" /\ UNCHANGED <<processed, method, minimum, options, spelling>>
      /\ minimum # Nothing /\ Nothing \notin Nat
  BY ReadsAssumption DEF HearStatus, Waits
<1> DEFINE v == processed[method.processorType]
<1>2. CASE method = Nothing
  BY <1>1, <1>2 DEF Synced, ReadYourWrites, OptionsAreHonoured, Answered
<1>3. CASE method # Nothing /\ v = Nothing
  <2>1. indexerVersion' = indexerVersion /\ outcome' = Threw("TypeError") /\ indexerVersion = -1
    BY <1>1, <1>3 DEF HearStatus, Synced
  <2>2. Shows(minimum)'
    BY <2>1 DEF Shows, Threw
  <2>3. ReadYourWrites' /\ OptionsAreHonoured'
    BY <1>1, <2>1, <2>2 DEF ReadYourWrites, OptionsAreHonoured, Threw
  <2> QED
    BY <1>1, <1>3, <2>1, <2>3 DEF Synced
<1>4. CASE method # Nothing /\ v # Nothing
  <2>1. /\ indexerVersion' = v /\ pc' \in {"reading", "sleeping"}
    BY <1>1, <1>4 DEF HearStatus
  <2>2. v \in Nat
    <3>1. method.processorType \in Touched(method)
      BY <1>1 DEF Waits, Touched
    <3>2. v \in Nat \cup {Nothing}
      BY <1>4, <3>1 DEF Synced
    <3> QED
      BY <1>4, <3>2
  <2>3. ReadYourWrites' /\ OptionsAreHonoured'
    BY <2>1 DEF ReadYourWrites, OptionsAreHonoured, Answered
  <2> QED
    BY <1>1, <1>4, <2>1, <2>2, <2>3 DEF Synced
<1> QED
  BY <1>2, <1>3, <1>4

LEMMA Begin_Syncs ==
  ASSUME Waits, Synced, NEW m \in Methods, NEW min \in 0 .. ledger \cup {Nothing}, Begin(m, min)
  PROVE  Synced'
<1>1. /\ pc = "idle" /\ pc' \in {"reading", "testing"} /\ method' = m /\ indexerVersion' = -1
      /\ ledger \in Nat
  BY DEF Begin, Waits
<1>2. processed' \in [Touched(m) -> Nat \cup {Nothing}]
  <2>1. PICK at \in [Touched(m) -> 0 .. ledger \cup {Nothing}] : processed' = at
    BY DEF Begin
  <2>2. 0 .. ledger \subseteq Nat
    BY <1>1
  <2> QED
    BY <2>1, <2>2
<1>3. ReadYourWrites' /\ OptionsAreHonoured'
  BY <1>1 DEF ReadYourWrites, OptionsAreHonoured, Answered
<1> QED
  BY <1>1, <1>2, <1>3 DEF Synced

\* The indexer goes on while the call waits.
LEMMA Process_Syncs ==
  ASSUME Waits, Synced, NEW p \in DOMAIN processed, Process(p)
  PROVE  Synced'
<1>1. /\ pc # "done" /\ processed[p] # Nothing /\ processed' = [processed EXCEPT ![p] = @ + 1]
      /\ UNCHANGED <<pc, method, minimum, indexerVersion, options, spelling, outcome>>
  BY DEF Process, waitVars
<1>2. ReadYourWrites' /\ OptionsAreHonoured'
  BY <1>1 DEF ReadYourWrites, OptionsAreHonoured, Answered
<1>3. ASSUME method # Nothing
      PROVE  /\ processed' \in [Touched(method) -> Nat \cup {Nothing}]
             /\ \A q \in DOMAIN processed : processed[q] \in Nat =>
                   processed'[q] \in Nat /\ processed'[q] >= processed[q]
  <2>1. processed \in [Touched(method) -> Nat \cup {Nothing}] /\ processed[p] \in Nat
    BY <1>1, <1>3 DEF Synced
  <2> QED
    BY <1>1, <2>1
<1>4. ASSUME method # Nothing, indexerVersion # -1
      PROVE  method.processorType \in DOMAIN processed
  <2>1. method.processorType \in Touched(method)
    BY <1>4 DEF Waits, Synced, Touched
  <2> QED
    BY <1>4, <2>1 DEF Synced
<1>5. ASSUME method # Nothing, indexerVersion # -1
      PROVE  /\ processed'[method.processorType] \in Nat
             /\ processed'[method.processorType] >= indexerVersion
  <2>1. indexerVersion \in Nat
    BY <1>5 DEF Waits
  <2> QED
    BY <1>3, <1>4, <1>5, <2>1 DEF Synced
<1> QED
  BY <1>1, <1>2, <1>3, <1>5 DEF Synced

\* Nothing of a call's answer changes, or there is none.
LEMMA Others_Sync ==
  ASSUME Waits, Synced,
         \/ \E lived \in Histories, version \in 0 .. ledger \cup {Nothing} : BeginPages(lived, version)
         \/ TestTimeout \/ Sleep \/ NextPage \/ PageFails \/ Return \/ Commit \/ UNCHANGED vars
  PROVE  Synced'
<1>1. CASE \/ \E lived \in Histories, version \in 0 .. ledger \cup {Nothing} : BeginPages(lived, version)
           \/ NextPage \/ PageFails \/ Return
  <2>1. method' = Nothing
    BY <1>1 DEF Waits, BeginPages, NextPage, PageFails, Return, ForgetCall, waitVars
  <2> QED
    BY <2>1 DEF Synced, ReadYourWrites, OptionsAreHonoured, Answered
<1>2. CASE TestTimeout \/ Sleep
  <2>1. /\ UNCHANGED <<method, processed, minimum, indexerVersion>>
        /\ pc' # "done" \/ TimedOut'
    BY <1>2 DEF TestTimeout, Sleep, waitVars, TimedOut, Threw
  <2> QED
    BY <2>1 DEF Synced, ReadYourWrites, OptionsAreHonoured, Answered
<1>3. CASE Commit \/ UNCHANGED vars
  <2>1. UNCHANGED <<pc, method, processed, minimum, indexerVersion, options, spelling, outcome>>
    BY <1>3 DEF Commit, vars, waitVars
  <2> QED
    BY <2>1 DEF Synced, ReadYourWrites, OptionsAreHonoured, Answered, TimedOut, WasRefused, Shows
<1> QED
  BY <1>1, <1>2, <1>3
\* Every step keeps a call synced.
LEMMA SyncedStep ==
  ASSUME Waits, Synced, [Next]_vars
  PROVE  Synced'
<1>1. CASE \E m \in Methods, min \in 0 .. ledger \cup {Nothing} : Begin(m, min)
  BY <1>1, Begin_Syncs
<1>2. ASSUME NEW given \in SUBSET method.accepts, NEW spelled \in {"long", "short"},
             Read(given, spelled)
      PROVE  Synced'
  <2>1. UNCHANGED <<processed, method, minimum, indexerVersion>>
    BY <1>2 DEF Read, waitVars
  <2>2. CASE method = Nothing
    BY <2>1, <2>2 DEF Synced, ReadYourWrites, OptionsAreHonoured, Answered
  <2>3. CASE method # Nothing
    <3>1. ReadYourWrites' /\ OptionsAreHonoured'
      BY <1>2, <2>3, Read_Syncs
    <3> QED
      BY <2>1, <3>1 DEF Synced
  <2> QED
    BY <2>2, <2>3
<1>3. CASE \E t \in RequestTimes : HearStatus(t)
  BY <1>3, HearStatus_Syncs
<1>4. CASE \E p \in DOMAIN processed : Process(p)
  BY <1>4, Process_Syncs
<1>5. CASE \/ \E lived \in Histories, version \in 0 .. ledger \cup {Nothing} : BeginPages(lived, version)
           \/ TestTimeout \/ Sleep \/ NextPage \/ PageFails \/ Return \/ Commit \/ UNCHANGED vars
  BY <1>5, Others_Sync
<1> QED
  BY <1>1, <1>2, <1>3, <1>4, <1>5 DEF Next, Client

\* The wait and what it is for, in every reachable state.
THEOREM SyncedHolds == Spec => [](Waits /\ Synced)
<1>1. Init => Waits /\ Synced
  <2>1. Init => Synced
    BY DEF Init, Synced, ReadYourWrites, OptionsAreHonoured, Answered
  <2> QED
    BY <2>1, WaitsInitially
<1>2. (Waits /\ Synced) /\ [Next]_vars => (Waits /\ Synced)'
  BY WaitsStep, SyncedStep
<1> QED
  BY <1>1, <1>2, PTL DEF Spec

\* waitForIndexerOnVersion and the calls of the API: an answer shows what the chain
\* had committed at the minimum the caller gave, whichever method was called, however
\* far the processors lag and the chain moves on meanwhile.
THEOREM ReadYourWritesHolds == Spec => []ReadYourWrites
<1>1. Synced => ReadYourWrites
  BY DEF Synced
<1> QED
  BY <1>1, SyncedHolds, PTL

\* The options a method accepts reach the rows: limit, order and offset.
THEOREM OptionsAreHonouredHolds == Spec => []OptionsAreHonoured
<1>1. Synced => OptionsAreHonoured
  BY DEF Synced
<1> QED
  BY <1>1, SyncedHolds, PTL

\* Both: a read answers the call that was made, as of the caller's writes.
THEOREM ReadsAnswerTheCallHolds == Spec => []ReadsAnswerTheCall
<1>1. ReadYourWrites /\ OptionsAreHonoured => ReadsAnswerTheCall
  BY DEF ReadsAnswerTheCall
<1> QED
  BY <1>1, ReadYourWritesHolds, OptionsAreHonouredHolds, PTL

-----------------------------------------------------------------------------
\* Two ascending sequences, the one below the other, are an ascending one.
LEMMA AscendingConcat ==
  ASSUME NEW s \in Seq(Nat), NEW t \in Seq(Nat), Ascends(s), Ascends(t),
         \A i \in 1 .. Len(s) : \A j \in 1 .. Len(t) : s[i] < t[j]
  PROVE  /\ s \o t \in Seq(Nat) /\ Ascends(s \o t)
         /\ \A x : (\E i \in DOMAIN (s \o t) : (s \o t)[i] = x)
                      <=> (\E i \in DOMAIN s : s[i] = x) \/ (\E i \in DOMAIN t : t[i] = x)
<1> DEFINE u == s \o t
           m == Len(s)
           n == Len(t)
<1>1. /\ m \in Nat /\ n \in Nat /\ DOMAIN s = 1 .. m /\ DOMAIN t = 1 .. n
      /\ u \in Seq(Nat) /\ DOMAIN u = 1 .. (m + n)
      /\ \A i \in 1 .. (m + n) : u[i] = IF i <= m THEN s[i] ELSE t[i - m]
  <2>1. u \in Seq(Nat) /\ Len(u) = m + n /\ \A i \in 1 .. (m + n) : u[i] = IF i <= m THEN s[i] ELSE t[i - m]
    BY ConcatProperties
  <2> QED
    BY <2>1, LenProperties
<1>2. \A i \in 1 .. m : s[i] \in Nat
  BY <1>1, ElementOfSeq
<1>3. \A i \in 1 .. n : t[i] \in Nat
  BY <1>1, ElementOfSeq
<1>4. \A i \in 1 .. (m + n) : IF i <= m THEN i \in 1 .. m ELSE i - m \in 1 .. n
  BY <1>1
<1>5. /\ \A i \in 1 .. m : i \in 1 .. (m + n) /\ i <= m
      /\ \A i \in 1 .. n : i + m \in 1 .. (m + n) /\ ~(i + m <= m) /\ (i + m) - m = i
  BY <1>1
<1>6. Ascends(u)
  <2> SUFFICES ASSUME NEW i \in 1 .. (m + n), NEW j \in 1 .. (m + n), i < j
               PROVE  u[i] < u[j]
    BY <1>1 DEF Ascends
  <2> HIDE DEF u, m, n
  <2>1. CASE j <= m
    <3>1. i <= m /\ u[i] = s[i] /\ u[j] = s[j] /\ i \in 1 .. m /\ j \in 1 .. m
      BY <1>1, <1>4, <2>1
    <3> QED
      BY <1>1, <3>1 DEF Ascends
  <2>2. CASE ~(j <= m) /\ i <= m
    <3>1. u[i] = s[i] /\ u[j] = t[j - m] /\ i \in 1 .. m /\ j - m \in 1 .. n
      BY <1>1, <1>4, <2>2
    <3> QED
      BY <3>1 DEF m, n
  <2>3. CASE ~(j <= m) /\ ~(i <= m)
    <3>1. u[i] = t[i - m] /\ u[j] = t[j - m] /\ i - m \in 1 .. n /\ j - m \in 1 .. n /\ i - m < j - m
      BY <1>1, <1>4, <2>3
    <3> QED
      BY <1>1, <3>1 DEF Ascends
  <2> QED
    BY <2>1, <2>2, <2>3
<1>7. ASSUME NEW x
      PROVE  (\E i \in DOMAIN u : u[i] = x)
                <=> (\E i \in DOMAIN s : s[i] = x) \/ (\E i \in DOMAIN t : t[i] = x)
  <2> HIDE DEF u, m, n
  <2>1. ASSUME NEW i \in DOMAIN u, u[i] = x
        PROVE  (\E k \in DOMAIN s : s[k] = x) \/ (\E k \in DOMAIN t : t[k] = x)
    BY <1>1, <1>4, <2>1
  <2>2. ASSUME NEW i \in DOMAIN s, s[i] = x PROVE \E k \in DOMAIN u : u[k] = x
    <3>1. i \in DOMAIN u /\ u[i] = x
      BY <1>1, <1>5, <2>2
    <3> QED
      BY <3>1
  <2>3. ASSUME NEW i \in DOMAIN t, t[i] = x PROVE \E k \in DOMAIN u : u[k] = x
    <3>1. i + m \in DOMAIN u /\ u[i + m] = x
      BY <1>1, <1>5, <2>3
    <3> QED
      BY <3>1
  <2> QED
    BY <2>1, <2>2, <2>3
<1> QED
  BY <1>1, <1>6, <1>7

\* What is listed in order.
LEMMA InOrderFacts ==
  ASSUME NEW S \in SUBSET Nat, IsFiniteSet(S)
  PROVE  /\ Cardinality(S) \in Nat
         /\ InOrder(S) \in [1 .. Cardinality(S) -> S] /\ Ascends(InOrder(S))
         /\ InOrder(S) \in Seq(Nat) /\ Len(InOrder(S)) = Cardinality(S)
         /\ \A key \in S : \E i \in 1 .. Cardinality(S) : InOrder(S)[i] = key
<1> DEFINE n == Cardinality(S)
           s == InOrder(S)
<1>1. n \in Nat
  BY FS_CardinalityType
<1>2. \E list \in [1 .. n -> S] : \A i, j \in DOMAIN list : i < j => list[i] < list[j]
  BY OrderExists DEF Ascends
<1>3. s \in [1 .. n -> S] /\ Ascends(s)
  BY <1>2 DEF InOrder, Ascends
<1>4. \A key \in S : \E i \in DOMAIN s : s[i] = key
  BY <1>3, OrderIsComplete
<1>5. DOMAIN s = 1 .. n /\ s \in [1 .. n -> Nat]
  BY <1>3
<1> HIDE DEF s, n
<1>6. s \in Seq(Nat) /\ Len(s) = n
  BY <1>1, <1>5
<1> QED
  BY <1>1, <1>3, <1>4, <1>5, <1>6 DEF n, s

\* The first part of an ascending sequence.
LEMMA FirstPart ==
  ASSUME NEW s \in Seq(Nat), Ascends(s), NEW m \in 0 .. Len(s)
  PROVE  /\ SubSeq(s, 1, m) \in Seq(Nat) /\ Len(SubSeq(s, 1, m)) = m
         /\ DOMAIN SubSeq(s, 1, m) = 1 .. m
         /\ \A i \in 1 .. m : SubSeq(s, 1, m)[i] = s[i] /\ i \in DOMAIN s
         /\ Ascends(SubSeq(s, 1, m))
<1> DEFINE t == SubSeq(s, 1, m)
<1>1. Len(s) \in Nat /\ DOMAIN s = 1 .. Len(s) /\ m \in Nat
  BY LenProperties
<1>2. \A i \in 1 .. m : i \in 1 .. Len(s) /\ s[i] \in Nat
  BY <1>1, ElementOfSeq
<1>3. t \in Seq(Nat) /\ Len(t) = (IF 1 <= m THEN m - 1 + 1 ELSE 0)
      /\ \A i \in 1 .. (m - 1 + 1) : t[i] = s[1 + i - 1]
  <2>1. 1 \in Int /\ m \in Int
    BY <1>1
  <2> QED
    BY <1>2, <2>1, SubSeqProperties
<1>4. Len(t) = m /\ m - 1 + 1 = m /\ \A i \in 1 .. m : 1 + i - 1 = i
  BY <1>1, <1>3
<1>5. DOMAIN t = 1 .. m /\ \A i \in 1 .. m : t[i] = s[i]
  BY <1>3, <1>4, LenProperties
<1>6. Ascends(t)
  BY <1>1, <1>2, <1>5 DEF Ascends
<1> QED
  BY <1>1, <1>2, <1>3, <1>4, <1>5, <1>6

-----------------------------------------------------------------------------
Has(list, key) == \E i \in DOMAIN list : list[i] = key

\* What a read that follows a cursor has so far: items that were there at a version
\* it saw, all of them before the cursor, and, before it, every item that was there
\* all along.
PagesSoFar ==
    /\ Items \in Histories /\ pc \in {"paging", "done"}
    /\ pinned \in 0 .. ledger \cup {Nothing} /\ since \in 0 .. ledger
    /\ out \in Seq(Nat) /\ Ascends(out)
    /\ start \in Nat \cup {Nothing}
    /\ \A key \in Nat : Has(out, key) => \E version \in Seen : key \in Items[version]
    /\ pc = "paging" =>
          \A key \in Nat : Has(out, key) => start # Nothing /\ key < start
    /\ \A key \in Nat :
          /\ \A version \in Seen : key \in Items[version]
          /\ \/ pc = "paging" /\ start # Nothing /\ key < start
             \/ pc = "done" /\ outcome.kind = "items"
          => Has(out, key)

Paging ==
    /\ ledger \in 0 .. MaxVersion
    /\ Items # Nothing \/ pc = "paging" => PagesSoFar

\* The keys of the items that are left, and what the versions seen are.
LEMMA ItemsFacts ==
  ASSUME PagesSoFar, ledger \in 0 .. MaxVersion
  PROVE  LET version == IF pinned = Nothing THEN ledger ELSE pinned
         IN  /\ version \in Seen /\ version \in 0 .. MaxVersion
             /\ ItemsAt(version) \in SUBSET Nat /\ IsFiniteSet(ItemsAt(version))
             /\ \A key \in ItemsAt(version) : start # Nothing => key >= start
<1> DEFINE version == IF pinned = Nothing THEN ledger ELSE pinned
<1>1. MaxVersion \in Nat /\ Nothing \notin Nat
  BY ReadsAssumption
<1>2. version \in Seen /\ version \in 0 .. MaxVersion
  <2>1. CASE pinned = Nothing
    BY <1>1, <2>1 DEF PagesSoFar, Seen
  <2>2. CASE pinned # Nothing
    BY <1>1, <2>2 DEF PagesSoFar, Seen
  <2> QED
    BY <2>1, <2>2
<1> HIDE DEF version
<1>3. Items[version] \in SUBSET Nat /\ IsFiniteSet(Items[version])
  BY <1>2, ReadsAssumption DEF PagesSoFar
<1>4. ItemsAt(version) \subseteq Items[version]
  BY DEF ItemsAt
<1>5. IsFiniteSet(ItemsAt(version))
  BY <1>3, <1>4, FS_Subset
<1>6. ItemsAt(version) \in SUBSET Nat /\ \A key \in ItemsAt(version) : start # Nothing => key >= start
  BY <1>3, <1>4 DEF ItemsAt
<1> QED
  BY <1>2, <1>5, <1>6 DEF version

\* One turn of the loop.
LEMMA NextPage_Pages ==
  ASSUME Paging, NextPage
  PROVE  Paging'
<1> DEFINE version == IF pinned = Nothing THEN ledger ELSE pinned
           keys == ItemsAt(version)
           left == InOrder(keys)
           n == Cardinality(keys)
           cursor == IF n > PageSize THEN left[PageSize + 1] ELSE Nothing
           m == IF n > PageSize THEN PageSize ELSE n
           page == SubSeq(left, 1, m)
<1>1. PagesSoFar /\ pc = "paging" /\ ledger \in 0 .. MaxVersion
  BY DEF Paging, NextPage
<1>2. /\ version \in Seen /\ version \in 0 .. MaxVersion
      /\ keys \in SUBSET Nat /\ IsFiniteSet(keys)
      /\ \A key \in keys : start # Nothing => key >= start
  BY <1>1, ItemsFacts
<1>3. keys = {key \in Items[version] : start = Nothing \/ key >= start}
  BY DEF ItemsAt
<1>a. PageSize \in Nat \ {0} /\ Nothing \notin Nat
  BY ReadsAssumption
<1>4. /\ n \in Nat /\ left \in [1 .. n -> keys] /\ Ascends(left)
      /\ left \in Seq(Nat) /\ Len(left) = n
      /\ \A key \in keys : \E i \in 1 .. n : left[i] = key
  <2> HIDE DEF keys
  <2> QED
    BY <1>2, InOrderFacts
<1>b. n > PageSize => left[PageSize + 1] \in keys /\ left[PageSize + 1] \in Nat
  <2>1. n > PageSize => PageSize + 1 \in 1 .. n
    BY <1>4, <1>a
  <2> HIDE DEF keys, left, n
  <2> QED
    BY <1>2, <1>4, <2>1
<1>5. /\ out' = out \o page /\ start' = cursor
      /\ \/ cursor # Nothing /\ UNCHANGED <<pc, outcome>>
         \/ cursor = Nothing /\ pc' = "done" /\ outcome' = Returned("items", out')
      /\ UNCHANGED <<ledger, Items, pinned, since>>
  <2>1. Len(left) = n
    BY <1>4
  <2>2. (cursor = Nothing) <=> ~(n > PageSize)
    BY <1>a, <1>b
  <2>3. LET c == IF Len(left) > PageSize THEN left[PageSize + 1] ELSE Nothing
        IN  /\ out' = out \o SubSeq(left, 1, IF c = Nothing THEN Len(left) ELSE PageSize)
            /\ start' = c
            /\ \/ c # Nothing /\ UNCHANGED <<pc, outcome>>
               \/ c = Nothing /\ pc' = "done" /\ outcome' = Returned("items", out')
            /\ UNCHANGED <<ledger, Items, pinned, since>>
    BY DEF NextPage
  <2> HIDE DEF left, n, keys
  <2> QED
    BY <2>1, <2>2, <2>3
<1>6. m \in 0 .. n /\ m \in Nat
  BY <1>4, <1>a
<1>7. /\ page \in Seq(Nat) /\ Len(page) = m /\ DOMAIN page = 1 .. m /\ Ascends(page)
      /\ \A i \in 1 .. m : page[i] = left[i] /\ i \in 1 .. n /\ left[i] \in keys
  <2>0. DOMAIN left = 1 .. n
    BY <1>4
  <2> HIDE DEF left, n, keys, m
  <2> QED
    BY <1>4, <1>6, <2>0, FirstPart
<1>8. \A i \in 1 .. Len(out) : \A j \in 1 .. Len(page) : out[i] < page[j]
  <2> SUFFICES ASSUME NEW i \in 1 .. Len(out), NEW j \in 1 .. Len(page)
               PROVE  out[i] < page[j]
    OBVIOUS
  <2>1. i \in DOMAIN out /\ out[i] \in Nat
    BY <1>1, LenProperties, ElementOfSeq DEF PagesSoFar
  <2>2. Has(out, out[i])
    BY <2>1 DEF Has
  <2>3. start # Nothing /\ out[i] < start /\ start \in Nat
    BY <1>1, <2>1, <2>2 DEF PagesSoFar
  <2> HIDE DEF page, keys, m, n, left
  <2>4. page[j] \in keys
    BY <1>7
  <2>5. page[j] \in Nat /\ page[j] >= start
    BY <1>2, <2>3, <2>4
  <2> QED
    BY <2>1, <2>3, <2>5
<1>9. /\ out' \in Seq(Nat) /\ Ascends(out')
      /\ \A x : Has(out', x) <=> Has(out, x) \/ Has(page, x)
  <2>1. out \in Seq(Nat) /\ Ascends(out)
    BY <1>1 DEF PagesSoFar
  <2> HIDE DEF page
  <2>2. page \in Seq(Nat) /\ Ascends(page)
    BY <1>7
  <2>3. /\ out \o page \in Seq(Nat) /\ Ascends(out \o page)
        /\ \A x : Has(out \o page, x) <=> Has(out, x) \/ Has(page, x)
    BY <1>8, <2>1, <2>2, AscendingConcat DEF Has
  <2> QED
    BY <1>5, <2>3
<1>10. Seen' = Seen /\ Items' = Items
  BY <1>5 DEF Seen
<1> HIDE DEF page, left, m, n, keys
<1>c. \A key \in Nat : Has(page, key) => key \in keys
  BY <1>7 DEF Has
<1>11. \A key \in Nat : Has(out', key) => \E v \in Seen : key \in Items[v]
  <2>1. \A key \in Nat : Has(page, key) => key \in Items[version]
    BY <1>3, <1>c
  <2> HIDE DEF version
  <2> QED
    BY <1>1, <1>2, <1>9, <2>1 DEF PagesSoFar
<1>12. ASSUME NEW key \in Nat, Has(out', key), pc' = "paging"
       PROVE  start' # Nothing /\ key < start'
  <2>1. n > PageSize /\ m = PageSize /\ start' = left[PageSize + 1] /\ PageSize + 1 \in 1 .. n
    BY <1>4, <1>5, <1>12, <1>a DEF m
  <2>2. start' \in Nat /\ start' \in keys
    BY <1>b, <2>1
  <2>3. CASE Has(page, key)
    <3>1. PICK i \in 1 .. m : left[i] = key
      BY <1>7, <2>3 DEF Has
    <3>2. i \in 1 .. n /\ i < PageSize + 1
      BY <1>7, <2>1, <3>1, <1>a
    <3> QED
      BY <1>4, <1>a, <2>1, <2>2, <3>1, <3>2 DEF Ascends
  <2>4. CASE Has(out, key)
    <3>1. start # Nothing /\ key < start /\ start \in Nat
      BY <1>1, <2>4 DEF PagesSoFar
    <3> QED
      BY <1>2, <1>a, <2>2, <3>1
  <2> QED
    BY <1>9, <1>12, <2>3, <2>4
<1>13. ASSUME NEW key \in Nat, \A v \in Seen : key \in Items[v],
              \/ pc' = "paging" /\ start' # Nothing /\ key < start'
              \/ pc' = "done" /\ outcome'.kind = "items"
       PROVE  Has(out', key)
  <2>1. CASE start # Nothing /\ key < start
    BY <1>1, <1>9, <1>13, <2>1 DEF PagesSoFar
  <2>2. CASE ~(start # Nothing /\ key < start)
    <3>1. key \in keys
      <4>1. start = Nothing \/ key >= start
        BY <1>1, <2>2 DEF PagesSoFar
      <4>2. key \in Items[version]
        BY <1>2, <1>13
      <4> QED
        BY <1>3, <4>1, <4>2
    <3>2. PICK i \in 1 .. n : left[i] = key
      BY <1>4, <3>1
    <3>3. i \in 1 .. m
      <4>1. CASE cursor = Nothing
        <5>1. m = n
          BY <1>a, <1>b, <4>1 DEF m
        <5> QED
          BY <5>1
      <4>2. CASE cursor # Nothing
        <5>1. n > PageSize /\ m = PageSize /\ start' = left[PageSize + 1] /\ PageSize + 1 \in 1 .. n
          BY <1>4, <1>5, <4>2, <1>a DEF m
        <5>2. key < left[PageSize + 1] /\ left[PageSize + 1] \in Nat
          BY <1>1, <1>5, <1>13, <1>b, <4>2, <5>1
        <5>3. ~(PageSize + 1 < i) /\ i # PageSize + 1
          BY <1>4, <3>2, <5>1, <5>2 DEF Ascends
        <5> QED
          BY <1>4, <1>a, <5>1, <5>3
      <4> QED
        BY <4>1, <4>2
    <3>4. Has(page, key)
      BY <1>7, <3>2, <3>3 DEF Has
    <3> QED
      BY <1>9, <3>4
  <2> QED
    BY <2>1, <2>2
<1>14. start' \in Nat \cup {Nothing} /\ pc' \in {"paging", "done"}
  BY <1>1, <1>5, <1>b
<1>15. PagesSoFar'
  <2>1. /\ Items' \in Histories /\ pinned' \in 0 .. ledger' \cup {Nothing} /\ since' \in 0 .. ledger'
    BY <1>1, <1>5 DEF PagesSoFar
  <2>2. \A key \in Nat : Has(out', key) => \E v \in Seen' : key \in Items'[v]
    BY <1>10, <1>11
  <2>3. pc' = "paging" => \A key \in Nat : Has(out', key) => start' # Nothing /\ key < start'
    BY <1>12
  <2>4. \A key \in Nat :
          /\ \A v \in Seen' : key \in Items'[v]
          /\ \/ pc' = "paging" /\ start' # Nothing /\ key < start'
             \/ pc' = "done" /\ outcome'.kind = "items"
          => Has(out', key)
    BY <1>10, <1>13
  <2> QED
    BY <1>9, <1>14, <2>1, <2>2, <2>3, <2>4 DEF PagesSoFar, Has
<1> QED
  BY <1>1, <1>5, <1>15 DEF Paging

\* A read begins with nothing.
LEMMA BeginPages_Pages ==
  ASSUME Paging, NEW lived \in Histories, NEW version \in 0 .. ledger \cup {Nothing},
         BeginPages(lived, version)
  PROVE  Paging'
<1>1. /\ out' = <<>> /\ start' = Nothing /\ pc' = "paging" /\ Items' = lived /\ pinned' = version
      /\ since' = ledger /\ ledger' = ledger /\ ledger \in 0 .. MaxVersion
  BY DEF BeginPages, Paging
<1>2. <<>> \in Seq(Nat) /\ Ascends(<<>>) /\ \A key : ~Has(<<>>, key)
  BY DEF Ascends, Has
<1>3. ledger \in 0 .. ledger
  BY <1>1, ReadsAssumption
<1>4. out' \in Seq(Nat) /\ Ascends(out') /\ \A key : ~Has(out', key)
  BY <1>1, <1>2
<1>5. PagesSoFar'
  BY <1>1, <1>3, <1>4 DEF PagesSoFar, Has
<1> QED
  BY <1>1, <1>5 DEF Paging

\* The chain moves on: the read may have seen one version more.
LEMMA Commit_Pages ==
  ASSUME Paging, Commit
  PROVE  Paging'
<1>1. /\ ledger' = ledger + 1 /\ ledger \in 0 .. MaxVersion /\ ledger' \in 0 .. MaxVersion
      /\ UNCHANGED <<pc, pageVars, outcome>> /\ MaxVersion \in Nat
  BY ReadsAssumption DEF Commit, Paging
<1>2. ASSUME PagesSoFar PROVE PagesSoFar'
  <2>1. 0 .. ledger \subseteq 0 .. ledger'
    BY <1>1
  <2>2. Seen \subseteq Seen'
    BY <1>1, <1>2 DEF Seen, PagesSoFar, pageVars
  <2> QED
    BY <1>1, <1>2, <2>1, <2>2 DEF PagesSoFar, Has, pageVars
<1> QED
  BY <1>1, <1>2 DEF Paging, pageVars

\* The call ends without its last page.
LEMMA PageFails_Pages ==
  ASSUME Paging, PageFails
  PROVE  Paging'
<1>1. /\ UNCHANGED <<ledger, pageVars>> /\ pc' = "done" /\ outcome'.kind # "items" /\ PagesSoFar
  BY DEF PageFails, Paging, Threw
<1>2. Seen' = Seen
  BY <1>1 DEF Seen, pageVars
<1> QED
  BY <1>1, <1>2 DEF Paging, PagesSoFar, Has, pageVars

\* The other steps are not of such a read.
LEMMA OtherSteps_Pages ==
  ASSUME Paging, pc \notin {"paging", "done"} \/ UNCHANGED <<pc, outcome>>,
         pc' # "paging" \/ pc' = pc, UNCHANGED <<ledger, pageVars>>
  PROVE  Paging'
<1>1. CASE pc \notin {"paging", "done"}
  <2>1. Items = Nothing
    BY <1>1 DEF Paging, PagesSoFar
  <2> QED
    BY <1>1, <2>1 DEF Paging, pageVars
<1>2. CASE UNCHANGED <<pc, outcome>>
  <2>1. Seen' = Seen
    BY DEF Seen, pageVars
  <2> QED
    BY <1>2, <2>1 DEF Paging, PagesSoFar, Has, pageVars
<1> QED
  BY <1>1, <1>2

LEMMA PagingStep ==
  ASSUME Paging, [Next]_vars
  PROVE  Paging'
<1>1. ASSUME NEW m \in Methods, NEW min \in 0 .. ledger \cup {Nothing}, Begin(m, min)
      PROVE  Paging'
  <2>1. pc = "idle" /\ pc' \in {"reading", "testing"} /\ UNCHANGED <<ledger, pageVars>>
    BY <1>1 DEF Begin
  <2> QED
    BY <2>1, OtherSteps_Pages
<1>2. CASE \/ TestTimeout \/ Sleep \/ \E milliseconds \in RequestTimes : HearStatus(milliseconds)
           \/ pc = "reading" /\ \E given \in SUBSET method.accepts, spelled \in {"long", "short"} :
                                    Read(given, spelled)
  <2>1. /\ pc \in {"testing", "asking", "sleeping", "reading"}
        /\ pc' \in {"testing", "asking", "sleeping", "reading", "done"}
        /\ UNCHANGED <<ledger, pageVars>>
    BY <1>2 DEF TestTimeout, Sleep, HearStatus, Read
  <2> QED
    BY <2>1, OtherSteps_Pages
<1>3. CASE Return
  <2>1. ledger' = ledger /\ Items' = Nothing /\ pc' = "idle"
    BY <1>3 DEF Return, Forget
  <2> QED
    BY <2>1 DEF Paging
<1>4. CASE (\E p \in DOMAIN processed : Process(p)) \/ UNCHANGED vars
  <2>1. UNCHANGED <<ledger, pc, pageVars, outcome>>
    BY <1>4 DEF Process, vars
  <2> QED
    BY <2>1, OtherSteps_Pages
<1> QED
  BY <1>1, <1>2, <1>3, <1>4, NextPage_Pages, PageFails_Pages, BeginPages_Pages, Commit_Pages
     DEF Next, Client

\* paginateWithCursor: what it returns is in order and without repetition, was there
\* at a version the read saw, and lacks nothing that was there at all of them,
\* whatever the page size, and however the items change between the pages.
THEOREM PagesAreCompleteHolds == Spec => []PagesAreComplete
<1>1. Init => Paging
  BY ReadsAssumption DEF Init, Paging
<1>2. Paging /\ [Next]_vars => Paging'
  BY PagingStep
<1>3. Paging => PagesAreComplete
  <2> SUFFICES ASSUME Paging, Items # Nothing PROVE PagesAreComplete
    BY DEF PagesAreComplete
  <2>1. PagesSoFar
    BY DEF Paging
  <2>2. \A i, j \in DOMAIN out : i < j => out[i] < out[j]
    BY <2>1 DEF PagesSoFar, Ascends
  <2>3. ToSet(out) \subseteq Nat /\ \A key \in Nat : key \in ToSet(out) <=> Has(out, key)
    BY <2>1, LenProperties, ElementOfSeq DEF PagesSoFar, ToSet, Has
  <2>4. \A version \in Seen : Items[version] \subseteq Nat
    BY <2>1, ReadsAssumption DEF PagesSoFar, Seen, Paging
  <2>5. \A key \in ToSet(out) : \E version \in Seen : key \in Items[version]
    BY <2>1, <2>3 DEF PagesSoFar
  <2>6. ASSUME pc = "done", outcome.kind = "items",
               NEW key \in UNION {Items[version] : version \in Seen},
               \A version \in Seen : key \in Items[version]
        PROVE  key \in ToSet(out)
    BY <2>1, <2>3, <2>4, <2>6 DEF PagesSoFar
  <2> QED
    BY <2>2, <2>5, <2>6 DEF PagesAreComplete
<1> QED
  BY <1>1, <1>2, <1>3, PTL DEF Spec

\* While pages are on their way, they are the ones the loop requested.
PagesAreRequested ==
    /\ firstVersion \in Nat /\ lastVersion \in Nat /\ latestVersion \in Int
    /\ blockPc = "pages" => pages = PagesFrom(latestVersion + 1, lastVersion)

\* Page number k of the loop: it starts inside the range, has at least one
\* version, and does not reach beyond the last one.
LEMMA PageFacts ==
  ASSUME NEW from \in Int, NEW last \in Int, NEW k \in 1 .. PageCount(from, last)
  PROVE  /\ from < last
         /\ (k - 1) * pageSize \in Int
         /\ (k - 1) * pageSize < last - from
         /\ PagesFrom(from, last)[k].offset = from + (k - 1) * pageSize
         /\ PagesFrom(from, last)[k].limit =
               Smaller(pageSize, last - (from + (k - 1) * pageSize) + 1)
<1>1. from < last
  BY DEF PageCount
<1> DEFINE count == (last - from + pageSize - 1) \div pageSize
<1>2. PageCount(from, last) = count /\ count \in Nat /\ k \in 1 .. count
  <2>1. last - from + pageSize - 1 \in Nat
    BY <1>1, PageSizeAssumption
  <2> QED BY <1>1, <2>1, QuotientFacts, PageSizeAssumption DEF PageCount
<1>3. pageSize * count <= last - from + pageSize - 1
  <2>1. last - from + pageSize - 1 \in Nat
    BY <1>1, PageSizeAssumption
  <2> QED BY <2>1, QuotientFacts, PageSizeAssumption
<1> HIDE DEF count
<1>4. k * pageSize <= count * pageSize
  BY <1>2, MultipleFacts, PageSizeAssumption
<1>5. (k - 1) * pageSize = k * pageSize - pageSize /\ k * pageSize \in Int
  BY <1>2, PageSizeAssumption
<1>6. count * pageSize = pageSize * count /\ count * pageSize \in Int
  BY <1>2, PageSizeAssumption
<1>7. (k - 1) * pageSize < last - from
  BY <1>3, <1>4, <1>5, <1>6, PageSizeAssumption
<1> QED BY <1>1, <1>2, <1>5, <1>7, PageSizeAssumption DEF PagesFrom

\* No page reaches beyond the block.
LEMMA PagesEnd ==
  ASSUME NEW from \in Int, NEW last \in Int, NEW k \in 1 .. PageCount(from, last)
  PROVE  PagesFrom(from, last)[k].offset + PagesFrom(from, last)[k].limit - 1 <= last
<1> DEFINE begin == from + (k - 1) * pageSize
<1>1. begin \in Int /\ begin < last
  BY PageFacts
<1>2. /\ PagesFrom(from, last)[k].offset = begin
      /\ PagesFrom(from, last)[k].limit = Smaller(pageSize, last - begin + 1)
  BY PageFacts
<1> HIDE DEF begin
<1> QED BY <1>1, <1>2, PageSizeAssumption DEF Smaller

\* Each version up to the last but one is in exactly one page.
LEMMA PagesCover ==
  ASSUME NEW from \in Int, NEW last \in Int, NEW v \in from .. (last - 1)
  PROVE  \E k \in 1 .. PageCount(from, last) :
            /\ v \in PagesFrom(from, last)[k].offset ..
                       (PagesFrom(from, last)[k].offset + PagesFrom(from, last)[k].limit - 1)
            /\ \A j \in 1 .. PageCount(from, last) :
                  v \in PagesFrom(from, last)[j].offset ..
                         (PagesFrom(from, last)[j].offset + PagesFrom(from, last)[j].limit - 1)
                  => j = k
<1> DEFINE k == (v - from) \div pageSize + 1
           pg == PagesFrom(from, last)
           count == PageCount(from, last)
<1>0. pageSize \in Nat \ {0} /\ v \in Int /\ v - from \in Nat /\ v < last
  BY PageSizeAssumption
<1>1. /\ k \in Nat \ {0}
      /\ (k - 1) * pageSize \in Int
      /\ (k - 1) * pageSize <= v - from
      /\ v - from < (k - 1) * pageSize + pageSize
  <2>1. (v - from) \div pageSize \in Nat
    BY <1>0, QuotientFacts
  <2>2. k - 1 = (v - from) \div pageSize
    BY <2>1
  <2>3. (k - 1) * pageSize = pageSize * ((v - from) \div pageSize)
    BY <1>0, <2>1, <2>2
  <2> QED BY <1>0, <2>1, <2>3, QuotientFacts
<1> HIDE DEF k
<1>2. k \in 1 .. count
  <2>1. /\ count = (last - from + pageSize - 1) \div pageSize
        /\ last - from + pageSize - 1 \in Nat
    BY <1>0 DEF PageCount
  <2>2. count \in Nat /\ last - from + pageSize - 1 < pageSize * count + pageSize
    BY <1>0, <2>1, QuotientFacts
  <2>3. pageSize * count = count * pageSize /\ count * pageSize \in Int
    BY <1>0, <2>2
  <2> HIDE DEF count
  <2>4. (k - 1) * pageSize < count * pageSize
    BY <1>0, <1>1, <2>2, <2>3
  <2>5. (k - 1) * pageSize = k * pageSize - pageSize /\ k * pageSize \in Int
    BY <1>0, <1>1
  <2>6. k * pageSize < count * pageSize + pageSize
    BY <1>0, <2>3, <2>4, <2>5
  <2> QED BY <1>0, <1>1, <2>2, <2>6, MultipleFacts
<1>3. v \in pg[k].offset .. (pg[k].offset + pg[k].limit - 1)
  <2> DEFINE begin == from + (k - 1) * pageSize
  <2>1. pg[k].offset = begin /\ pg[k].limit = Smaller(pageSize, last - begin + 1)
    BY <1>2, PageFacts
  <2>2. begin \in Int /\ begin <= v /\ v < begin + pageSize
    BY <1>0, <1>1
  <2> HIDE DEF begin, pg
  <2> QED BY <1>0, <2>1, <2>2 DEF Smaller
<1>4. ASSUME NEW j \in 1 .. count, v \in pg[j].offset .. (pg[j].offset + pg[j].limit - 1)
      PROVE  j = k
  <2> DEFINE begin == from + (j - 1) * pageSize
  <2>1. pg[j].offset = begin /\ pg[j].limit = Smaller(pageSize, last - begin + 1)
        /\ (j - 1) * pageSize \in Int
    BY PageFacts
  <2>2. begin \in Int
    BY <2>1
  <2>3. begin <= v /\ v < begin + pageSize
    <3> HIDE DEF begin, pg
    <3> QED BY <1>0, <1>4, <2>1, <2>2 DEF Smaller
  <2>4. (j - 1) * pageSize <= v - from /\ v - from < (j - 1) * pageSize + pageSize
    BY <1>0, <2>1, <2>3
  <2>5. (j - 1) * pageSize < (k - 1) * pageSize + pageSize
        /\ (k - 1) * pageSize < (j - 1) * pageSize + pageSize
    BY <1>0, <1>1, <2>1, <2>4
  <2>6. j - 1 <= k - 1 /\ k - 1 <= j - 1
    BY <1>0, <1>1, <2>5, MultipleFacts
  <2> QED BY <1>1, <2>6
<1> QED BY <1>2, <1>3, <1>4

\* The pages are the requested ones in every reachable state.
THEOREM RequestsHold == BlockSpec => []PagesAreRequested
<1>1. BlockInit => PagesAreRequested
  BY LastVersionsAssumption DEF BlockInit, PagesAreRequested
<1>2. PagesAreRequested /\ [BlockNext]_blockVars => PagesAreRequested'
  <2> SUFFICES ASSUME PagesAreRequested, [BlockNext]_blockVars PROVE PagesAreRequested'
    OBVIOUS
  <2> USE DEF PagesAreRequested
  <2>1. ASSUME NEW n \in 0 .. (lastVersion - firstVersion + 1), BlockArrives(n)
        PROVE  PagesAreRequested'
    BY <2>1 DEF BlockArrives, requestVars
  <2>2. CASE BlockArrivesBare \/ BlockFails
    BY <2>2 DEF BlockArrivesBare, BlockFails, requestVars
  <2>3. ASSUME NEW k \in DOMAIN pages, PageArrives(k) \/ PageIsLost(k)
        PROVE  PagesAreRequested'
    BY <2>3 DEF PageArrives, PageIsLost, requestVars
  <2>4. CASE Combine
    BY <2>4 DEF Combine, requestVars
  <2>5. CASE UNCHANGED blockVars
    BY <2>5 DEF blockVars, requestVars
  <2> QED BY <2>1, <2>2, <2>3, <2>4, <2>5 DEF BlockNext
<1> QED BY <1>1, <1>2, PTL DEF BlockSpec

\* The pages cover the missing versions but the last exactly once, and never
\* reach beyond the block, for every page size.
THEOREM PagesTileHolds == BlockSpec => []PagesTile
<1>1. PagesAreRequested => PagesTile
  <2> SUFFICES ASSUME PagesAreRequested, blockPc = "pages" PROVE PagesTile
    BY DEF PagesTile
  <2>1. /\ pages = PagesFrom(latestVersion + 1, lastVersion)
        /\ latestVersion + 1 \in Int /\ lastVersion \in Int
        /\ DOMAIN pages = 1 .. PageCount(latestVersion + 1, lastVersion)
    BY DEF PagesAreRequested, PagesFrom
  <2>2. \A k \in DOMAIN pages : pages[k].offset + pages[k].limit - 1 <= lastVersion
    BY <2>1, PagesEnd
  <2>3. \A v \in (latestVersion + 1) .. (lastVersion - 1) :
           \E k \in DOMAIN pages :
              /\ v \in pages[k].offset .. (pages[k].offset + pages[k].limit - 1)
              /\ \A j \in DOMAIN pages :
                    v \in pages[j].offset .. (pages[j].offset + pages[j].limit - 1) => j = k
    <3> DEFINE from == latestVersion + 1
               pg == PagesFrom(from, lastVersion)
               count == PageCount(from, lastVersion)
    <3>1. SUFFICES ASSUME NEW v \in from .. (lastVersion - 1)
                   PROVE  \E k \in 1 .. count :
                             /\ v \in pg[k].offset .. (pg[k].offset + pg[k].limit - 1)
                             /\ \A j \in 1 .. count :
                                   v \in pg[j].offset .. (pg[j].offset + pg[j].limit - 1) => j = k
      <4> HIDE DEF count
      <4> QED BY <2>1, Zenon DEF count
    <3>2. from \in Int /\ lastVersion \in Int
      BY <2>1
    <3> QED BY <3>2, PagesCover
  <2> QED BY <2>2, <2>3 DEF PagesTile
<1> QED BY <1>1, RequestsHold, PTL

\* A run of versions is a sequence, and two that meet are one.
LEMMA RunFacts ==
  ASSUME NEW a \in Int, NEW b \in Int, a - 1 <= b
  PROVE  /\ Run(a, b) \in Seq(Int) /\ Len(Run(a, b)) = b - a + 1 /\ b - a + 1 \in Nat
         /\ \A i \in 1 .. (b - a + 1) : Run(a, b)[i] = a + i - 1
<1>1. b - a + 1 \in Nat
  OBVIOUS
<1> DEFINE n == b - a + 1
           s == [i \in 1 .. n |-> a + i - 1]
<1>2. Run(a, b) = s
  BY DEF Run
<1>3. n \in Nat /\ s \in [1 .. n -> Int]
  BY <1>1
<1> HIDE DEF n
<1>4. s \in Seq(Int) /\ Len(s) = n /\ \A i \in 1 .. n : s[i] = a + i - 1
  BY <1>3
<1> QED
  BY <1>1, <1>2, <1>4 DEF n

LEMMA RunsMeet ==
  ASSUME NEW a \in Int, NEW b \in Int, NEW c \in Int, a - 1 <= b, b <= c
  PROVE  Run(a, b) \o Run(b + 1, c) = Run(a, c)
<1> DEFINE s == Run(a, b)
           t == Run(b + 1, c)
           u == Run(a, c)
           m == b - a + 1
           n == c - b
           k == c - a + 1
<1>1. /\ s \in Seq(Int) /\ Len(s) = m /\ m \in Nat /\ \A i \in 1 .. m : s[i] = a + i - 1
  BY RunFacts
<1>2. /\ t \in Seq(Int) /\ Len(t) = n /\ n \in Nat /\ \A i \in 1 .. n : t[i] = (b + 1) + i - 1
  <2>1. (b + 1) - 1 <= c /\ c - (b + 1) + 1 = n /\ b + 1 \in Int
    OBVIOUS
  <2> QED
    BY <2>1, RunFacts
<1>3. /\ u \in Seq(Int) /\ Len(u) = k /\ k \in Nat /\ \A i \in 1 .. k : u[i] = a + i - 1
  <2>1. a - 1 <= c
    OBVIOUS
  <2> QED
    BY <2>1, RunFacts
<1>4. m + n = k /\ \A i \in 1 .. k : ~(i <= m) => i - m \in 1 .. n /\ (b + 1) + (i - m) - 1 = a + i - 1
  OBVIOUS
<1>5. \A i \in 1 .. k : i <= m => i \in 1 .. m
  BY <1>1
<1> HIDE DEF s, t, u, m, n, k
<1>6. /\ s \o t \in Seq(Int) /\ Len(s \o t) = k
      /\ \A i \in 1 .. k : (s \o t)[i] = IF i <= m THEN s[i] ELSE t[i - m]
  BY <1>1, <1>2, <1>4, ConcatProperties
<1>7. \A i \in 1 .. k : (s \o t)[i] = u[i]
  BY <1>1, <1>2, <1>3, <1>4, <1>5, <1>6
<1>8. s \o t = u
  BY <1>3, <1>6, <1>7, SeqEqual
<1> QED
  BY <1>8 DEF s, t, u

\* The last version of page k, and where the next page begins.
PageEnd(from, last, k) == PagesFrom(from, last)[k].offset + PagesFrom(from, last)[k].limit - 1

LEMMA PagesMeet ==
  ASSUME NEW from \in Int, NEW last \in Int, NEW k \in 1 .. PageCount(from, last)
  PROVE  /\ PagesFrom(from, last)[k].offset \in Int /\ PageEnd(from, last, k) \in Int
         /\ PagesFrom(from, last)[k].offset <= PageEnd(from, last, k)
         /\ PageEnd(from, last, k) <= last
         /\ k = 1 => PagesFrom(from, last)[k].offset = from
         /\ k + 1 \in 1 .. PageCount(from, last) =>
               PagesFrom(from, last)[k + 1].offset = PageEnd(from, last, k) + 1
         /\ k = PageCount(from, last) => last - 1 <= PageEnd(from, last, k)
<1> DEFINE pg == PagesFrom(from, last)
           count == PageCount(from, last)
           begin == from + (k - 1) * pageSize
<1>1. /\ begin \in Int /\ begin < last /\ pageSize \in Nat \ {0} /\ from < last
      /\ pg[k].offset = begin
      /\ pg[k].limit = Smaller(pageSize, last - begin + 1)
  BY PageFacts, PageSizeAssumption
<1>2. /\ PageEnd(from, last, k) = begin + Smaller(pageSize, last - begin + 1) - 1
  BY <1>1 DEF PageEnd
<1>3. k = 1 => begin = from
  <2>1. k = 1 => (k - 1) * pageSize = 0
    BY <1>1
  <2> QED
    BY <2>1
<1>4. ASSUME k + 1 \in 1 .. count
      PROVE  pg[k + 1].offset = begin + pageSize /\ begin + pageSize < last
  <2>1. /\ pg[k + 1].offset = from + ((k + 1) - 1) * pageSize
        /\ ((k + 1) - 1) * pageSize < last - from
    BY <1>4, PageFacts
  <2>2. k \in Int
    OBVIOUS
  <2>3. ((k + 1) - 1) * pageSize = (k - 1) * pageSize + pageSize /\ (k - 1) * pageSize \in Int
    BY <1>1, <2>2
  <2> QED
    BY <1>1, <2>1, <2>3
<1>5. ASSUME k = count
      PROVE  last - 1 <= PageEnd(from, last, k)
  <2>1. last - 1 \in from .. (last - 1)
    BY <1>1
  <2>2. PICK j \in 1 .. count : last - 1 \in pg[j].offset .. (pg[j].offset + pg[j].limit - 1)
    BY <2>1, PagesCover
  <2>3. /\ pg[j].offset = from + (j - 1) * pageSize /\ (j - 1) * pageSize \in Int
        /\ pg[j].limit = Smaller(pageSize, last - (from + (j - 1) * pageSize) + 1)
    BY PageFacts
  <2>4. (j - 1) * pageSize <= (k - 1) * pageSize /\ (k - 1) * pageSize \in Int
    <3>1. j - 1 \in Int /\ k - 1 \in Int /\ j - 1 <= k - 1
      BY <1>5
    <3> QED
      BY <3>1, <1>1, MultipleFacts
  <2> DEFINE other == from + (j - 1) * pageSize
  <2>5. other \in Int /\ other <= begin
    BY <2>3, <2>4
  <2>6. last - 1 <= other + Smaller(pageSize, last - other + 1) - 1
    BY <2>2, <2>3, <2>5
  <2> HIDE DEF other, begin
  <2> QED
    BY <1>1, <1>2, <2>5, <2>6 DEF Smaller
<1> HIDE DEF begin, count, pg
<1>6. /\ begin <= PageEnd(from, last, k) /\ PageEnd(from, last, k) <= last
      /\ PageEnd(from, last, k) \in Int
      /\ begin + pageSize < last => PageEnd(from, last, k) + 1 = begin + pageSize
  BY <1>1, <1>2 DEF Smaller
<1>7. /\ pg[k].offset \in Int /\ pg[k].offset <= PageEnd(from, last, k)
      /\ k = 1 => pg[k].offset = from
      /\ k + 1 \in 1 .. count => pg[k + 1].offset = PageEnd(from, last, k) + 1
      /\ k = count => last - 1 <= PageEnd(from, last, k)
  BY <1>1, <1>3, <1>4, <1>5, <1>6
<1> QED
  BY <1>6, <1>7 DEF pg, count

\* All the pages of a loop together, whatever their number.
LEMMA PagesTogether ==
  ASSUME NEW from \in Int, NEW last \in Int, PageCount(from, last) \in Nat \ {0}
  PROVE  LET pg == PagesFrom(from, last) IN
         FlattenSeq([k \in 1 .. PageCount(from, last) |->
                        Run(pg[k].offset, pg[k].offset + pg[k].limit - 1)])
           = Run(from, PageEnd(from, last, PageCount(from, last)))
<1> DEFINE pg == PagesFrom(from, last)
           n == PageCount(from, last)
           ends == [k \in 1 .. n |-> PageEnd(from, last, k)]
           seqs == [k \in 1 .. n |-> Run(pg[k].offset, pg[k].offset + pg[k].limit - 1)]
<1>1. n \in Nat /\ n > 0 /\ 1 \in 1 .. n /\ n \in 1 .. n
  OBVIOUS
<1>2. ASSUME NEW k \in 1 .. n
      PROVE  /\ pg[k].offset \in Int /\ ends[k] \in Int /\ pg[k].offset <= ends[k]
             /\ seqs[k] = Run(pg[k].offset, ends[k])
             /\ k = 1 => pg[k].offset = from
             /\ k + 1 \in 1 .. n => pg[k + 1].offset = ends[k] + 1
  <2>1. ends[k] = PageEnd(from, last, k) /\ seqs[k] = Run(pg[k].offset, PageEnd(from, last, k))
    BY DEF PageEnd
  <2> QED
    BY <2>1, PagesMeet
<1> HIDE DEF seqs, ends, n, pg
<1>3. \A k \in 1 .. n : seqs[k] \in Seq(Int)
  <2> SUFFICES ASSUME NEW k \in 1 .. n PROVE seqs[k] \in Seq(Int)
    OBVIOUS
  <2>1. pg[k].offset - 1 <= ends[k] /\ pg[k].offset \in Int /\ ends[k] \in Int
    BY <1>2
  <2> QED
    BY <1>2, <2>1, RunFacts
<1>4. seqs \in Seq(Seq(Int)) /\ Len(seqs) = n
  <2>1. seqs = [k \in 1 .. n |-> seqs[k]]
    BY DEF seqs
  <2>2. seqs \in [1 .. n -> Seq(Int)]
    BY <2>1, <1>3
  <2> QED
    BY <2>2, <1>1
<1>5. PICK f \in [1 .. n -> Seq(Int)] :
          /\ f[1] = seqs[1]
          /\ \A k \in 2 .. n : f[k] = f[k - 1] \o seqs[k]
          /\ FlattenSeq(seqs) = f[n]
  <2>1. Len(seqs) > 0
    BY <1>1, <1>4
  <2> QED
    BY <1>4, <2>1, FlattenFacts
<1> DEFINE Done == {k \in 1 .. n : f[k] = Run(from, ends[k]) /\ from <= ends[k]}
<1>6. 1 \in Done
  BY <1>1, <1>2, <1>5
<1>7. ASSUME NEW k \in 1 .. (n - 1), k \in Done
      PROVE  k + 1 \in Done
  <2>1. k \in 1 .. n /\ k + 1 \in 1 .. n /\ k + 1 \in 2 .. n /\ (k + 1) - 1 = k
    BY <1>1
  <2>2. f[k + 1] = Run(from, ends[k]) \o Run(ends[k] + 1, ends[k + 1])
    BY <1>2, <1>5, <1>7, <2>1
  <2>3. /\ ends[k] \in Int /\ ends[k + 1] \in Int /\ from - 1 <= ends[k] /\ ends[k] <= ends[k + 1]
        /\ from <= ends[k + 1]
    BY <1>2, <1>7, <2>1
  <2>4. f[k + 1] = Run(from, ends[k + 1])
    BY <2>2, <2>3, RunsMeet
  <2> QED
    BY <2>1, <2>3, <2>4
<1>8. 1 .. n \subseteq Done
  <2>1. 1 \in Int /\ n \in Int
    BY <1>1
  <2> HIDE DEF Done
  <2> QED
    BY <1>6, <1>7, <2>1, Induction
<1>9. f[n] = Run(from, ends[n])
  BY <1>1, <1>8
<1> QED
  BY <1>1, <1>5, <1>9 DEF seqs, ends, n, pg

\* The last page ends with the block, or one short of it.
LEMMA LastPage ==
  ASSUME NEW from \in Int, NEW last \in Int, PageCount(from, last) \in Nat \ {0}
  PROVE  PageEnd(from, last, PageCount(from, last))
           = IF last = from + PageCount(from, last) * pageSize THEN last - 1 ELSE last
<1> DEFINE n == PageCount(from, last)
           begin == from + (n - 1) * pageSize
           end == PageEnd(from, last, n)
<1>1. n \in 1 .. n /\ n \in Nat
  OBVIOUS
<1>2. /\ begin \in Int /\ begin < last /\ pageSize \in Nat \ {0}
      /\ end = begin + Smaller(pageSize, last - begin + 1) - 1
  BY <1>1, PageFacts, PageSizeAssumption DEF PageEnd
<1>3. last - 1 <= end /\ end <= last /\ end \in Int
  BY <1>1, PagesMeet
<1>4. begin + pageSize = from + n * pageSize
  <2>1. (n - 1) * pageSize + pageSize = n * pageSize
    BY <1>1, <1>2
  <2>2. (n - 1) * pageSize \in Int /\ n * pageSize \in Int
    BY <1>1, <1>2
  <2> QED
    BY <1>2, <2>1, <2>2
<1> HIDE DEF begin, end, n
<1>5. end = IF last = begin + pageSize THEN last - 1 ELSE last
  BY <1>2, <1>3 DEF Smaller
<1> QED
  BY <1>4, <1>5 DEF end, n

\* What a block holds while its pages are on their way, and when it is returned.
BlockHolds ==
    /\ PagesAreRequested
    /\ firstVersion - 1 <= lastVersion
    /\ blockPc = "pages" =>
          /\ latestVersion \in (firstVersion - 1) .. (lastVersion - 1)
          /\ transactions = Run(firstVersion, latestVersion)
    /\ BlockIsInOrder

LEMMA CombineHolds ==
  ASSUME BlockHolds, Combine
  PROVE  BlockIsInOrder'
<1> DEFINE from == latestVersion + 1
           n == PageCount(from, lastVersion)
           pg == PagesFrom(from, lastVersion)
           answers == [k \in DOMAIN pages |-> Answer(k)]
<1>1. /\ firstVersion \in Int /\ lastVersion \in Int /\ latestVersion \in Int
      /\ firstVersion - 1 <= latestVersion /\ latestVersion <= lastVersion - 1
      /\ from \in Int /\ pages = pg /\ transactions = Run(firstVersion, latestVersion)
      /\ transactions' = transactions \o FlattenSeq(answers)
      /\ UNCHANGED <<firstVersion, lastVersion>>
  BY DEF BlockHolds, PagesAreRequested, Combine, requestVars
<1>2. DOMAIN pages = 1 .. n
  BY <1>1 DEF PagesFrom
<1>3. n \in Nat
  <2>1. CASE from < lastVersion
    <3>1. lastVersion - from + pageSize - 1 \in Nat /\ pageSize \in Nat \ {0}
      BY <1>1, <2>1, PageSizeAssumption
    <3>2. (lastVersion - from + pageSize - 1) \div pageSize \in Nat
      BY <3>1, QuotientFacts
    <3> QED
      BY <2>1, <3>2 DEF PageCount
  <2>2. CASE ~(from < lastVersion)
    BY <2>2 DEF PageCount
  <2> QED
    BY <2>1, <2>2
<1>4. CASE n = 0
  <2>1. latestVersion = lastVersion - 1
    <3>1. ASSUME from < lastVersion PROVE FALSE
      <4>1. lastVersion - 1 \in from .. (lastVersion - 1)
        BY <1>1, <3>1
      <4>2. \E k \in 1 .. n : TRUE
        BY <1>1, <4>1, PagesCover
      <4> QED
        BY <1>4, <4>2
    <3> QED
      BY <1>1, <3>1
  <2>2. answers = <<>> /\ FlattenSeq(answers) = <<>>
    <3>1. answers = <<>>
      BY <1>2, <1>4
    <3> QED
      BY <3>1 DEF FlattenSeq
  <2>3. Run(firstVersion, latestVersion) \in Seq(Int)
    BY <1>1, RunFacts
  <2>4. transactions' = Run(firstVersion, lastVersion - 1)
    BY <1>1, <2>1, <2>2, <2>3
  <2>5. LastIsSkipped'
    <3>1. Len(pages') = 0 /\ UNCHANGED <<latestVersion, lastVersion>>
      BY <1>1, <1>2, <1>4 DEF Combine, requestVars
    <3>2. pageSize \in Nat /\ 0 * pageSize = 0
      BY PageSizeAssumption
    <3> QED
      BY <1>1, <2>1, <3>1, <3>2 DEF LastIsSkipped
  <2> QED
    BY <1>1, <2>4, <2>5 DEF BlockIsInOrder, Run
<1>5. CASE n # 0
  <2> DEFINE end == PageEnd(from, lastVersion, n)
  <2>1. FlattenSeq(answers) = Run(from, end)
    <3>1. answers = [k \in 1 .. n |-> Run(pg[k].offset, pg[k].offset + pg[k].limit - 1)]
      BY <1>1, <1>2 DEF Answer
    <3> QED
      BY <1>1, <1>3, <1>5, <3>1, PagesTogether
  <2>2. end \in Int /\ end <= lastVersion /\ lastVersion - 1 <= end
    <3>1. n \in 1 .. n
      BY <1>3, <1>5
    <3> QED
      BY <1>1, <3>1, PagesMeet
  <2> HIDE DEF end
  <2>3. transactions' = Run(firstVersion, latestVersion) \o Run(latestVersion + 1, end)
    BY <1>1, <2>1
  <2>4. latestVersion <= end
    BY <1>1, <2>2
  <2>5. transactions' = Run(firstVersion, end)
    BY <1>1, <2>2, <2>3, <2>4, RunsMeet
  <2>6. end = IF lastVersion = from + n * pageSize THEN lastVersion - 1 ELSE lastVersion
    BY <1>1, <1>3, <1>5, LastPage DEF end
  <2>7. LastIsSkipped' <=> lastVersion = from + n * pageSize
    <3>1. Len(pages') = n /\ UNCHANGED <<latestVersion, lastVersion>>
      BY <1>1, <1>2, <1>3 DEF Combine, requestVars, PagesFrom
    <3> QED
      BY <1>1, <3>1 DEF LastIsSkipped
  <2>8. end = IF LastIsSkipped' THEN lastVersion' - 1 ELSE lastVersion'
    BY <1>1, <2>6, <2>7
  <2> QED
    BY <1>1, <2>5, <2>8 DEF BlockIsInOrder, Run
<1> QED
  BY <1>4, <1>5

LEMMA BlockStep ==
  ASSUME BlockHolds, [BlockNext]_blockVars, PagesAreRequested'
  PROVE  BlockHolds'
<1>0. firstVersion \in Nat /\ lastVersion \in Nat
  BY DEF BlockHolds, PagesAreRequested
<1>1. ASSUME NEW n \in 0 .. (lastVersion - firstVersion + 1), BlockArrives(n)
      PROVE  BlockHolds'
  <2>1. /\ UNCHANGED <<withTransactions, firstVersion, lastVersion>>
        /\ latestVersion' = firstVersion + n - 1
        /\ transactions' = Run(firstVersion, latestVersion')
    BY <1>1 DEF BlockArrives, requestVars
  <2>2. latestVersion' # lastVersion => latestVersion' \in (firstVersion - 1) .. (lastVersion - 1)
    BY <1>0, <2>1
  <2>3. \/ blockPc' = "returned" /\ latestVersion' = lastVersion
        \/ blockPc' = "pages" /\ latestVersion' # lastVersion
    BY <1>1 DEF BlockArrives
  <2>4. Run(firstVersion', latestVersion') = Run(firstVersion, latestVersion')
    BY <2>1
  <2>5. BlockIsInOrder'
    <3>1. blockPc' = "returned" => latestVersion' = lastVersion' /\ lastVersion' \in Int
      BY <1>0, <2>1, <2>3
    <3>2. blockPc' = "returned" => ~LastIsSkipped'
      BY <3>1 DEF LastIsSkipped
    <3> QED
      BY <2>1, <3>1, <3>2 DEF BlockIsInOrder, Run
  <2> QED
    BY <1>0, <2>1, <2>2, <2>3, <2>5 DEF BlockHolds, Run
<1>2. CASE BlockArrivesBare \/ BlockFails
  BY <1>2 DEF BlockArrivesBare, BlockFails, requestVars, BlockHolds, BlockIsInOrder, LastIsSkipped, Run
<1>3. ASSUME NEW k \in DOMAIN pages, PageArrives(k) \/ PageIsLost(k)
      PROVE  BlockHolds'
  BY <1>3 DEF PageArrives, PageIsLost, requestVars, BlockHolds, BlockIsInOrder, LastIsSkipped, Run
<1>4. CASE Combine
  <2>1. blockPc' = "returned" /\ UNCHANGED <<firstVersion, lastVersion>>
    BY <1>4 DEF Combine, requestVars
  <2> QED
    BY <1>4, <2>1, CombineHolds DEF BlockHolds
<1>5. CASE UNCHANGED blockVars
  BY <1>5 DEF blockVars, requestVars, BlockHolds, BlockIsInOrder, LastIsSkipped, Run
<1> QED
  BY <1>1, <1>2, <1>3, <1>4, <1>5 DEF BlockNext

\* A block that is returned with its transactions has them in order, none twice,
\* and all but a last one that needs a page of its own, for every page size, every
\* block, and however many came with it.
THEOREM BlockIsInOrderHolds == BlockSpec => []BlockIsInOrder
<1>1. BlockInit => BlockHolds
  BY LastVersionsAssumption DEF BlockInit, BlockHolds, PagesAreRequested, BlockIsInOrder
<1>2. BlockHolds /\ [BlockNext]_blockVars /\ PagesAreRequested' => BlockHolds'
  BY BlockStep
<1>3. BlockHolds => BlockIsInOrder
  BY DEF BlockHolds
<1> QED
  BY <1>1, <1>2, <1>3, RequestsHold, PTL DEF BlockSpec

\* The requests of fillBlockTransactions and the block it returns.
THEOREM BlocksAreFilledHolds == BlockSpec => []BlocksAreFilled
<1>1. PagesTile /\ BlockIsInOrder => BlocksAreFilled
  BY DEF BlocksAreFilled
<1> QED
  BY <1>1, PagesTileHolds, BlockIsInOrderHolds, PTL

-----------------------------------------------------------------------------
(***************************************************************************)
(* Bcs.  What the Serializer writes the Deserializer reads back, in front  *)
(* of whatever bytes follow.  Bytes and groups of bits first.              *)
(***************************************************************************)

\* A byte is two groups, and no more values than a group has pairs.
LEMMA Bases ==
  /\ Base \in Nat \ {0} /\ Group \in Nat \ {0}
  /\ 2 <= Group /\ Base = Group + Group /\ Base <= Group * Group
<1>1. Base \in Nat /\ Base >= 4 /\ Base % 2 = 0
  BY BaseAssumption DEF BaseAssumption
<1>2. Base \div 2 \in Nat /\ Base = 2 * (Base \div 2)
  BY <1>1, SMT
<1>3. Group \in Nat /\ 2 <= Group /\ Base = Group + Group
  BY <1>1, <1>2 DEF Group
<1>4. \A g \in Nat : 2 <= g => g + g <= g * g
  BY SMT
<1> QED
  BY <1>1, <1>3, <1>4

\* Reversed twice, digits are what they were.
LEMMA BackAndForth ==
  ASSUME NEW b \in Nat, NEW n \in Nat, NEW d \in Digits(b, n)
  PROVE  Reverse(Reverse(d)) = d
<1>1. Reverse(d) \in Digits(b, n) /\ Reverse(Reverse(d)) \in Digits(b, n)
  BY Backwards
<1>2. ASSUME NEW i \in 1 .. n
      PROVE  Reverse(Reverse(d))[i] = d[i]
  <2>1. n + 1 - i \in 1 .. n /\ n + 1 - (n + 1 - i) = i
    OBVIOUS
  <2>2. Reverse(Reverse(d))[i] = Reverse(d)[n + 1 - i]
    BY <1>1, Backwards
  <2>3. Reverse(d)[n + 1 - i] = d[n + 1 - (n + 1 - i)]
    BY <2>1, Backwards
  <2> QED
    BY <2>1, <2>2, <2>3
<1> QED
  BY <1>1, <1>2 DEF Digits

\* The elements of a sequence, and of two that are joined.
LEMMA Elements ==
  ASSUME NEW T, NEW s \in Seq(T)
  PROVE  /\ Len(s) \in Nat /\ DOMAIN s = 1 .. Len(s)
         /\ \A i \in 1 .. Len(s) : s[i] \in T
         /\ s = [i \in 1 .. Len(s) |-> s[i]]
OBVIOUS

LEMMA Joined ==
  ASSUME NEW T, NEW s \in Seq(T), NEW t \in Seq(T)
  PROVE  /\ s \o t \in Seq(T) /\ Len(s \o t) = Len(s) + Len(t)
         /\ \A i \in 1 .. Len(s) : (s \o t)[i] = s[i]
         /\ \A i \in 1 .. Len(t) : (s \o t)[Len(s) + i] = t[i]
OBVIOUS

\* Where two sequences are joined they can be cut again.
LEMMA CutAtTheJoint ==
  ASSUME NEW T, NEW s \in Seq(T), NEW t \in Seq(T)
  PROVE  /\ SubSeq(s \o t, 1, Len(s)) = s
         /\ SubSeq(s \o t, Len(s) + 1, Len(s \o t)) = t
<1> DEFINE m == Len(s)
           n == Len(t)
           u == s \o t
           first == SubSeq(u, 1, m)
           last == SubSeq(u, m + 1, m + n)
<1>1. /\ m \in Nat /\ n \in Nat /\ u \in Seq(T) /\ Len(u) = m + n
      /\ \A i \in 1 .. m : u[i] = s[i]
      /\ \A i \in 1 .. n : u[m + i] = t[i]
  OBVIOUS
<1> HIDE DEF m, n, u
<1>2. first \in Seq(T) /\ Len(first) = m /\ \A i \in 1 .. m : first[i] = s[i]
  <2>1. \A i \in 1 .. m : 1 + i - 1 = i /\ 1 \in 1 .. (Len(u) + 1) /\ m \in 0 .. Len(u)
    BY <1>1
  <2>2. /\ first \in Seq(T) /\ Len(first) = IF 1 <= m THEN m - 1 + 1 ELSE 0
        /\ \A i \in 1 .. (m - 1 + 1) : first[i] = u[1 + i - 1]
    BY <1>1, SubSeqProperties
  <2> QED
    BY <1>1, <2>1, <2>2
<1>3. last \in Seq(T) /\ Len(last) = n /\ \A i \in 1 .. n : last[i] = t[i]
  <2>1. \A i \in 1 .. n : m + 1 + i - 1 = m + i
    BY <1>1
  <2>2. /\ last \in Seq(T) /\ Len(last) = IF m + 1 <= m + n THEN m + n - (m + 1) + 1 ELSE 0
        /\ \A i \in 1 .. (m + n - (m + 1) + 1) : last[i] = u[m + 1 + i - 1]
    BY <1>1, SubSeqProperties
  <2> QED
    BY <1>1, <2>1, <2>2
<1> HIDE DEF first, last
<1>4. first = s
  BY <1>1, <1>2, SeqEqual DEF m
<1>5. last = t
  BY <1>1, <1>3, SeqEqual DEF n
<1> QED
  BY <1>1, <1>4, <1>5 DEF first, last, m, n, u

\* A read of n bytes takes the first n and leaves the others.
LEMMA ReadsThePrefix ==
  ASSUME NEW T, NEW s \in Seq(T), NEW rest \in Seq(T)
  PROVE  read(Len(s), s \o rest) = Got(Leaf(s), rest)
<1>1. ~(Len(s) > Len(s \o rest))
  OBVIOUS
<1>2. /\ SubSeq(s \o rest, 1, Len(s)) = s
      /\ SubSeq(s \o rest, Len(s) + 1, Len(s \o rest)) = rest
  BY CutAtTheJoint
<1> QED
  BY <1>1, <1>2 DEF read

\* Digits are a sequence of so many.
LEMMA DigitsInARow ==
  ASSUME NEW b \in Nat, NEW n \in Nat, NEW d \in Digits(b, n)
  PROVE  d \in Seq(0 .. (b - 1)) /\ Len(d) = n
BY DEF Digits

\* What a read returned is told by its fields.
LEMMA GotFacts ==
  ASSUME NEW leaf, NEW rest
  PROVE  /\ Got(Leaf(leaf), rest).ok
         /\ Got(Leaf(leaf), rest).value.leaf = leaf
         /\ Got(Leaf(leaf), rest).rest = rest
BY DEF Got, Leaf

\* The bytes of a number that fits into them, and what they are read as.
LEMMA LowBytes ==
  ASSUME NEW width \in Nat, NEW n \in Nat, n < Power(Base, width)
  PROVE  /\ serializeUint(n, width) \in Digits(Base, width)
         /\ UintOf(serializeUint(n, width)) = n
<1>1. DigitsOf(n, Base, width) \in Digits(Base, width) /\ ValueOf(DigitsOf(n, Base, width), Base) = n
  BY Bases, DigitsOfFacts
<1> QED
  BY <1>1, Bases, Backwards, BackAndForth DEF serializeUint, UintOf

Bytes == 0 .. (Base - 1)

\* A number of as many bytes as the width says is read back, whatever follows.
THEOREM UintsAreReadBack ==
  ASSUME NEW width \in Nat, NEW n \in 0 .. (Power(Base, width) - 1), NEW rest \in Seq(Bytes)
  PROVE  deserializeUint(width, serializeUint(n, width) \o rest) = Got(Leaf(<<n>>), rest)
<1> DEFINE s == serializeUint(n, width)
           r == read(width, s \o rest)
<1>0. Power(Base, width) \in Nat
  BY Bases, PowerFacts
<1>1. n \in Nat /\ n < Power(Base, width)
  BY <1>0
<1>2. s \in Digits(Base, width) /\ UintOf(s) = n
  BY <1>1, LowBytes
<1>6. deserializeUint(width, s \o rest) = IF r.ok THEN Got(Leaf(<<UintOf(r.value.leaf)>>), r.rest) ELSE Thrown
  BY DEF deserializeUint, Then
<1> HIDE DEF s
<1>3. s \in Seq(Bytes) /\ Len(s) = width
  BY <1>2, Bases, DigitsInARow DEF Bytes
<1>4. r = Got(Leaf(s), rest)
  BY <1>3, ReadsThePrefix
<1> HIDE DEF r
<1>5. r.ok /\ r.value.leaf = s /\ r.rest = rest
  BY <1>4, GotFacts
<1> QED
  BY <1>2, <1>5, <1>6 DEF s

\* Where word w of a number is among its bytes.
WordsAt(s, words, i) ==
  /\ s \in Seq(Bytes) /\ Len(s) = 4 * i
  /\ \A w \in 1 .. i : \A j \in 1 .. 4 : s[4 * (w - 1) + j] = serializeUint(words[w], 4)[j]

\* A u32 takes four bytes.
LEMMA OneWord ==
  ASSUME NEW word \in 0 .. MaxU32
  PROVE  /\ serializeUint(word, 4) \in Digits(Base, 4)
         /\ UintOf(serializeUint(word, 4)) = word
<1>1. Power(Base, 4) \in Nat
  BY Bases, PowerFacts
<1>2. word \in Nat /\ word < Power(Base, 4)
  BY <1>1 DEF MaxU32
<1> QED
  BY <1>2, LowBytes

\* The bytes of one more word go behind those of the others.
LEMMA OneWordMore ==
  ASSUME NEW words, NEW i \in Nat, NEW s, WordsAt(s, words, i),
         NEW t \in Seq(Bytes), Len(t) = 4, t = serializeUint(words[i + 1], 4)
  PROVE  WordsAt(s \o t, words, i + 1)
<1> DEFINE u == s \o t
           m == 4 * i
<1>1. /\ s \in Seq(Bytes) /\ Len(s) = m /\ m \in Nat
      /\ \A w \in 1 .. i : \A j \in 1 .. 4 : s[4 * (w - 1) + j] = serializeUint(words[w], 4)[j]
  BY DEF WordsAt
<1>2. 4 * (i + 1) = m + 4 /\ 4 * (i + 1 - 1) = m
  OBVIOUS
<1> HIDE DEF m
<1>0. s \in Seq(Bytes)
  BY <1>1
<1>3. /\ u \in Seq(Bytes) /\ Len(u) = Len(s) + Len(t)
      /\ \A j \in 1 .. Len(s) : u[j] = s[j]
      /\ \A j \in 1 .. Len(t) : u[Len(s) + j] = t[j]
  BY <1>0, Joined, SMTT(60)
<1> HIDE DEF u
<1>4. ASSUME NEW w \in 1 .. (i + 1), NEW j \in 1 .. 4
      PROVE  u[4 * (w - 1) + j] = serializeUint(words[w], 4)[j]
  <2>1. CASE w = i + 1
    BY <1>1, <1>2, <1>3, <2>1
  <2>2. CASE w # i + 1
    <3>1. w \in 1 .. i /\ 4 * (w - 1) + j \in 1 .. m
      BY <2>2 DEF m
    <3> QED
      BY <1>1, <1>3, <3>1
  <2> QED
    BY <2>1, <2>2
<1>5. u \in Seq(Bytes) /\ Len(u) = 4 * (i + 1)
  <2>1. Len(u) = m + 4
    BY <1>1, <1>3
  <2> QED
    BY <1>2, <1>3, <2>1
<1> QED
  BY <1>4, <1>5 DEF WordsAt, u

\* So all words of a number are where they are looked for.
LEMMA WordsInOrder ==
  ASSUME NEW words \in Seq(0 .. MaxU32), Len(words) > 0
  PROVE  WordsAt(serializeWords(words), words, Len(words))
<1> DEFINE c == Len(words)
           seqs == [w \in DOMAIN words |-> serializeUint(words[w], 4)]
<1>1. /\ c \in Nat /\ c > 0 /\ DOMAIN seqs = 1 .. c
      /\ \A w \in 1 .. c : words[w] \in 0 .. MaxU32
  BY Elements
<1>2. \A w \in 1 .. c : seqs[w] = serializeUint(words[w], 4) /\ seqs[w] \in Digits(Base, 4)
  BY <1>1, OneWord
<1>3. \A w \in 1 .. c : seqs[w] \in Seq(Bytes) /\ Len(seqs[w]) = 4
  BY <1>2, Bases, DigitsInARow DEF Bytes
<1>4. seqs \in Seq(Seq(Bytes)) /\ Len(seqs) = c
  <2>1. seqs = [w \in 1 .. c |-> seqs[w]]
    OBVIOUS
  <2> HIDE DEF seqs, c
  <2> QED
    BY <1>1, <1>3, <2>1
<1>5. serializeWords(words) = FlattenSeq(seqs)
  BY DEF serializeWords
<1> HIDE DEF seqs, c
<1>6. PICK f \in [1 .. c -> Seq(Bytes)] :
         /\ f[1] = seqs[1]
         /\ \A i \in 2 .. c : f[i] = f[i - 1] \o seqs[i]
         /\ FlattenSeq(seqs) = f[c]
  BY <1>1, <1>4, FlattenFacts
<1> DEFINE Done == {i \in 1 .. c : WordsAt(f[i], words, i)}
<1>7. 1 \in Done
  <2>1. 1 \in 1 .. c /\ \A w \in 1 .. 1 : w = 1 /\ \A j \in 1 .. 4 : 4 * (w - 1) + j = j
    BY <1>1
  <2> QED
    BY <1>2, <1>3, <1>6, <2>1 DEF WordsAt
<1>8. ASSUME NEW i \in 1 .. (c - 1), i \in Done
      PROVE  i + 1 \in Done
  <2>1. i + 1 \in 2 .. c /\ i + 1 \in 1 .. c /\ i \in 1 .. c /\ (i + 1) - 1 = i /\ i \in Nat
    BY <1>1
  <2>2. f[i + 1] = f[i] \o seqs[i + 1] /\ seqs[i + 1] \in Seq(Bytes) /\ Len(seqs[i + 1]) = 4
    BY <1>3, <1>6, <2>1
  <2>3. seqs[i + 1] = serializeUint(words[i + 1], 4)
    BY <1>2, <2>1
  <2>4. WordsAt(f[i], words, i)
    BY <1>8
  <2>5. WordsAt(f[i] \o seqs[i + 1], words, i + 1)
    BY <2>1, <2>2, <2>3, <2>4, OneWordMore, Zenon
  <2>6. WordsAt(f[i + 1], words, i + 1)
    BY <2>2, <2>5
  <2> QED
    BY <2>1, <2>6
<1>9. 1 .. c \subseteq Done
  <2>1. 1 \in Int /\ c \in Int
    BY <1>1
  <2> HIDE DEF Done
  <2> QED
    BY <1>7, <1>8, <2>1, Induction
<1>10. c \in Done
  BY <1>1, <1>9
<1> QED
  BY <1>5, <1>6, <1>10 DEF c

\* A u64, a u128 or a u256 is read back word for word, whatever follows.
THEOREM WordsAreReadBack ==
  ASSUME NEW words \in Seq(0 .. MaxU32), Len(words) > 0, NEW rest \in Seq(Bytes)
  PROVE  deserializeWords(Len(words), serializeWords(words) \o rest) = Got(Leaf(words), rest)
<1> DEFINE c == Len(words)
           s == serializeWords(words)
           r == read(4 * c, s \o rest)
           word(w) == UintOf(SubSeq(r.value.leaf, 4 * (w - 1) + 1, 4 * w))
<1>1. WordsAt(s, words, c)
  BY WordsInOrder
<1>2. c \in Nat /\ words = [w \in 1 .. c |-> words[w]] /\ \A w \in 1 .. c : words[w] \in 0 .. MaxU32
  BY Elements
<1>3. deserializeWords(c, s \o rest) = IF r.ok THEN Got(Leaf([w \in 1 .. c |-> word(w)]), r.rest) ELSE Thrown
  BY DEF deserializeWords, Then
<1> HIDE DEF s, c
<1>4. s \in Seq(Bytes) /\ Len(s) = 4 * c
  BY <1>1 DEF WordsAt
<1>5. r = Got(Leaf(s), rest)
  BY <1>4, ReadsThePrefix
<1> HIDE DEF r
<1>6. r.ok /\ r.value.leaf = s /\ r.rest = rest
  BY <1>5, GotFacts
<1>7. ASSUME NEW w \in 1 .. c
      PROVE  word(w) = words[w]
  <2> DEFINE t == SubSeq(s, 4 * (w - 1) + 1, 4 * w)
             d == serializeUint(words[w], 4)
             from == 4 * (w - 1) + 1
  <2>1. /\ w \in Int /\ from \in Int /\ 4 * w \in Int
        /\ 4 * w - from + 1 = 4 /\ from <= 4 * w
        /\ \A i \in from .. (4 * w) : i \in 1 .. (4 * c)
        /\ \A j \in 1 .. 4 : from + j - 1 = 4 * (w - 1) + j
    <3>1. c \in Nat /\ w \in Int /\ 1 <= w /\ w <= c
      BY <1>2
    <3> HIDE DEF t, d
    <3> QED
      BY <3>1
  <2>2. \A i \in from .. (4 * w) : s[i] \in Bytes
    BY <1>4, <2>1
  <2>3. \A j \in 1 .. 4 : s[4 * (w - 1) + j] = d[j]
    BY <1>1 DEF WordsAt
  <2>4. d \in Digits(Base, 4) /\ UintOf(d) = words[w]
    BY <1>2, OneWord
  <2> HIDE DEF d, from
  <2>5. /\ SubSeq(s, from, 4 * w) \in Seq(Bytes) /\ Len(SubSeq(s, from, 4 * w)) = 4
        /\ \A j \in 1 .. 4 : SubSeq(s, from, 4 * w)[j] = s[from + j - 1]
    BY <2>1, <2>2, SubSeqProperties
  <2>6. t = SubSeq(s, from, 4 * w)
    BY DEF from
  <2> HIDE DEF t
  <2>7. d \in Seq(Bytes) /\ Len(d) = 4
    BY <2>4, Bases, DigitsInARow DEF Bytes
  <2>8. t = d
    BY <2>1, <2>3, <2>5, <2>6, <2>7, SeqEqual
  <2> QED
    BY <1>6, <2>4, <2>8 DEF t
<1>8. [w \in 1 .. c |-> word(w)] = words
  <2> HIDE DEF word
  <2>1. [w \in 1 .. c |-> word(w)] = [w \in 1 .. c |-> words[w]]
    BY <1>7
  <2> QED
    BY <1>2, <2>1
<1> HIDE DEF word
<1> QED
  BY <1>3, <1>6, <1>8 DEF s, c
-----------------------------------------------------------------------------
(* The groups of a uleb128 number.                                         *)

\* Both a group and a group with the bit above it leave the group.
LEMMA Remainders ==
  ASSUME NEW g \in Nat \ {0}, NEW x \in 0 .. (g - 1)
  PROVE  x % g = x /\ (g + x) % g = x
<1>1. x % g = x
  OBVIOUS
<1>2. \A q \in Int : g * q <= g + x /\ g + x < g * q + g => q = 1
  <2> SUFFICES ASSUME NEW q \in Int, g * q <= g + x, g + x < g * q + g PROVE q = 1
    OBVIOUS
  <2>1. ~(q >= 2)
    <3> SUFFICES ASSUME q >= 2 PROVE FALSE
      OBVIOUS
    <3>1. g * q >= g * 2
      BY SMT
    <3> QED
      BY <3>1
  <2>2. ~(q <= 0)
    <3> SUFFICES ASSUME q <= 0 PROVE FALSE
      OBVIOUS
    <3>1. g * q <= g * 0
      BY SMT
    <3> QED
      BY <3>1
  <2> QED
    BY <2>1, <2>2
<1>3. LET q == (g + x) \div g
      IN  q \in Int /\ g * q <= g + x /\ g + x < g * q + g /\ (g + x) % g = g + x - g * q
  BY SMT
<1>4. (g + x) \div g = 1
  BY <1>2, <1>3
<1> QED
  BY <1>1, <1>3, <1>4

\* The groups of a number, the lowest first: the last of several is not 0, so
\* that the number is at least what a 1 there says.
GroupsAre(n, e, m) ==
  /\ m \in 1 .. MostGroups /\ e \in Digits(Group, m)
  /\ ValueOf(Reverse(e), Group) = n
  /\ m > 1 => Power(Group, m - 1) <= n
  /\ serializeU32AsUleb128(n) = [i \in 1 .. m |-> IF i < m THEN Group + e[i] ELSE e[i]]

\* A u32 fits into the most groups.
LEMMA EnoughGroups ==
  ASSUME NEW n \in 0 .. MaxU32
  PROVE  n \in Nat /\ MaxU32 \in Nat /\ n < Power(Group, MostGroups)
<1>1. Power(Base, 4) \in Nat \ {0}
  BY Bases, PowerFacts
<1>2. Power(Base, 4) <= Power(Group * Group, 4)
  BY Bases, PowerBases
<1>3. Power(Group * Group, 4) = Power(Group, 2 * 4)
  BY Bases, PowerSquare
<1>4. Power(Group, 2 * 4) \in Nat
  BY Bases, PowerFacts
<1>5. 2 * 4 = MostGroups
  BY DEF MostGroups
<1> QED
  BY <1>1, <1>2, <1>3, <1>4, <1>5 DEF MaxU32

\* A u32 is not always 0.
LEMMA SomeNumbers ==
  MaxU32 \in Nat /\ 0 < MaxU32
<1>1. Power(Base, 0) = 1 /\ Power(Base, 1) = 1 * Base
  BY Bases, PowerFacts, 0 + 1 = 1
<1>2. Power(Base, 1) <= Power(Base, 4) /\ Power(Base, 4) \in Nat
  BY Bases, PowerOrder, PowerFacts
<1> QED
  BY <1>1, <1>2, Bases DEF MaxU32

\* Every u32 has its groups.
LEMMA GroupsExist ==
  ASSUME NEW n \in 0 .. MaxU32
  PROVE  \E m \in Nat : \E e : GroupsAre(n, e, m)
<1>1. n \in Nat /\ n < Power(Group, MostGroups) /\ MostGroups \in Nat
  BY EnoughGroups DEF MostGroups
<1> DEFINE d == ShortestDigits(n, Group, MostGroups)
<1>2. PICK k \in 0 .. MostGroups :
         /\ d \in Digits(Group, k) /\ ValueOf(d, Group) = n
         /\ n < Power(Group, k) /\ (k > 0 => Power(Group, k - 1) <= n)
  BY <1>1, Bases, ShortestFacts
<1> HIDE DEF d
<1>3. CASE n = 0
  <2> DEFINE e == <<0>>
  <2>1. e \in Digits(Group, 1) /\ Len(e) = 1 /\ e[1] = 0
    BY Bases DEF Digits
  <2>2. serializeU32AsUleb128(n) = [i \in 1 .. 1 |-> IF i < 1 THEN Group + e[i] ELSE e[i]]
    BY <1>3 DEF serializeU32AsUleb128, GroupsOf, Continued
  <2> HIDE DEF e
  <2>3. Reverse(e) \in Digits(Group, 1) /\ Reverse(e)[1] = 0
    <3>1. 1 \in 1 .. 1 /\ 1 + 1 - 1 = 1
      OBVIOUS
    <3> QED
      BY <2>1, <3>1, Backwards, Bases
  <2>4. ValueOf(Reverse(e), Group) = 0
    <3>1. ValueOf(Reverse(e), Group) < Power(Group, 1 - 1) /\ ValueOf(Reverse(e), Group) \in Nat
      BY <2>3, Bases, ValueBounds
    <3>2. Power(Group, 0) = 1
      BY Bases, PowerFacts
    <3> QED
      BY <3>1, <3>2
  <2>5. GroupsAre(n, e, 1)
    BY <1>3, <2>1, <2>2, <2>4 DEF GroupsAre, MostGroups
  <2> QED
    BY <2>5
<1>4. CASE n # 0
  <2> DEFINE e == Reverse(d)
  <2>1. k # 0
    BY <1>1, <1>2, <1>4, Bases, PowerFacts
  <2>2. e \in Digits(Group, k) /\ Reverse(e) = d
    BY <1>2, Bases, Backwards, BackAndForth
  <2>3. Len(e) = k
    <3>1. k \in Nat
      BY <1>1
    <3> QED
      BY <2>2, <3>1, Bases, DigitsInARow
  <2>4. serializeU32AsUleb128(n) = [i \in 1 .. Len(e) |-> IF i < Len(e) THEN Group + e[i] ELSE e[i]]
    BY <1>4 DEF serializeU32AsUleb128, GroupsOf, Continued, d
  <2> HIDE DEF e
  <2>5. GroupsAre(n, e, k)
    BY <1>2, <2>1, <2>2, <2>3, <2>4 DEF GroupsAre
  <2> QED
    BY <2>5
<1> QED
  BY <1>3, <1>4

\* The bytes of a number, and what the loop has read of them: it goes on at
\* each but the last, and ends there with the number.
LEMMA LoopReadsGroups ==
  ASSUME NEW n \in 0 .. MaxU32, NEW m \in Nat, NEW e, GroupsAre(n, e, m),
         NEW rest \in Seq(Bytes)
  PROVE  LET s == serializeU32AsUleb128(n)
             bytes == s \o rest
         IN  /\ s \in Seq(Bytes) /\ Len(s) = m
             /\ \A i \in 0 .. (m - 1) : GoesOn(bytes, i)
             /\ ~GoesOn(bytes, m) /\ ValueAfter(bytes, m) = n
<1> DEFINE s == serializeU32AsUleb128(n)
           bytes == s \o rest
           first(i) == [j \in 1 .. i |-> bytes[j] % Group]
<1>1. /\ m \in 1 .. MostGroups /\ e \in Digits(Group, m) /\ ValueOf(Reverse(e), Group) = n
      /\ (m > 1 => Power(Group, m - 1) <= n)
      /\ s = [i \in 1 .. m |-> IF i < m THEN Group + e[i] ELSE e[i]]
  BY DEF GroupsAre
<1>2. n \in Nat /\ MaxU32 \in Nat /\ n <= MaxU32 /\ MostGroups \in Nat
  BY EnoughGroups DEF MostGroups
<1>3. \A i \in 1 .. m : e[i] \in 0 .. (Group - 1)
  BY <1>1 DEF Digits
<1>4. s \in Seq(Bytes) /\ Len(s) = m
  <2>1. s \in [1 .. m -> Bytes]
    BY <1>1, <1>3, Bases DEF Bytes
  <2> HIDE DEF s
  <2> QED
    BY <2>1
<1>5. \A i \in 1 .. m : s[i] = IF i < m THEN Group + e[i] ELSE e[i]
  BY <1>1
<1> HIDE DEF s
<1>6. \A i \in 1 .. m : bytes[i] = s[i]
  BY <1>4
<1> HIDE DEF bytes
<1>7. \A i \in 1 .. m : bytes[i] % Group = e[i]
  BY <1>3, <1>5, <1>6, Bases, Remainders
<1>8. \A i \in 0 .. m : first(i) = [j \in 1 .. i |-> e[j]] /\ first(i) \in Digits(Group, i)
  BY <1>3, <1>7 DEF Digits
<1>9. first(m) = e
  BY <1>1, <1>8 DEF Digits
<1>10. ASSUME NEW i \in 0 .. m
       PROVE  ValueAfter(bytes, i) = ValueOf(Reverse(first(i)), Group)
  BY DEF ValueAfter
<1> HIDE DEF first
<1>11. ValueAfter(bytes, m) = n
  BY <1>1, <1>9, <1>10
<1>12. ASSUME NEW i \in 0 .. (m - 1)
       PROVE  GoesOn(bytes, i)
  <2>1. i \in Nat /\ i \in 0 .. m
    BY <1>1
  <2>2. Reverse(first(i)) \in Digits(Group, i)
    BY <1>8, <2>1, Bases, Backwards
  <2>3. ValueAfter(bytes, i) \in Nat /\ ValueAfter(bytes, i) < Power(Group, i)
    BY <1>10, <2>1, <2>2, Bases, ValueBounds
  <2>4. CASE i = 0
    <3>1. Power(Group, 0) = 1
      BY Bases, PowerFacts
    <3>2. 0 < MaxU32
      BY SomeNumbers
    <3> QED
      BY <1>2, <2>3, <2>4, <3>1, <3>2 DEF GoesOn
  <2>5. CASE i > 0
    <3>1. m > 1 /\ m - 1 \in Nat /\ i <= m - 1 /\ i \in 1 .. m /\ i < m
      BY <1>1, <2>5
    <3>2. Power(Group, i) <= Power(Group, m - 1) /\ Power(Group, i) \in Nat /\ Power(Group, m - 1) \in Nat
      BY <2>1, <3>1, Bases, PowerOrder, PowerFacts
    <3>3. ValueAfter(bytes, i) < MaxU32
      BY <1>1, <1>2, <2>3, <3>1, <3>2
    <3>4. bytes[i] >= Group
      BY <1>3, <1>5, <1>6, <3>1, Bases
    <3> QED
      BY <3>3, <3>4 DEF GoesOn
  <2> QED
    BY <2>4, <2>5, <2>1
<1>13. ~GoesOn(bytes, m)
  <2>1. m \in 1 .. m /\ ~(m < m) /\ m > 0
    BY <1>1
  <2>2. bytes[m] < Group /\ bytes[m] \in Nat
    BY <1>3, <1>5, <1>6, <2>1, Bases
  <2> QED
    BY <2>1, <2>2, Bases DEF GoesOn
<1> QED
  BY <1>4, <1>11, <1>12, <1>13 DEF s, bytes

\* The loop ends once.
LEMMA OneEnd ==
  ASSUME NEW bytes, NEW n \in Nat, NEW m \in 0 .. n, NEW k \in 0 .. n,
         EndsAfter(bytes, m), EndsAfter(bytes, k)
  PROVE  k = m
<1>1. /\ ~GoesOn(bytes, m) /\ \A j \in 0 .. (m - 1) : GoesOn(bytes, j)
      /\ ~GoesOn(bytes, k) /\ \A j \in 0 .. (k - 1) : GoesOn(bytes, j)
  BY DEF EndsAfter
<1>2. k \in 0 .. (m - 1) \/ m \in 0 .. (k - 1) \/ k = m
  OBVIOUS
<1> QED
  BY <1>1, <1>2

\* A length or a tag of at most MaxU32 is read back, whatever follows.
THEOREM Uleb128IsReadBack ==
  ASSUME NEW n \in 0 .. MaxU32, NEW rest \in Seq(Bytes)
  PROVE  deserializeUleb128AsU32(serializeU32AsUleb128(n) \o rest) = Got(Leaf(<<n>>), rest)
<1>1. PICK m \in Nat : \E e : GroupsAre(n, e, m)
  BY GroupsExist
<1>2. PICK e : GroupsAre(n, e, m)
  BY <1>1
<1> DEFINE s == serializeU32AsUleb128(n)
           bytes == s \o rest
           last == CHOOSE i \in 0 .. Len(bytes) : EndsAfter(bytes, i)
<1>3. /\ s \in Seq(Bytes) /\ Len(s) = m
      /\ \A i \in 0 .. (m - 1) : GoesOn(bytes, i)
      /\ ~GoesOn(bytes, m) /\ ValueAfter(bytes, m) = n
  BY <1>2, LoopReadsGroups
<1>4. n \in Nat /\ MaxU32 \in Nat /\ ~(n > MaxU32)
  BY EnoughGroups
<1> HIDE DEF s
<1>5. Len(bytes) \in Nat /\ m \in 0 .. Len(bytes)
  BY <1>3
<1>6. SubSeq(bytes, m + 1, Len(bytes)) = rest
  BY <1>3, CutAtTheJoint
<1> HIDE DEF bytes
<1>7. EndsAfter(bytes, m)
  BY <1>3 DEF EndsAfter
<1>8. last \in 0 .. Len(bytes) /\ EndsAfter(bytes, last)
  BY <1>5, <1>7
<1>9. last = m
  <2> HIDE DEF last
  <2> QED
    BY <1>5, <1>7, <1>8, OneEnd
<1>10. ~(\A i \in 0 .. Len(bytes) : GoesOn(bytes, i))
  BY <1>3, <1>5
<1>11. deserializeUleb128AsU32(bytes) =
         IF ValueAfter(bytes, last) > MaxU32 THEN Thrown
         ELSE Got(Leaf(<<ValueAfter(bytes, last)>>), SubSeq(bytes, last + 1, Len(bytes)))
  BY <1>10 DEF deserializeUleb128AsU32, StoppedAt, InU32
<1> HIDE DEF last
<1> QED
  BY <1>3, <1>4, <1>6, <1>9, <1>11 DEF bytes, s

\* No length or tag that is read is above MaxU32, whatever the bytes; a read
\* takes at least one of them and leaves the others.
THEOREM Uleb128IsBounded ==
  ASSUME NEW bytes \in Seq(Bytes), deserializeUleb128AsU32(bytes).ok
  PROVE  \E n \in 0 .. MaxU32 : \E m \in 1 .. Len(bytes) :
            deserializeUleb128AsU32(bytes) = Got(Leaf(<<n>>), SubSeq(bytes, m + 1, Len(bytes)))
<1> DEFINE Ends == {i \in 0 .. Len(bytes) : ~GoesOn(bytes, i)}
           last == CHOOSE i \in 0 .. Len(bytes) : EndsAfter(bytes, i)
           value == ValueAfter(bytes, last)
<1>1. ~(\A i \in 0 .. Len(bytes) : GoesOn(bytes, i))
  BY DEF deserializeUleb128AsU32, Thrown
<1>2. Ends \in SUBSET Nat /\ Ends # {}
  BY <1>1
<1>3. PICK m \in Ends : \A i \in Ends : m <= i
  BY <1>2, LeastNumber
<1>4. m \in 0 .. Len(bytes) /\ EndsAfter(bytes, m)
  BY <1>3 DEF EndsAfter
<1>5. last \in 0 .. Len(bytes) /\ EndsAfter(bytes, last)
  BY <1>4
<1>6. deserializeUleb128AsU32(bytes) =
        IF value > MaxU32 THEN Thrown ELSE Got(Leaf(<<value>>), SubSeq(bytes, last + 1, Len(bytes)))
  BY <1>1 DEF deserializeUleb128AsU32, StoppedAt, InU32
<1> HIDE DEF last
<1>7. ~(value > MaxU32)
  BY <1>6 DEF Thrown
<1> DEFINE read1 == [j \in 1 .. last |-> bytes[j] % Group]
<1>8. last \in Nat /\ read1 \in Digits(Group, last)
  <2>1. ASSUME NEW j \in 1 .. last
        PROVE  bytes[j] % Group \in 0 .. (Group - 1)
    <3>1. j \in 1 .. Len(bytes)
      BY <1>5
    <3>2. bytes[j] \in Nat
      BY <3>1, Bases DEF Bytes
    <3> QED
      BY <3>2, Bases
  <2> QED
    BY <1>5, <2>1 DEF Digits
<1>9. value \in Nat
  <2>1. value = ValueOf(Reverse(read1), Group)
    BY DEF ValueAfter
  <2> HIDE DEF read1, value
  <2>2. Reverse(read1) \in Digits(Group, last)
    BY <1>8, Bases, Backwards
  <2> QED
    BY <1>8, <2>1, <2>2, Bases, ValueBounds
<1>10. last # 0
  <2> SUFFICES ASSUME last = 0 PROVE FALSE
    OBVIOUS
  <2>1. value = ValueOf(Reverse(read1), Group) /\ read1 \in Digits(Group, 0)
    BY <1>8 DEF ValueAfter
  <2>2. ~GoesOn(bytes, 0)
    BY <1>5 DEF EndsAfter
  <2>3. ~(value < MaxU32)
    BY <2>2 DEF GoesOn
  <2> HIDE DEF read1, value
  <2>4. Reverse(read1) \in Digits(Group, 0)
    BY <2>1, Bases, Backwards
  <2>5. value < Power(Group, 0) /\ Power(Group, 0) = 1
    BY <2>1, <2>4, Bases, ValueBounds, PowerFacts
  <2> QED
    BY <1>9, <2>3, <2>5, SomeNumbers
<1>11. value \in 0 .. MaxU32 /\ last \in 1 .. Len(bytes)
  BY <1>5, <1>7, <1>9, <1>10, SomeNumbers
<1> HIDE DEF value
<1> QED
  BY <1>6, <1>7, <1>11

\* The bytes of a string, a key or an argument are read back behind their
\* length, whatever follows.
THEOREM BytesAreReadBack ==
  ASSUME NEW bytes \in Seq(Bytes), Len(bytes) <= MaxU32, NEW rest \in Seq(Bytes)
  PROVE  deserializeBytes(serializeBytes(bytes) \o rest) = Got(Leaf(bytes), rest)
<1> DEFINE n == Len(bytes)
           s == serializeU32AsUleb128(n)
           r == deserializeUleb128AsU32(s \o (bytes \o rest))
<1>1. n \in 0 .. MaxU32
  BY SomeNumbers
<1> HIDE DEF n
<1>2. s \in Seq(Bytes)
  <2>1. PICK m \in Nat : \E e : GroupsAre(n, e, m)
    BY <1>1, GroupsExist
  <2>2. PICK e : GroupsAre(n, e, m)
    BY <2>1
  <2> QED
    BY <1>1, <2>2, LoopReadsGroups
<1>3. bytes \o rest \in Seq(Bytes)
  OBVIOUS
<1>4. r = Got(Leaf(<<n>>), bytes \o rest)
  BY <1>1, <1>3, Uleb128IsReadBack
<1>5. serializeBytes(bytes) \o rest = s \o (bytes \o rest)
  <2>1. serializeBytes(bytes) = s \o bytes
    BY DEF serializeBytes, n
  <2> HIDE DEF s
  <2> QED
    BY <1>2, <2>1, ConcatAssociative
<1> HIDE DEF s
<1>6. deserializeBytes(s \o (bytes \o rest)) = IF r.ok THEN read(r.value.leaf[1], r.rest) ELSE Thrown
  BY DEF deserializeBytes, Then
<1> HIDE DEF r
<1> DEFINE leaf == <<n>>
           left == bytes \o rest
<1>7. r.ok /\ r.value.leaf = <<n>> /\ r.rest = bytes \o rest
  <2>1. r = Got(Leaf(leaf), left)
    BY <1>4
  <2> HIDE DEF leaf, left
  <2>2. r.ok /\ r.value.leaf = leaf /\ r.rest = left
    BY <2>1, GotFacts
  <2> QED
    BY <2>2 DEF leaf, left
<1>8. r.value.leaf[1] = n
  BY <1>7
<1>9. deserializeBytes(s \o (bytes \o rest)) = read(Len(bytes), bytes \o rest)
  BY <1>6, <1>7, <1>8 DEF n
<1> QED
  BY <1>5, <1>9, ReadsThePrefix
=============================================================================
