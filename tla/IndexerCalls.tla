----------------------------- MODULE IndexerCalls ----------------------------
(***************************************************************************)
(* The reads of internal/*.ts that ask the indexer.  A call is             *)
(*   table     the table its query or path reads,                          *)
(*   sends     the caller's options it passes on,                          *)
(*   accepted  whether the indexer takes the query: it declares every      *)
(*             option it is sent, and its fields and the columns its       *)
(*             condition compares are in the schema,                       *)
(*   needsWhere  whether it is refused without a condition of the caller's,*)
(*   unsorted  the names its type offers for an order that the schema does *)
(*             not sort by,                                                *)
(*   typed     whether its type promises only fields the query selects,    *)
(*   newestFirst  whether the query itself sorts the rows,                 *)
(*   address   how the address of its condition is written: "long" when    *)
(*             it went through toStringLong, "given" when it is the        *)
(*             caller's text, "path" when a REST path or body carries it,  *)
(*             "none" when the condition holds none,                       *)
(*   takes     what is returned of the rows: all of them, the first (or    *)
(*             undefined), a field of the first (a TypeError without one), *)
(*             the first or zero, or the count.                            *)
(***************************************************************************)
EXTENDS GraphqlQueries

\* A condition of the caller's own, options.where.
FromCaller == {"where"}

\* queryIndexer<type>: the query and its variables are posted to the indexer.
queryIndexer(query, type, condition, address, sends, takes) ==
    [table |-> query.table, sends |-> sends, address |-> address, takes |-> takes,
     accepted |->
        /\ sends \ FromCaller \subseteq query.declares
        /\ query.declares \subseteq QueryRoot[query.table].arguments.names
        /\ sends \cap FromCaller # {} \/ condition # {} => query.condition.variable
        /\ query.counts => query.table \in Aggregated
        /\ AreIn(query.selects, Row, query.table)
        /\ AreIn(condition \cup query.condition.compares, Where, query.table)
        /\ AreIn(query.sorts, OrderBy, query.table),
     needsWhere |-> query.condition.required /\ condition = {},
     unsorted |-> {path[1] : path \in {p \in type : Len(p) > 1 \/ ~AreIn({p}, OrderBy, query.table)}},
     typed |-> type \subseteq query.selects,
     newestFirst |-> query.sorts # {}]

\* getEndlessIndexer and postEndlessIndexer: a REST path of the indexer's service.
Rest(table, address, sends, takes) ==
    [table |-> table, sends |-> sends, address |-> address, takes |-> takes, accepted |-> TRUE,
     needsWhere |-> FALSE, unsorted |-> {}, typed |-> TRUE, newestFirst |-> FALSE]

\* A read that calls another one and hands it only some of its options.
Through(call, options) == [call EXCEPT !.sends = @ \cap options, !.needsWhere = FALSE]

NoColumn == {}
Owner == {<<"owner_address">>}
OwnedBy == Paths({"owner_address", "amount"})
Standard == {<<"token_standard">>}
-----------------------------------------------------------------------------
(* internal/account.ts *)
getAccountTokensCount ==
    queryIndexer(GetAccountTokensCount, GetAccountTokensCountQuery, OwnedBy, "long", None, "count")
getAccountOwnedTokens ==
    queryIndexer(GetAccountOwnedTokens, GetAccountOwnedTokensQuery, OwnedBy \cup Standard, "long",
                 SortedPage, "all")

\* Mutant: the collection is compared on the ownership itself.
getAccountOwnedTokensFromCollectionAddress_Flat ==
    queryIndexer(GetAccountOwnedTokensFromCollection, GetAccountOwnedTokensFromCollectionQuery,
                 OwnedBy \cup Standard \cup Paths({"collection_id"}), "long", SortedPage, "all")

getAccountOwnedTokensFromCollectionAddress ==
    queryIndexer(GetAccountOwnedTokensFromCollection, GetAccountOwnedTokensFromCollectionQuery,
                 OwnedBy \cup Standard \cup Under("current_token_data", Paths({"collection_id"})),
                 "long", SortedPage, "all")
getAccountCollectionsWithOwnedTokens ==
    queryIndexer(GetAccountCollectionsWithOwnedTokens, GetAccountCollectionsWithOwnedTokensQuery,
                 OwnedBy \cup Under("current_collection", Standard), "long", SortedPage, "all")
getAccountTransactionsCount ==
    queryIndexer(GetAccountTransactionsCount, GetAccountTransactionsCountQuery, NoColumn, "long",
                 None, "count")
getCoinsDataCreatedBy ==
    Rest("current_fungible_asset_balances", "long", FromCaller, "all")
getAccountCoinsData == Rest("current_fungible_asset_balances", "long", FromCaller, "all")
getAccountCoinAmount == [Through(getAccountCoinsData, None) EXCEPT !.takes = "fieldOfFirst"]
getAccountCoinsCount ==
    queryIndexer(GetAccountCoinsCount, GetAccountCoinsCountQuery, NoColumn, "long", None, "count")
getAccountOwnedObjects ==
    queryIndexer(GetAccountOwnedObjects, GetAccountOwnedObjectsQuery, Owner, "long", SortedPage,
                 "all")
getAccountsCoinBalance == Rest("current_fungible_asset_balances", "path", None, "all")

(* internal/coin.ts *)
getCoinData == Rest("fungible_asset_metadata", "path", None, "first")
getCoinListDataById == Rest("fungible_asset_metadata", "path", None, "all")

(* internal/digitalAsset.ts *)
getDigitalAssetData ==
    queryIndexer(GetTokenData, GetTokenDataQuery, Paths({"token_data_id"}), "long", None, "first")
getCurrentDigitalAssetOwnership ==
    queryIndexer(GetCurrentTokenOwnership, GetCurrentTokenOwnershipQuery,
                 Paths({"token_data_id", "amount"}), "long", None, "first")

getOwnedDigitalAssets ==
    queryIndexer(GetCurrentTokenOwnership, GetCurrentTokenOwnershipQuery, OwnedBy, "long",
                 SortedPage, "all")
getDigitalAssetActivity ==
    queryIndexer(GetTokenActivity, GetTokenActivityQuery, Paths({"token_data_id"}), "long",
                 SortedPage, "all")
getCollectionData ==
    queryIndexer(GetCollectionData, GetCollectionDataQuery,
                 Paths({"collection_name", "creator_address"}) \cup Standard, "long", None, "first")
getCollectionDataByCollectionId ==
    queryIndexer(GetCollectionData, GetCollectionDataQuery, Paths({"collection_id"}), "long", None,
                 "first")
getCollectionId == [getCollectionData EXCEPT !.takes = "fieldOfFirst"]

\* internal/event.ts: the three wrappers put the caller's options under
\* `pagination`, where getEvents does not look; only orderBy is passed on.
getEvents == queryIndexer(GetEvents, GetEventsQuery, NoColumn, "none", SortedPage \cup FromCaller, "all")
EventsWhere(columns, address) ==
    Through(queryIndexer(GetEvents, GetEventsQuery, Paths(columns), address, SortedPage, "all"), Sorted)
getModuleEventsByEventType ==
    EventsWhere({"account_address", "creation_number", "sequence_number", "indexed_type"}, "none")
getAccountEventsByCreationNumber == EventsWhere({"account_address", "creation_number"}, "long")
getAccountEventsByEventType == EventsWhere({"account_address", "indexed_type"}, "long")

(* internal/fungibleAsset.ts *)
getFungibleAssetMetadata ==
    queryIndexer(GetFungibleAssetMetadata, GetFungibleAssetMetadataQuery, NoColumn, "none",
                 Page \cup FromCaller, "all")
getFungibleAssetActivities ==
    queryIndexer(GetFungibleAssetActivities, GetFungibleAssetActivitiesQuery, NoColumn, "none",
                 Page \cup FromCaller, "all")
getCurrentFungibleAssetBalances ==
    queryIndexer(GetCurrentFungibleAssetBalances, GetCurrentFungibleAssetBalancesQuery, NoColumn,
                 "none", Page \cup FromCaller, "all")

(* internal/staking.ts *)
getNumberOfDelegators ==
    queryIndexer(GetNumberOfDelegators, GetNumberOfDelegatorsQuery, Paths({"pool_address"}), "long",
                 None, "firstOrZero")
getNumberOfDelegatorsForAllPools ==
    queryIndexer(GetNumberOfDelegators, GetNumberOfDelegatorsQuery, NoColumn, "none", Sorted, "all")
getDelegatedStakingActivities ==
    queryIndexer(GetDelegatedStakingActivities, GetDelegatedStakingActivitiesQuery, NoColumn,
                 "long", None, "all")

(* internal/table.ts, internal/general.ts *)
getTableItemsData ==
    queryIndexer(GetTableItemsData, GetTableItemsDataQuery, NoColumn, "none",
                 SortedPage \cup FromCaller, "all")
getTableItemsMetadata ==
    queryIndexer(GetTableItemsMetadata, GetTableItemsMetadataQuery, NoColumn, "none",
                 SortedPage \cup FromCaller, "all")
getChainTopUserTransactions ==
    queryIndexer(GetChainTopUserTransactions, GetChainTopUserTransactionsQuery, NoColumn, "none",
                 Limited, "all")
getProcessorStatuses ==
    queryIndexer(GetProcessorStatus, GetProcessorStatusQuery, NoColumn, "none", None, "all")
getIndexerLastSuccessVersion == [getProcessorStatuses EXCEPT !.takes = "fieldOfFirst"]
getProcessorStatus ==
    queryIndexer(GetProcessorStatus, GetProcessorStatusQuery, Paths({"processor"}), "none", None,
                 "first")

\* internal/ans.ts: what the call compares itself takes the place of the same
\* column in the caller's condition.
NamesWhere(columns, address) ==
    queryIndexer(GetNames, GetNamesQuery, Paths(columns), address, SortedPage \cup FromCaller, "all")
getName ==
    queryIndexer(GetNames, GetNamesQuery, Paths({"domain", "subdomain", "is_active"}), "none", None,
                 "first")
getAccountNames == NamesWhere({"owner_address", "expiration_timestamp"}, "given")
getAccountDomains == NamesWhere({"owner_address", "expiration_timestamp", "subdomain"}, "given")
getAccountSubdomains == NamesWhere({"owner_address", "expiration_timestamp", "subdomain"}, "given")
getDomainSubdomains == NamesWhere({"domain", "subdomain", "is_active"}, "none")
=============================================================================
