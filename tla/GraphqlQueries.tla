--------------------------- MODULE GraphqlQueries ---------------------------
(***************************************************************************)
(* The GraphQL documents of types/generated/queries.ts: the table a query  *)
(* reads, whether it asks for the rows or for their count, the fields it   *)
(* selects, the options it declares as variables and hands to the table,   *)
(* and its condition: a variable that must be given, one that may be       *)
(* left out, or columns the document itself compares.                      *)
(***************************************************************************)
EXTENDS IndexerSchema

(***************************************************************************)
(* The types of the answers, types/generated/operations.ts: the fields     *)
(* that a caller may read of each row, as paths.  Whether a field may be   *)
(* null is left out.  A count is the number itself.                        *)
(***************************************************************************)
Number == {}

CollectionRow == AllBut(CurrentCollectionsV2, {})
TokenDataRow ==
    AllBut(CurrentTokenDatasV2, {}) \cup Under("current_collection", CollectionRow)

TokenActivitiesFieldsFragment == AllBut(TokenActivitiesV2, {})
AnsTokenFragmentFragment ==
    AllBut(CurrentEndlessNames,
           {"domain_expiration_timestamp", "domain_with_suffix", "is_active",
            "last_transaction_version", "subdomain_expiration_policy", "token_name"})
CurrentTokenOwnershipFieldsFragment ==
    AllBut(CurrentTokenOwnershipsV2, {"non_transferrable_by_owner"})
    \cup Under("current_token_data", TokenDataRow)

GetAccountCoinsCountQuery == Number
GetAccountCollectionsWithOwnedTokensQuery ==
    AllBut(CurrentCollectionOwnershipV2View, {}) \cup Under("current_collection", CollectionRow)
GetAccountOwnedObjectsQuery == AllBut(CurrentObjects, {})
GetAccountOwnedTokensQuery == CurrentTokenOwnershipFieldsFragment
GetAccountOwnedTokensFromCollectionQuery == CurrentTokenOwnershipFieldsFragment
GetAccountTokensCountQuery == Number
GetAccountTransactionsCountQuery == Number
GetChainTopUserTransactionsQuery == Paths({"version"})
GetCollectionDataQuery == CollectionRow
GetCurrentFungibleAssetBalancesQuery == AllBut(CurrentFungibleAssetBalances, {})
GetDelegatedStakingActivitiesQuery == AllBut(DelegatedStakingActivities, {})
GetEventsQuery == AllBut(Events, {})
GetFungibleAssetActivitiesQuery == AllBut(FungibleAssetActivities, {})
GetFungibleAssetMetadataQuery == AllBut(FungibleAssetMetadata, {})
GetNamesQuery == AnsTokenFragmentFragment
GetNumberOfDelegatorsQuery == AllBut(NumActiveDelegatorPerPool, {})
GetProcessorStatusQuery == AllBut(ProcessorStatus, {"last_transaction_timestamp"})
GetTableItemsDataQuery == AllBut(TableItems, {})
GetTableItemsMetadataQuery == AllBut(TableMetadatas, {})
GetTokenActivityQuery == TokenActivitiesFieldsFragment
GetCurrentTokenOwnershipQuery == CurrentTokenOwnershipFieldsFragment
GetTokenDataQuery == TokenDataRow
-----------------------------------------------------------------------------

Required == [variable |-> TRUE, required |-> TRUE, compares |-> {}]
Optional == [variable |-> TRUE, required |-> FALSE, compares |-> {}]
Inline(columns) == [variable |-> FALSE, required |-> FALSE, compares |-> Paths(columns)]

Query(table, selects, declares, condition) ==
    [table |-> table, counts |-> FALSE, selects |-> selects, declares |-> declares,
     condition |-> condition, sorts |-> {}]

\* A query for <table>_aggregate { aggregate { count } }.
Count(table, declares, condition) ==
    [Query(table, {}, declares, condition) EXCEPT !.counts = TRUE]

None == {}
Limited == {"limit"}
Sorted == {"order_by"}
Page == {"offset", "limit"}
SortedPage == Page \cup Sorted
-----------------------------------------------------------------------------
TokenActivitiesFields == Paths(
    {"after_value", "before_value", "entry_function_id_str", "event_account_address",
     "event_index", "from_address", "is_fungible_v2", "property_version_v1", "to_address",
     "token_amount", "token_data_id", "token_standard", "transaction_timestamp",
     "transaction_version", "type"})

AnsTokenFragment == Paths(
    {"domain", "expiration_timestamp", "registered_address", "subdomain", "token_standard",
     "is_primary", "owner_address"})

\* What every document that shows a collection selects of it.
CollectionFields == Paths(
    {"collection_id", "collection_name", "creator_address", "current_supply", "description",
     "last_transaction_timestamp", "last_transaction_version", "max_supply",
     "mutable_description", "mutable_uri", "table_handle_v1", "token_standard",
     "total_minted_v2", "uri"})

TokenDataFields ==
    Paths({"collection_id", "description", "is_fungible_v2", "largest_property_version_v1",
           "last_transaction_timestamp", "last_transaction_version", "maximum", "supply",
           "token_data_id", "token_name", "token_properties", "token_standard", "token_uri",
           "decimals"})
    \cup Under("current_collection", CollectionFields)

CurrentTokenOwnershipFields ==
    Paths({"token_standard", "token_properties_mutated_v1", "token_data_id", "table_type_v1",
           "storage_id", "property_version_v1", "owner_address", "last_transaction_version",
           "last_transaction_timestamp", "is_soulbound_v2", "is_fungible_v2", "amount"})
    \cup Under("current_token_data", TokenDataFields)

BalanceFields == Paths(
    {"amount", "asset_type", "is_frozen", "is_primary", "last_transaction_timestamp",
     "last_transaction_version", "owner_address", "storage_id", "token_standard"})

MetadataFields == Paths(
    {"icon_uri", "project_uri", "supply_aggregator_table_handle_v1",
     "supply_aggregator_table_key_v1", "creator_address", "asset_type", "decimals",
     "last_transaction_timestamp", "last_transaction_version", "name", "symbol",
     "token_standard"})
-----------------------------------------------------------------------------
GetAccountCoinsCount ==
    Count("current_fungible_asset_balances", None, Inline({"owner_address"}))
GetAccountCoinsData ==
    Query("current_fungible_asset_balances",
          BalanceFields \cup Under("metadata", MetadataFields), SortedPage, Required)
GetAccountCollectionsWithOwnedTokens ==
    Query("current_collection_ownership_v2_view",
          Paths({"collection_id", "collection_name", "collection_uri", "creator_address",
                 "distinct_tokens", "last_transaction_version", "owner_address",
                 "single_token_uri"}) \cup Under("current_collection", CollectionFields),
          SortedPage, Required)
GetAccountOwnedObjects ==
    Query("current_objects",
          Paths({"allow_ungated_transfer", "state_key_hash", "owner_address", "object_address",
                 "last_transaction_version", "last_guid_creation_num", "is_deleted"}),
          SortedPage, Optional)
GetAccountOwnedTokens ==
    Query("current_token_ownerships_v2", CurrentTokenOwnershipFields, SortedPage, Required)
GetAccountOwnedTokensByTokenData ==
    Query("current_token_ownerships_v2", CurrentTokenOwnershipFields, SortedPage, Required)
GetAccountOwnedTokensFromCollection ==
    Query("current_token_ownerships_v2", CurrentTokenOwnershipFields, SortedPage, Required)
GetAccountTokensCount == Count("current_token_ownerships_v2", Page, Optional)
GetAccountTransactionsCount ==
    Count("account_transactions", None, Inline({"account_address"}))
GetChainTopUserTransactions ==
    [Query("user_transactions", Paths({"version"}), Limited, Inline({}))
         EXCEPT !.sorts = Paths({"version"})]
GetCollectionData == Query("current_collections_v2", CollectionFields, None, Required)
GetCurrentFungibleAssetBalances ==
    Query("current_fungible_asset_balances", BalanceFields, Page, Optional)
GetDelegatedStakingActivities ==
    Query("delegated_staking_activities",
          Paths({"amount", "delegator_address", "event_index", "event_type", "pool_address",
                 "transaction_version"}), None, Inline({"delegator_address", "pool_address"}))
GetEvents ==
    Query("events",
          Paths({"account_address", "creation_number", "data", "event_index",
                 "sequence_number", "transaction_block_height", "transaction_version", "type",
                 "indexed_type"}), SortedPage, Optional)
GetFungibleAssetActivities ==
    Query("fungible_asset_activities",
          Paths({"amount", "asset_type", "block_height", "entry_function_id_str",
                 "event_index", "gas_fee_payer_address", "is_frozen", "is_gas_fee",
                 "is_transaction_success", "owner_address", "storage_id",
                 "storage_refund_amount", "token_standard", "transaction_timestamp",
                 "transaction_version", "type"}), Page, Optional)
GetFungibleAssetMetadata == Query("fungible_asset_metadata", MetadataFields, Page, Optional)
GetNames == Query("current_endless_names", AnsTokenFragment, SortedPage, Optional)
GetNumberOfDelegators ==
    Query("num_active_delegator_per_pool", Paths({"num_active_delegator", "pool_address"}),
          Sorted, Optional)
GetProcessorStatus ==
    Query("processor_status", Paths({"last_success_version", "processor", "last_updated"}),
          None, Optional)
GetTableItemsData ==
    Query("table_items",
          Paths({"decoded_key", "decoded_value", "key", "table_handle",
                 "transaction_version", "write_set_change_index"}), SortedPage, Required)
GetTableItemsMetadata ==
    Query("table_metadatas", Paths({"handle", "key_type", "value_type"}), SortedPage, Required)
GetTokenActivity == Query("token_activities_v2", TokenActivitiesFields, SortedPage, Required)
GetCurrentTokenOwnership ==
    Query("current_token_ownerships_v2", CurrentTokenOwnershipFields, SortedPage, Required)
GetTokenData == Query("current_token_datas_v2", TokenDataFields, SortedPage, Optional)
=============================================================================
