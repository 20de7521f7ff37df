----------------------------- MODULE IndexerSchema ---------------------------
(***************************************************************************)
(* The schema of the indexer, as types/generated/types.ts records it: for  *)
(* each table the SDK reads, its columns, its relations to one row of      *)
(* another table (with that table) and to many rows, what may be filtered  *)
(* (XBoolExp) and sorted (XOrderBy), and the arguments of its field of     *)
(* QueryRoot.  A condition may follow every relation; an order follows     *)
(* those to one row.  The columns' scalar types, the comparisons they      *)
(* allow, and the aggregates over relations are left out.                  *)
(*                                                                         *)
(* A path is the tuple of the relations followed and, last, a column.      *)
(***************************************************************************)
EXTENDS TLC, Naturals, Sequences

Table(columns, relations, lists) ==
    [columns |-> columns, relations |-> relations, lists |-> lists]

Filterable(table) == table
Sortable(table) == [table EXCEPT !.lists = {}]
Arguments(where, orderBy) ==
    [where |-> where, order_by |-> orderBy,
     names |-> {"distinct_on", "limit", "offset", "order_by", "where"}]
-----------------------------------------------------------------------------
CurrentFungibleAssetBalances == Table(
    {"amount", "asset_type", "is_frozen", "is_primary", "last_transaction_timestamp",
     "last_transaction_version", "owner_address", "storage_id", "token_standard"},
    "metadata" :> "fungible_asset_metadata", {})
CurrentFungibleAssetBalancesBoolExp ==
    [Filterable(CurrentFungibleAssetBalances) EXCEPT !.columns = @ \cup {"coin_id"}]
CurrentFungibleAssetBalancesOrderBy == Sortable(CurrentFungibleAssetBalances)
QueryRootCurrentFungibleAssetBalancesArgs ==
    Arguments(CurrentFungibleAssetBalancesBoolExp, CurrentFungibleAssetBalancesOrderBy)

CurrentCollectionOwnershipV2View == Table(
    {"collection_id", "collection_name", "collection_uri", "creator_address",
     "distinct_tokens", "last_transaction_version", "owner_address", "single_token_uri"},
    "current_collection" :> "current_collections_v2", {})
CurrentCollectionOwnershipV2ViewBoolExp == Filterable(CurrentCollectionOwnershipV2View)
CurrentCollectionOwnershipV2ViewOrderBy == Sortable(CurrentCollectionOwnershipV2View)
QueryRootCurrentCollectionOwnershipV2ViewArgs ==
    Arguments(CurrentCollectionOwnershipV2ViewBoolExp, CurrentCollectionOwnershipV2ViewOrderBy)

CurrentObjects == Table(
    {"allow_ungated_transfer", "is_deleted", "last_guid_creation_num",
     "last_transaction_version", "object_address", "owner_address", "state_key_hash"},
    <<>>, {})
CurrentObjectsBoolExp == Filterable(CurrentObjects)
CurrentObjectsOrderBy == Sortable(CurrentObjects)
QueryRootCurrentObjectsArgs == Arguments(CurrentObjectsBoolExp, CurrentObjectsOrderBy)

CurrentTokenOwnershipsV2 == Table(
    {"amount", "is_fungible_v2", "is_soulbound_v2", "last_transaction_timestamp",
     "last_transaction_version", "non_transferrable_by_owner", "owner_address",
     "property_version_v1", "storage_id", "table_type_v1", "token_data_id",
     "token_properties_mutated_v1", "token_standard"},
    "current_token_data" :> "current_token_datas_v2", {"composed_nfts"})
CurrentTokenOwnershipsV2BoolExp == Filterable(CurrentTokenOwnershipsV2)
CurrentTokenOwnershipsV2OrderBy == Sortable(CurrentTokenOwnershipsV2)
QueryRootCurrentTokenOwnershipsV2Args ==
    Arguments(CurrentTokenOwnershipsV2BoolExp, CurrentTokenOwnershipsV2OrderBy)

AccountTransactions == Table(
    {"account_address", "transaction_version"},
    "user_transaction" :> "user_transactions",
    {"coin_activities", "delegated_staking_activities", "fungible_asset_activities",
     "token_activities", "token_activities_v2"})
AccountTransactionsBoolExp == Filterable(AccountTransactions)
AccountTransactionsOrderBy == Sortable(AccountTransactions)
QueryRootAccountTransactionsArgs ==
    Arguments(AccountTransactionsBoolExp, AccountTransactionsOrderBy)

UserTransactions == Table(
    {"block_height", "entry_function_id_str", "epoch", "expiration_timestamp_secs",
     "gas_unit_price", "max_gas_amount", "parent_signature_type", "sender",
     "sequence_number", "timestamp", "version"},
    <<>>, {})
UserTransactionsBoolExp == Filterable(UserTransactions)
UserTransactionsOrderBy == Sortable(UserTransactions)
QueryRootUserTransactionsArgs == Arguments(UserTransactionsBoolExp, UserTransactionsOrderBy)

CurrentCollectionsV2 == Table(
    {"collection_id", "collection_name", "creator_address", "current_supply", "description",
     "last_transaction_timestamp", "last_transaction_version", "max_supply",
     "mutable_description", "mutable_uri", "table_handle_v1", "token_standard",
     "total_minted_v2", "uri"},
    "cdn_asset_uris" :> "nft_metadata_crawler_parsed_asset_uris", {})
CurrentCollectionsV2BoolExp == Filterable(CurrentCollectionsV2)
CurrentCollectionsV2OrderBy == Sortable(CurrentCollectionsV2)
QueryRootCurrentCollectionsV2Args ==
    Arguments(CurrentCollectionsV2BoolExp, CurrentCollectionsV2OrderBy)

DelegatedStakingActivities == Table(
    {"amount", "delegator_address", "event_index", "event_type", "pool_address",
     "transaction_version"},
    <<>>, {})
DelegatedStakingActivitiesBoolExp == Filterable(DelegatedStakingActivities)
DelegatedStakingActivitiesOrderBy == Sortable(DelegatedStakingActivities)
QueryRootDelegatedStakingActivitiesArgs ==
    Arguments(DelegatedStakingActivitiesBoolExp, DelegatedStakingActivitiesOrderBy)

Events == Table(
    {"account_address", "creation_number", "data", "event_index", "indexed_type",
     "sequence_number", "transaction_block_height", "transaction_version", "type"},
    <<>>, {})
EventsBoolExp == Filterable(Events)
EventsOrderBy == Sortable(Events)
QueryRootEventsArgs == Arguments(EventsBoolExp, EventsOrderBy)

FungibleAssetActivities == Table(
    {"amount", "asset_type", "block_height", "entry_function_id_str", "event_index",
     "gas_fee_payer_address", "is_frozen", "is_gas_fee", "is_transaction_success",
     "owner_address", "storage_id", "storage_refund_amount", "token_standard",
     "transaction_timestamp", "transaction_version", "type"},
    "metadata" :> "fungible_asset_metadata", {"owner_endless_names"})
FungibleAssetActivitiesBoolExp == Filterable(FungibleAssetActivities)
FungibleAssetActivitiesOrderBy == Sortable(FungibleAssetActivities)
QueryRootFungibleAssetActivitiesArgs ==
    Arguments(FungibleAssetActivitiesBoolExp, FungibleAssetActivitiesOrderBy)

FungibleAssetMetadata == Table(
    {"asset_type", "creator_address", "decimals", "icon_uri", "last_transaction_timestamp",
     "last_transaction_version", "name", "project_uri", "supply_aggregator_table_handle_v1",
     "supply_aggregator_table_key_v1", "symbol", "token_standard"},
    <<>>, {})
FungibleAssetMetadataBoolExp == Filterable(FungibleAssetMetadata)
FungibleAssetMetadataOrderBy == Sortable(FungibleAssetMetadata)
QueryRootFungibleAssetMetadataArgs ==
    Arguments(FungibleAssetMetadataBoolExp, FungibleAssetMetadataOrderBy)

CurrentEndlessNames == Table(
    {"domain", "domain_expiration_timestamp", "domain_with_suffix", "expiration_timestamp",
     "is_active", "is_primary", "last_transaction_version", "owner_address",
     "registered_address", "subdomain", "subdomain_expiration_policy", "token_name",
     "token_standard"},
    "is_domain_owner" :> "current_endless_names", {})
CurrentEndlessNamesBoolExp == Filterable(CurrentEndlessNames)
CurrentEndlessNamesOrderBy == Sortable(CurrentEndlessNames)
QueryRootCurrentEndlessNamesArgs ==
    Arguments(CurrentEndlessNamesBoolExp, CurrentEndlessNamesOrderBy)

NumActiveDelegatorPerPool == Table(
    {"num_active_delegator", "pool_address"},
    <<>>, {})
NumActiveDelegatorPerPoolBoolExp == Filterable(NumActiveDelegatorPerPool)
NumActiveDelegatorPerPoolOrderBy == Sortable(NumActiveDelegatorPerPool)
QueryRootNumActiveDelegatorPerPoolArgs ==
    Arguments(NumActiveDelegatorPerPoolBoolExp, NumActiveDelegatorPerPoolOrderBy)

TableItems == Table(
    {"decoded_key", "decoded_value", "key", "table_handle", "transaction_version",
     "write_set_change_index"},
    <<>>, {})
TableItemsBoolExp == Filterable(TableItems)
TableItemsOrderBy == Sortable(TableItems)
QueryRootTableItemsArgs == Arguments(TableItemsBoolExp, TableItemsOrderBy)

TableMetadatas == Table(
    {"handle", "key_type", "value_type"},
    <<>>, {})
TableMetadatasBoolExp == Filterable(TableMetadatas)
TableMetadatasOrderBy == Sortable(TableMetadatas)
QueryRootTableMetadatasArgs == Arguments(TableMetadatasBoolExp, TableMetadatasOrderBy)

TokenActivitiesV2 == Table(
    {"after_value", "before_value", "entry_function_id_str", "event_account_address",
     "event_index", "from_address", "is_fungible_v2", "property_version_v1", "to_address",
     "token_amount", "token_data_id", "token_standard", "transaction_timestamp",
     "transaction_version", "type"},
    "current_token_data" :> "current_token_datas_v2", {"endless_names_from", "endless_names_to"})
TokenActivitiesV2BoolExp == Filterable(TokenActivitiesV2)
TokenActivitiesV2OrderBy == Sortable(TokenActivitiesV2)
QueryRootTokenActivitiesV2Args == Arguments(TokenActivitiesV2BoolExp, TokenActivitiesV2OrderBy)

CurrentTokenDatasV2 == Table(
    {"collection_id", "decimals", "description", "is_fungible_v2",
     "largest_property_version_v1", "last_transaction_timestamp",
     "last_transaction_version", "maximum", "supply", "token_data_id", "token_name",
     "token_properties", "token_standard", "token_uri"},
    "endless_name" :> "current_endless_names"
    @@ "cdn_asset_uris" :> "nft_metadata_crawler_parsed_asset_uris"
    @@ "current_collection" :> "current_collections_v2",
    {"current_token_ownerships"})
CurrentTokenDatasV2BoolExp == Filterable(CurrentTokenDatasV2)
CurrentTokenDatasV2OrderBy == Sortable(CurrentTokenDatasV2)
QueryRootCurrentTokenDatasV2Args ==
    Arguments(CurrentTokenDatasV2BoolExp, CurrentTokenDatasV2OrderBy)

ProcessorStatus == Table(
    {"last_success_version", "last_transaction_timestamp", "last_updated", "processor"},
    <<>>, {})
ProcessorStatusBoolExp == Filterable(ProcessorStatus)
ProcessorStatusOrderBy == Sortable(ProcessorStatus)
QueryRootProcessorStatusArgs == Arguments(ProcessorStatusBoolExp, ProcessorStatusOrderBy)
Root(row, arguments) == [row |-> row, arguments |-> arguments]

QueryRoot ==
    "current_fungible_asset_balances" :>
        Root(CurrentFungibleAssetBalances, QueryRootCurrentFungibleAssetBalancesArgs) @@
    "current_collection_ownership_v2_view" :>
        Root(CurrentCollectionOwnershipV2View, QueryRootCurrentCollectionOwnershipV2ViewArgs) @@
    "current_objects" :> Root(CurrentObjects, QueryRootCurrentObjectsArgs) @@
    "current_token_ownerships_v2" :>
        Root(CurrentTokenOwnershipsV2, QueryRootCurrentTokenOwnershipsV2Args) @@
    "account_transactions" :> Root(AccountTransactions, QueryRootAccountTransactionsArgs) @@
    "user_transactions" :> Root(UserTransactions, QueryRootUserTransactionsArgs) @@
    "current_collections_v2" :> Root(CurrentCollectionsV2, QueryRootCurrentCollectionsV2Args) @@
    "delegated_staking_activities" :>
        Root(DelegatedStakingActivities, QueryRootDelegatedStakingActivitiesArgs) @@
    "events" :> Root(Events, QueryRootEventsArgs) @@
    "fungible_asset_activities" :>
        Root(FungibleAssetActivities, QueryRootFungibleAssetActivitiesArgs) @@
    "fungible_asset_metadata" :>
        Root(FungibleAssetMetadata, QueryRootFungibleAssetMetadataArgs) @@
    "current_endless_names" :> Root(CurrentEndlessNames, QueryRootCurrentEndlessNamesArgs) @@
    "num_active_delegator_per_pool" :>
        Root(NumActiveDelegatorPerPool, QueryRootNumActiveDelegatorPerPoolArgs) @@
    "table_items" :> Root(TableItems, QueryRootTableItemsArgs) @@
    "table_metadatas" :> Root(TableMetadatas, QueryRootTableMetadatasArgs) @@
    "token_activities_v2" :> Root(TokenActivitiesV2, QueryRootTokenActivitiesV2Args) @@
    "current_token_datas_v2" :> Root(CurrentTokenDatasV2, QueryRootCurrentTokenDatasV2Args) @@
    "processor_status" :> Root(ProcessorStatus, QueryRootProcessorStatusArgs)

\* The tables with an aggregate field, <table>_aggregate.
Aggregated ==
    {"current_fungible_asset_balances", "current_collection_ownership_v2_view",
     "current_token_ownerships_v2", "account_transactions", "current_endless_names",
     "token_activities_v2"}
-----------------------------------------------------------------------------
Paths(columns) == {<<column>> : column \in columns}
Under(relation, paths) == {<<relation>> \o path : path \in paths}

\* The columns of a table, but for some: a selection or a type that lists them all.
AllBut(table, columns) == Paths(table.columns \ columns)

Row(table) == QueryRoot[table].row
Where(table) == QueryRoot[table].arguments.where
OrderBy(table) == QueryRoot[table].arguments.order_by

\* The table a path has reached before its last name, if its relations lead there.
Reached(Part(_), table, path) ==
    LET at[i \in 1 .. Len(path)] ==
            IF i = 1 THEN table
            ELSE IF at[i - 1] \in DOMAIN QueryRoot
                    /\ path[i - 1] \in DOMAIN Part(at[i - 1]).relations
                 THEN Part(at[i - 1]).relations[path[i - 1]]
                 ELSE "no table"
    IN  at[Len(path)]

\* Every path ends in a column of the table it leads to.
AreIn(paths, Part(_), table) ==
    \A path \in paths :
        LET at == Reached(Part, table, path)
        IN  at \in DOMAIN QueryRoot /\ path[Len(path)] \in Part(at).columns
=============================================================================
