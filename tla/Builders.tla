------------------------------ MODULE Builders ------------------------------
(***************************************************************************)
(* The façade's transaction builders: src/src/internal/digitalAsset.ts,    *)
(* coin.ts, endlessAccount.ts, fungibleAsset.ts and                        *)
(* transactionSubmission.ts.  Each names a Move function, the ABI it       *)
(* brings along and the arguments it makes of its own; an argument that it *)
(* hands on as it got it is converted by the ABI.                          *)
(***************************************************************************)
EXTENDS EntryFunctionArguments

(* A call of generateTransaction.  properties are those among its          *)
(* arguments, spells the types its type arguments spell, where the         *)
(* instance says so.                                                       *)
Call(builder, typeParameters, parameters, typeArguments, functionArguments) ==
  [builder |-> builder, kind |-> "entry", typeParameters |-> typeParameters,
   parameters |-> parameters, remote |-> <<>>, typeArguments |-> typeArguments,
   functionArguments |-> functionArguments, properties |-> <<>>, spells |-> <<>>]

(* AccountAddress.from, for an address that is one.                        *)
AccountAddressFrom(input) ==
  CASE input.tag = "AccountAddress" -> input
    [] input.tag = "Uint8Array" -> NewAccountAddress(input.leaf)
    [] input.tag = "string" -> NewAccountAddress(input.kids[3].leaf)

PropertyTypeMap ==
  [BOOLEAN |-> <<"bool">>, U8 |-> <<"u8">>, U16 |-> <<"u16">>, U32 |-> <<"u32">>,
   U64 |-> <<"u64">>, U128 |-> <<"u128">>, U256 |-> <<"u256">>, ADDRESS |-> <<"address">>,
   STRING |-> <<"String">>, ARRAY |-> <<"vector", "<", "u8", ">">>]

(* The tag parseTypeTag makes of such a text.                              *)
PropertyTag(type) ==
  IF type = "ARRAY" THEN TagVector(TagU8) ELSE Tag(PropertyTypeMap[type][1], <<>>)

PropertyTypeName(type) == NewMoveString([i \in DOMAIN PropertyTypeMap[type] |-> i])

(* A property is [key, type, value].                                       *)
getSinglePropertyValueRaw(property) ==
  LET res == checkOrConvertArgument(property.value, PropertyTag(property.type), <<>>)
  IN  IF res = Rejected THEN Rejected ELSE JsBytes(bcsToBytes(res))

getPropertyValueRaw(properties) ==
  JsArray([i \in DOMAIN properties |-> getSinglePropertyValueRaw(properties[i])])

KeyList(properties) ==
  MoveVectorMoveString([i \in DOMAIN properties |-> properties[i].key])
TypeList(properties) ==
  Node("MoveVector", [i \in DOMAIN properties |-> PropertyTypeName(properties[i].type)])

WithProperties(call, properties) == [call EXCEPT !.properties = properties]

Token == objectStructTag(TagGeneric(0))
Asset == Tag("Object", <<>>)
Repeat(n, tag) == [i \in 1..n |-> tag]

-----------------------------------------------------------------------------
(* Digital assets.                                                         *)

createCollectionAbi ==
  <<stringStructTag, TagU64, stringStructTag, stringStructTag>> \o Repeat(9, TagBool)
    \o <<TagU64, TagU64>>

createCollectionTransaction(description, maxSupply, name, uri, flags, numerator, denominator) ==
  Call("createCollection", 0, createCollectionAbi, <<>>,
    <<NewMoveString(description.leaf), NewUint("U64", maxSupply.leaf),
      NewMoveString(name.leaf), NewMoveString(uri.leaf)>>
      \o [i \in 1..9 |-> NewBool(flags[i])]
      \o <<NewUint("U64", numerator.leaf), NewUint("U64", denominator.leaf)>>)

mintDigitalAssetAbi ==
  Repeat(4, stringStructTag)
    \o <<TagVector(stringStructTag), TagVector(stringStructTag), TagVector(TagVector(TagU8))>>

mintDigitalAssetTransaction(collection, description, name, uri, properties) ==
  WithProperties(
    Call("mintDigitalAsset", 0, mintDigitalAssetAbi, <<>>,
      <<NewMoveString(collection.leaf), NewMoveString(description.leaf),
        NewMoveString(name.leaf), NewMoveString(uri.leaf),
        KeyList(properties), TypeList(properties), getPropertyValueRaw(properties)>>),
    properties)

(* Mutant: the recipient is missing from the ABI.                          *)
mintSoulBoundAbi_NoRecipient == mintDigitalAssetAbi

mintSoulBoundAbi == mintDigitalAssetAbi \o <<TagAddress>>

mintSoulBoundTransaction(collection, description, name, uri, recipient, properties) ==
  WithProperties(
    Call("mintSoulBound", 0, mintSoulBoundAbi, <<>>,
      <<collection, description, name, uri, KeyList(properties), TypeList(properties),
        getPropertyValueRaw(properties), recipient>>),
    properties)

transferDigitalAssetTransaction(asset, recipient, assetType) ==
  Call("transferDigitalAsset", 1, <<Token, TagAddress>>, <<assetType>>,
    <<AccountAddressFrom(asset), AccountAddressFrom(recipient)>>)

burnDigitalAssetTransaction(asset, assetType) ==
  Call("burnDigitalAsset", 1, <<Token>>, <<assetType>>, <<AccountAddressFrom(asset)>>)

freezeDigitalAssetTransferTransaction(asset, assetType) ==
  Call("freezeDigitalAsset", 1, <<Token>>, <<assetType>>, <<asset>>)

unfreezeDigitalAssetTransferTransaction(asset, assetType) ==
  Call("unfreezeDigitalAsset", 1, <<Token>>, <<assetType>>, <<asset>>)

setDigitalAssetDescriptionTransaction(asset, description, assetType) ==
  Call("setDescription", 1, <<Token, stringStructTag>>, <<assetType>>,
    <<AccountAddressFrom(asset), NewMoveString(description.leaf)>>)

setDigitalAssetNameTransaction(asset, name, assetType) ==
  Call("setName", 1, <<Token, stringStructTag>>, <<assetType>>,
    <<AccountAddressFrom(asset), NewMoveString(name.leaf)>>)

setDigitalAssetURITransaction(asset, uri, assetType) ==
  Call("setURI", 1, <<Token, stringStructTag>>, <<assetType>>,
    <<AccountAddressFrom(asset), NewMoveString(uri.leaf)>>)

PropertyAbi == <<Token, stringStructTag, stringStructTag, TagVector(TagU8)>>

(* The value's bytes as a MoveVector; the update hands them on as bytes.   *)
addDigitalAssetPropertyTransaction(asset, property, assetType) ==
  LET raw == getSinglePropertyValueRaw(property)
  IN  WithProperties(
        Call("addProperty", 1, PropertyAbi, <<assetType>>,
          <<AccountAddressFrom(asset), NewMoveString(property.key.leaf),
            PropertyTypeName(property.type),
            IF raw = Rejected THEN Rejected ELSE MoveVectorU8(raw.leaf)>>),
        <<property>>)

updateDigitalAssetPropertyTransaction(asset, property, assetType) ==
  WithProperties(
    Call("updateProperty", 1, PropertyAbi, <<assetType>>,
      <<AccountAddressFrom(asset), NewMoveString(property.key.leaf),
        PropertyTypeName(property.type), getSinglePropertyValueRaw(property)>>),
    <<property>>)

removeDigitalAssetPropertyTransaction(asset, key, assetType) ==
  Call("removeProperty", 1, <<Token, stringStructTag>>, <<assetType>>,
    <<AccountAddressFrom(asset), NewMoveString(key.leaf)>>)

(* The type of the value is the second type argument.                      *)
TypedPropertyAbi == <<Token, stringStructTag, TagGeneric(1)>>

addDigitalAssetTypedPropertyTransaction(asset, property, assetType) ==
  Call("addTypedProperty", 2, TypedPropertyAbi, <<assetType, PropertyTypeMap[property.type]>>,
    <<AccountAddressFrom(asset), NewMoveString(property.key.leaf), property.value>>)

updateDigitalAssetTypedPropertyTransaction(asset, property, assetType) ==
  Call("updateTypedProperty", 2, TypedPropertyAbi, <<assetType, PropertyTypeMap[property.type]>>,
    <<AccountAddressFrom(asset), NewMoveString(property.key.leaf), property.value>>)

-----------------------------------------------------------------------------
(* Coins, packages, keys.                                                  *)

Metadata == <<"S">>

(* Transaction.fundAccount: without an address, or with an empty one, the  *)
(* signer funds itself.                                                    *)
fundAccount(signer, address) ==
  Call("fundAccount", 0, <<TagAddress>>, <<>>,
    <<IF address = JsUndefined \/ (address.tag = "string" /\ address.leaf = <<>>)
        THEN signer ELSE address>>)

transferEDS(recipient, amount) ==
  Call("transferEDS", 0, <<TagAddress, TagU128>>, <<>>, <<recipient, amount>>)

transferCoin(metadata, recipient, amount) ==
  Call("transferCoin", 1, <<TagAddress, TagU128, Asset>>, <<Metadata>>,
    <<recipient, amount, metadata>>)

transferCoinTransaction(metadata, recipient, amount) ==
  Call("transferCoinTransaction", 1, <<TagAddress, TagU128, Asset>>, <<Metadata>>,
    <<recipient, amount, metadata>>)

transferFungibleAsset(metadata, recipient, amount) ==
  Call("transferFungibleAsset", 1, <<Asset, TagAddress, TagU128>>, <<Metadata>>,
    <<metadata, recipient, amount>>)

publicPackageTransaction(metadataBytes, moduleBytecode) ==
  Call("publishPackage", 0, <<TagVector(TagU8), TagVector(TagVector(TagU8))>>, <<>>,
    <<MoveVectorU8(metadataBytes),
      Node("MoveVector", [i \in DOMAIN moduleBytecode |-> MoveVectorU8(moduleBytecode[i])])>>)

rotateAuthKeyAbi ==
  <<TagU8, TagVector(TagU8), TagU8, TagVector(TagU8), TagVector(TagU8), TagVector(TagU8)>>

(* The schemes are those of the two accounts, 0 for Ed25519.               *)
rotateAuthKeyCall(fromScheme, fromKey, toKey, oldSignature, newSignature) ==
  Call("rotateAuthKey", 0, rotateAuthKeyAbi, <<>>,
    <<NewUint("U8", <<fromScheme>>), MoveVectorU8(fromKey), NewUint("U8", <<0>>),
      MoveVectorU8(toKey), MoveVectorU8(oldSignature), MoveVectorU8(newSignature)>>)
=============================================================================
