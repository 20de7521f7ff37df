---------------------------- MODULE MCTypedCalls ----------------------------
(***************************************************************************)
(* The calls of the instance: every builder with every form its arguments  *)
(* may have, every pairing of a parameter type with a caller's value, and  *)
(* every text of type tokens up to a length.  A behaviour is of one call   *)
(* or object, or of an application that makes keys (KeyDerivation).        *)
(***************************************************************************)
EXTENDS TypedCalls, WireFormats, KeyDerivation, FiniteSetsExt

(***************************************************************************)
(* The objects of the instance: for each class, values in which every part *)
(* takes each of its samples at least once and two neighbours of the same  *)
(* type differ, so that an exchange of two parts shows.                    *)
(***************************************************************************)
CONSTANTS
  StringLengths,   \* the lengths of the sample strings
  MaxDepth         \* the nesting of type tags

(* The same sequence; TLC then keeps its elements instead of their         *)
(* definition.                                                             *)
Kept(s) == s \o <<>>

At(s, i) == s[1 + (i % Len(s))]

Strings ==
  Kept([i \in 1..Len(StringLengths) |-> Leaf(Kept([j \in 1..StringLengths[i] |-> (i + j) % Base]))])

Runs(n) ==
  Kept([i \in 1..3 |-> Leaf(Kept([j \in 1..n |-> IF i = 1 THEN 0 ELSE (i * j) % Base]))])

RECURSIVE Samples(_, _)

(* The values of a node: the i-th takes the (i + j)-th sample of part j.   *)
Diagonal(leaf, parts, depth) ==
  LET values == SelectSeq(parts, LAMBDA p : ~IsMark(p))
      of     == Kept([j \in DOMAIN values |-> Kept(Samples(values[j], depth))])
      many   == Max({1} \cup {Len(of[j]) : j \in DOMAIN of})
  IN  Kept([i \in 1..many |-> [tag |-> "", leaf |-> leaf,
                               kids |-> Kept([j \in DOMAIN of |-> At(of[j], i + j)])]])

Lists(s, most) ==
  <<Node("", <<>>)>> \o [i \in DOMAIN s |-> Node("", <<s[i]>>)]
    \o (IF most = 1 THEN <<>> ELSE [i \in DOMAIN s |-> Node("", <<At(s, i), s[i]>>)])

Tagged(classes) ==
  FlattenSeq([c \in DOMAIN classes |->
    LET s == Samples(Arguments[classes[c]], 0)
    IN  [i \in DOMAIN s |-> Node(classes[c], <<s[i]>>)]])

CaseOrder(cases) == SelectSeq([i \in 1..256 |-> i - 1], LAMBDA i : i \in DOMAIN cases)

EntryArguments ==
  <<"Bool", "U8", "U16", "U32", "U64", "U128", "U256", "AccountAddress", "MoveString",
    "U8Vector", "StringVector", "U64Option", "StringOption">>
ScriptArguments ==
  <<"Bool", "U8", "U16", "U32", "U64", "U128", "U256", "AccountAddress", "U8Vector",
    "MoveString">>

(* Keys and signatures that the constructors of the multi-keys accept.     *)
BitmapOf(n) == <<IF n >= 1 THEN 8 ELSE 0, 0, 0, IF n >= 2 THEN 1 ELSE 0>>
MultiKeySamples(type, depth) ==
  LET lists == Samples(type.write[1], depth)
      With(s) == IF type.check = "MultiKey" THEN <<Max({1, Len(s.kids)})>> ELSE BitmapOf(Len(s.kids))
      all == [i \in DOMAIN lists |-> Node("", <<lists[i], Leaf(With(lists[i]))>>)]
  IN  SelectSeq(all, LAMBDA v : Constructs(type.check, v.kids))

Samples(type, depth) ==
  CASE type.k = "struct" /\ type.check \in {"MultiKey", "MultiKeySignature"} ->
         MultiKeySamples(type, depth)
    [] type.k = "struct" /\ type.check \notin {"MultiKey", "MultiKeySignature"} ->
         Diagonal(<<>>, type.write, depth)
    [] type.k = "enum" ->
         LET order == CaseOrder(type.cases)
         IN  FlattenSeq([c \in DOMAIN order |->
               Diagonal(<<order[c]>>, type.cases[order[c]].write, depth)])
    [] type.k = "typeTag" ->
         IF depth = 0 THEN <<[tag |-> "", leaf |-> <<2>>, kids |-> <<>>]>>
                      ELSE Samples(TypeTag, depth - 1)
    [] type.k = "uint" -> <<Leaf(<<0>>), Leaf(<<1>>), Leaf(<<Base - 1>>), Leaf(<<Base^type.n - 1>>)>>
    [] type.k = "words" -> <<Leaf(Kept([j \in 1..type.n |-> 0])), Leaf(Kept([j \in 1..type.n |-> j])),
                             Leaf(Kept([j \in 1..type.n |-> MaxU32])),
                             Leaf(Kept([j \in 1..type.n |-> IF j = 1 THEN MaxU32 ELSE 0]))>>
    [] type.k = "bool" -> <<Leaf(<<0>>), Leaf(<<1>>)>>
    [] type.k = "bytes" -> Strings
    [] type.k \in {"sized", "fixed"} -> Runs(type.n)
    [] type.k = "packed" -> [i \in 1..4 |-> LET n == 2 + (i % 2) IN
                              Node("", Kept([j \in 1..(n + 1) |-> IF j <= n THEN Runs(type.n)[j]
                                ELSE Leaf(Kept([t \in 1..type.of |-> 1 + (i \div 3)]))]))]
    [] type.k = "vec" -> Lists(Samples(type.of, depth), 2)
    [] type.k \in {"option"} -> Lists(Samples(type.of, depth), 1)
    [] type.k = "optionStr" -> Lists(Strings, 1)
    [] type.k = "entryArgument" -> Tagged(EntryArguments)
    [] type.k = "scriptArgument" -> Tagged(ScriptArguments)

(* How many objects of each class travel.                                  *)
Many ==
  [SignedTransaction |-> 700,
   TypeTag |-> 250,
   EntryFunction |-> 140,
   Script |-> 140,
   TransactionPayload |-> 60,
   RawTransaction |-> 6,
   RawTransactionWithData |-> 60,
   SimpleTransaction |-> 60,
   MultiAgentTransaction |-> 60,
   AccountAuthenticator |-> 70,
   AnyPublicKey |-> 9,
   MultiKey |-> 20,
   KeylessPublicKey |-> 3,
   Ed25519PublicKey |-> 3,
   MultiEd25519PublicKey |-> 4,
   Bls12381PublicKey |-> 3,
   KeylessAccount |-> 4,
   MultiAuthKeyPublicKey |-> 9,
   Secp256k1PrivateKey |-> 3,
   Bls12381PrivateKey |-> 3,
   AuthenticationKey |-> 3]

(* At most n of the samples, spread over them.                             *)
Spread(s, n) ==
  IF Len(s) <= n THEN s ELSE Kept([i \in 1..n |-> s[1 + (((i - 1) * Len(s)) \div n)]])

ObjectsOf(class) ==
  LET s == Spread(Samples(Travelling[class], MaxDepth), Many[class])
  IN  {[class |-> class, value |-> s[i]] : i \in DOMAIN s}

MCObjects == UNION {ObjectsOf(class) : class \in DOMAIN Many}
MCTransactions == {o.value : o \in ObjectsOf("RawTransaction")}
MCKeys ==
  UNION {ObjectsOf(class) : class \in AuthKeyClasses}

MCStringLengths == <<0, 1, 9>>
MCRests == {<<>>, <<1, 0, 2>>}
-----------------------------------------------------------------------------

CONSTANT MaxTokens     \* the length of the arbitrary type texts

(* Strings, as the conversions read them.                                  *)
A == [i \in 1..32 |-> IF i = 32 THEN 7 ELSE 0]
Word == JsString(<<1, 2>>, <<>>, <<>>, <<>>, <<>>)
Empty == JsString(<<>>, <<>>, <<0>>, <<>>, <<>>)
Seven == JsString(<<7>>, <<7>>, <<7>>, A, <<>>)
Large == JsString(<<3, 0, 0>>, <<300>>, <<300>>, <<>>, <<>>)
Minus == JsString(<<5, 1>>, <<-1>>, <<-1>>, <<>>, <<>>)
True == JsString(<<9>>, <<>>, <<>>, <<>>, <<1>>)
Address == JsString(<<0, 7>>, <<0>>, <<7>>, A, <<>>)
Encoded(class, n) == NewUint(class, <<n>>)

StringInputs == {Word, Empty, True}
AddressInputs == {Address, NewAccountAddress(A), JsBytes(A)}   \* AccountAddressInput
AccountAddresses == {NewAccountAddress(A)}
AmountInputs == {JsNumber(<<7>>), JsBigint(<<3, 1>>), Seven}

SimpleValues ==
  <<JsBoolean(0), True, Word, Empty, Seven, Large, Minus, Address, JsNumber(<<7>>),
    JsNumber(<<16>>), JsNumber(<<-1>>), JsBigint(<<3, 1>>), JsBigint(<<1, 1, 1>>), JsNull,
    JsBytes(<<1, 2>>), JsBytes(<<>>), NewBool(1), Encoded("U8", 7), Encoded("U16", 7),
    Encoded("U32", 7), Encoded("U64", 7), Encoded("U128", 7), Encoded("U256", 7),
    NewAccountAddress(A), NewMoveString(<<1>>), Node("FixedBytes", <<Leaf(<<1>>)>>),
    MoveVectorU8(<<1, 2>>), MoveVectorMoveString(<<Word>>), Node("MoveVector", <<>>),
    Node("MoveOption", <<>>), Node("MoveOption", <<Encoded("U64", 7)>>)>>

Values ==
  SimpleValues
    \o <<JsArray(<<>>), JsArray(<<Seven, JsNumber(<<7>>)>>), JsArray(<<Encoded("U8", 7), Word>>),
         JsArray(<<JsNull, Seven>>), JsArray(<<JsArray(<<Seven>>)>>), JsArray(<<JsBytes(<<1>>)>>),
         JsArray(<<Word, NewMoveString(<<1>>)>>), JsArray(<<Address, NewAccountAddress(A)>>),
         Node("MoveVector", <<MoveVectorU8(<<1>>)>>), Node("MoveVector", <<NewAccountAddress(A)>>),
         Node("MoveVector", <<Node("MoveOption", <<Encoded("U64", 7)>>)>>),
         Node("MoveOption", <<Node("MoveVector", <<Encoded("U64", 7)>>)>>),
         JsUndefined, JsArrayBuffer(<<1, 2>>), JsArray(<<JsUndefined, Seven>>),
         Node("MoveVector", <<Encoded("U8", 7), Encoded("U64", 7)>>),
         Node("MoveVector", <<Node("MoveVector", <<>>), Node("MoveVector", <<Encoded("U64", 7)>>)>>),
         Node("MoveVector", <<Node("MoveOption", <<>>), Node("MoveOption", <<Encoded("U8", 7)>>)>>),
         Node("MoveVector", <<Node("MoveOption", <<>>), Node("MoveOption", <<Encoded("U64", 7)>>)>>),
         JsArray(<<Node("MoveVector", <<Encoded("U64", 7), Encoded("U8", 7)>>)>>)>>

SimpleTypes ==
  [i \in 1..9 |-> Tag(NameOrder[i], <<>>)]
    \o <<stringStructTag, objectStructTag(TagU8), Tag("S", <<>>), TagGeneric(0), TagGeneric(1)>>
Nested == {TagU8, TagU64, TagAddress, stringStructTag, TagGeneric(1)}
ParameterTypes ==
  {SimpleTypes[i] : i \in DOMAIN SimpleTypes}
    \cup {TagVector(t) : t \in Nested} \cup {optionStructTag(t) : t \in Nested}
    \cup {TagVector(TagVector(TagU8)), TagVector(optionStructTag(TagU64)),
          optionStructTag(TagVector(TagU64)), TagVector(TagVector(TagU64))}

Pairings ==
  {Call("", 2, <<t>>, <<<<"u64">>, <<"vector", "<", "u8", ">">>>>, <<Values[i]>>) :
     t \in ParameterTypes, i \in DOMAIN Values}

-----------------------------------------------------------------------------

Property(type, value) == [key |-> Word, type |-> type, value |-> value]

(* Every property type with values of it.                                  *)
Properties ==
  <<Property("BOOLEAN", JsBoolean(0)), Property("U8", JsNumber(<<7>>)), Property("U16", JsNumber(<<16>>)),
    Property("U32", JsNumber(<<300>>)), Property("U64", JsBigint(<<3, 1>>)), Property("U128", Large),
    Property("U256", JsBigint(<<1, 1, 1>>)), Property("ADDRESS", Address), Property("STRING", Word),
    Property("STRING", Empty), Property("ARRAY", JsBytes(<<1, 2>>)), Property("BOOLEAN", True)>>
PropertyInputs == {Properties[i] : i \in DOMAIN Properties}
PropertyLists == {<<>>, Properties, <<Properties[3], Property("ADDRESS", NewAccountAddress(A))>>}
AddressProperties == {Property("ADDRESS", NewAccountAddress(A)), Property("ADDRESS", JsBytes(A))}

AssetTypes == {<<"S">>, <<"S", "<", "vector", "<", "u8", ">", ",", " ", "S", ">">>}

BuilderCalls ==
  {createCollectionTransaction(Word, max, Empty, Word, [i \in 1..9 |-> (i + b) % 2], JsNumber(<<0>>), JsNumber(<<1>>)) :
     max \in {JsNumber(<<7>>), JsBigint(<<MaxU32, MaxU32>>)}, b \in 0..1}
  \cup {mintDigitalAssetTransaction(Word, Empty, True, Word, p) : p \in PropertyLists}
  \cup {mintSoulBoundTransaction(Word, Empty, True, Word, a, p) : a \in AddressInputs, p \in PropertyLists}
  \cup {transferDigitalAssetTransaction(a, b, t) : a \in AddressInputs, b \in AddressInputs, t \in AssetTypes}
  \cup UNION {{burnDigitalAssetTransaction(a, t), freezeDigitalAssetTransferTransaction(a, t),
               unfreezeDigitalAssetTransferTransaction(a, t)} : a \in AddressInputs, t \in AssetTypes}
  \cup UNION {{setDigitalAssetDescriptionTransaction(a, s, <<"S">>), setDigitalAssetNameTransaction(a, s, <<"S">>),
               setDigitalAssetURITransaction(a, s, <<"S">>), removeDigitalAssetPropertyTransaction(a, s, <<"S">>)} :
                a \in AddressInputs, s \in StringInputs}
  \cup UNION {{addDigitalAssetPropertyTransaction(a, p, <<"S">>), updateDigitalAssetPropertyTransaction(a, p, <<"S">>)} :
                a \in AddressInputs, p \in PropertyInputs \cup AddressProperties}
  \cup UNION {{addDigitalAssetTypedPropertyTransaction(a, p, <<"S">>),
               updateDigitalAssetTypedPropertyTransaction(a, p, <<"S">>)} :
                a \in AddressInputs, p \in PropertyInputs \cup AddressProperties}
  \cup {fundAccount(NewAccountAddress(A), a) : a \in {Address, Empty, JsUndefined}}
  \cup {transferEDS(a, n) : a \in AccountAddresses, n \in AmountInputs}
  \cup UNION {{transferCoin(m, a, n), transferCoinTransaction(m, b, n), transferFungibleAsset(b, c, n)} :
                m \in AccountAddresses, a \in AccountAddresses, b \in AddressInputs, c \in AddressInputs,
                n \in AmountInputs}
  \cup {publicPackageTransaction(<<1, 2>>, m) : m \in {<<>>, <<<<1>>, <<2, 3>>>>}}
  \cup {rotateAuthKeyCall(s, <<1>>, <<2>>, <<3>>, <<4>>) : s \in {0, 2}}

-----------------------------------------------------------------------------

(* Functions whose ABI is fetched.                                         *)
Exposed(is_entry, is_view, generics, params) ==
  <<[is_entry |-> is_entry, is_view |-> is_view, generics |-> generics, params |-> params]>>
Parameters ==
  {<<<<"&", "signer">>, <<"vector", "<", "T0", ">">>, <<"Option", "<", "String", ">">>>>,
   <<<<"signer">>, <<"&", "signer">>>>, <<<<"u64">>, <<"signer">>>>, <<<<"&", "u8">>>>}
RemoteCalls ==
  {[Call("", 0, <<>>, types, arguments) EXCEPT !.kind = kind, !.remote = remote] :
     kind \in {"remoteEntry", "remoteMultisig", "remoteView"},
     remote \in {<<>>} \cup {Exposed(e, ~e, 1, p) : e \in BOOLEAN, p \in Parameters},
     types \in {<<>>, <<<<"u64">>>>}, arguments \in {<<>>, <<Seven>>, <<JsArray(<<Seven>>), Word>>}}

OtherCalls ==
  {[Call("", 1, <<TagVector(TagGeneric(0)), TagU8>>, <<<<"u64">>>>, arguments) EXCEPT !.kind = kind] :
     kind \in {"entry", "multisig", "view"},
     arguments \in {<<>>, <<JsArray(<<Seven>>), Seven>>, <<JsArray(<<>>), Seven, Seven>>}}
  \cup {[Call("", 0, <<>>, <<<<"u64">>>>, <<Node("U8Vector", <<Node("", <<Node("", <<>>)>>)>>),
                                            NewUint("U8", <<7>>)>>) EXCEPT !.kind = "script"]}

-----------------------------------------------------------------------------

(* Texts: all sequences of tokens, and spellings of nested types.          *)
Tokens == {"<", ">", ",", " ", "u8", "vector", "S"}
TextCall(t) == Call("", 1, <<>>, <<t>>, <<>>)
TextCalls == {TextCall(t) : t \in UNION {[1..n -> Tokens] : n \in 1..MaxTokens}}

Depth1 == {TagU8, TagAddress, Tag("S", <<>>)}
Depth2 == {TagVector(t) : t \in Depth1} \cup {Tag("S", <<t, u>>) : t \in Depth1, u \in Depth1}
Depth3 ==
  {TagVector(t) : t \in Depth2} \cup {Tag("S", <<t, u>>) : t \in Depth1, u \in Depth2}
    \cup {Tag("S", <<t, u>>) : t \in Depth2, u \in Depth1 \cup {TagVector(TagU8)}}

(* toString, with blanks after "<", about "," and before ">".              *)
RECURSIVE Spelling(_, _)
Spelling(tag, blanks) ==
  IF tag.args = <<>> THEN tag.name
  ELSE tag.name \o <<"<">> \o blanks.open
         \o FlattenSeq([i \in DOMAIN tag.args |->
              (IF i = 1 THEN <<>> ELSE blanks.before \o <<",">> \o blanks.comma) \o Spelling(tag.args[i], blanks)])
         \o blanks.close \o <<">">>
toString == [open |-> <<>>, before |-> <<>>, comma |-> <<" ">>, close |-> <<>>]
Blanks ==
  {toString} \cup [open : {<<>>, <<" ">>}, before : {<<>>, <<" ">>}, comma : {<<>>, <<" ", " ">>},
                   close : {<<>>, <<" ">>}]
SpelledCalls ==
  {[TextCall(Spelling(t, b)) EXCEPT !.spells = <<t>>] :
     t \in Depth1 \cup Depth2 \cup Depth3, b \in Blanks}

(* Texts of an ABI, which may hold placeholders.                           *)
AbiTokens == {"<", ">", ",", " ", "T0", "S"}
AbiText(t) ==
  [Call("", 0, <<>>, <<>>, <<>>) EXCEPT !.kind = "remoteEntry", !.remote = Exposed(TRUE, FALSE, 0, <<t>>)]
GivenPlaceholders ==
  LET given == {Tag("T0", <<TagU8>>), Tag("T0", <<TagVector(TagGeneric(1)), TagU8>>)}
  IN  given \cup {TagVector(t) : t \in given} \cup {Tag("S", <<t, u>>) : t \in given, u \in given \cup Depth1}
        \cup {Tag("T1", <<t>>) : t \in given}
AbiTextCalls ==
  {AbiText(t) : t \in UNION {[1..n -> AbiTokens] : n \in 1..(MaxTokens - 1)}}
    \cup {AbiText(Spelling(t, toString)) : t \in GivenPlaceholders}

MCCalls == Pairings \cup BuilderCalls \cup RemoteCalls \cup OtherCalls \cup TextCalls \cup SpelledCalls
             \cup AbiTextCalls

-----------------------------------------------------------------------------
VARIABLE part   \* which part the behaviour is of

Start ==
  /\ DerivationInit
  /\ \/ part = "call" /\ Init
     \/ part = "keys" /\ NoParse /\ InitWith(NoObject) /\ InitCall([NoCall EXCEPT !.kind = "object"])

Go ==
  /\ \/ part = "call" /\ Next /\ UNCHANGED derivationVars
     \/ part = "keys" /\ DerivationNext /\ UNCHANGED vars
  /\ UNCHANGED part

CallsAndKeys == Start /\ [][Go]_<<vars, derivationVars, part>>
=============================================================================
