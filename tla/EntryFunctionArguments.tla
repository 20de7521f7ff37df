----------------------- MODULE EntryFunctionArguments -----------------------
(***************************************************************************)
(* src/src/transactions/transactionBuilder/remoteAbi.ts and helpers.ts:    *)
(* what a caller gives as an argument of a Move function, checked against  *)
(* the type of the parameter or converted to it.                           *)
(*                                                                         *)
(* A caller's value is a node.  Its tag is the JavaScript type (boolean,   *)
(* number, bigint, string, null, undefined, Uint8Array, ArrayBuffer,       *)
(* Array) or the class of a value that is encoded already.  An integer is the sequence of its u32   *)
(* words, the lowest first, and a string the bytes of its UTF-8 and what   *)
(* the conversions read in it, <<>> where they throw.                      *)
(***************************************************************************)
EXTENDS BcsCodec, Integers, Sequences, SequencesExt

(***************************************************************************)
(* Move types as the SDK holds them (TypeTag and its subclasses): a name   *)
(* and type arguments.  A name is a sequence of the names a text is made   *)
(* of, nearly always one of them:                                          *)
(*   - a primitive, "vector", a placeholder "T0", "T1" of an ABI, or "&";  *)
(*   - a struct: "String", "Option" and "Object" stand for the types under *)
(*     0x1 that the SDK treats apart, "S" for every other one.             *)
(***************************************************************************)
Tag(name, args) == [name |-> <<name>>, args |-> args]

Primitives == {"bool", "u8", "u16", "u32", "u64", "u128", "u256", "address", "signer"}
Structs == {"S", "String", "Option", "Object"}
Generics == {"T0", "T1"}
NameOrder ==
  <<"bool", "u8", "u16", "u32", "u64", "u128", "u256", "address", "signer", "vector", "&", "S",
    "String", "Option", "Object", "T0", "T1">>
Names == {NameOrder[i] : i \in DOMAIN NameOrder}

TagBool == Tag("bool", <<>>)
TagU8 == Tag("u8", <<>>)
TagU64 == Tag("u64", <<>>)
TagU128 == Tag("u128", <<>>)
TagAddress == Tag("address", <<>>)
TagGeneric(n) == Tag(IF n = 0 THEN "T0" ELSE "T1", <<>>)
TagVector(of) == Tag("vector", <<of>>)
stringStructTag == Tag("String", <<>>)
optionStructTag(of) == Tag("Option", <<of>>)
objectStructTag(of) == Tag("Object", <<of>>)

(* What the is... methods tell of a tag.                                   *)
KindOf(tag) == IF Len(tag.name) = 1 THEN tag.name[1] ELSE "S"

RECURSIVE NamesOf(_)
NamesOf(tag) == tag.name \o FlattenSeq([i \in DOMAIN tag.args |-> NamesOf(tag.args[i])])
-----------------------------------------------------------------------------

JsBoolean(b) == [tag |-> "boolean", leaf |-> <<b>>, kids |-> <<>>]
JsNumber(words32) == [tag |-> "number", leaf |-> words32, kids |-> <<>>]
JsBigint(words32) == [tag |-> "bigint", leaf |-> words32, kids |-> <<>>]
JsNull == Node("null", <<>>)
JsUndefined == Node("undefined", <<>>)
JsBytes(content) == [tag |-> "Uint8Array", leaf |-> content, kids |-> <<>>]
JsArrayBuffer(content) == [tag |-> "ArrayBuffer", leaf |-> content, kids |-> <<>>]
JsArray(items) == Node("Array", items)
JsString(utf8, parseInt, asBigInt, fromString, boolean) ==
  [tag |-> "string", leaf |-> utf8,
   kids |-> <<Leaf(parseInt), Leaf(asBigInt), Leaf(fromString), Leaf(boolean)>>]

Rejected == Node("rejected", <<>>)

(* The class of the encoded form of each type.                             *)
ClassOf ==
  [bool |-> "Bool", u8 |-> "U8", u16 |-> "U16", u32 |-> "U32", u64 |-> "U64", u128 |-> "U128",
   u256 |-> "U256", address |-> "AccountAddress", String |-> "MoveString",
   Object |-> "AccountAddress"]

isEncodedEntryFunctionArgument(arg) ==
  arg.tag \in {"Bool", "U8", "U16", "U32", "U64", "U128", "U256", "AccountAddress", "MoveString",
               "FixedBytes", "MoveVector", "MoveOption"}

-----------------------------------------------------------------------------
(* The constructors.                                                       *)

NewMoveString(utf8) == Node("MoveString", <<Node("", <<Leaf(utf8)>>)>>)
NewAccountAddress(data) == Node("AccountAddress", <<Node("", <<Leaf(data)>>)>>)
NewBool(b) == Node("Bool", <<Node("", <<Leaf(<<b>>)>>)>>)

(* U8, U16, U32, whose constructor throws out of range, and U64, U128,     *)
(* U256.                                                                   *)
Width == [U8 |-> 1, U16 |-> 2, U32 |-> 4, U64 |-> 2, U128 |-> 4, U256 |-> 8]

NewUint(class, n) ==
  IF /\ n # <<>> /\ \A i \in DOMAIN n : n[i] >= 0
     /\ IF class \in {"U8", "U16", "U32"}
          THEN Len(n) = 1 /\ n[1] < Power(Base, Width[class])
          ELSE Len(n) <= Width[class]
    THEN Node(class, <<Node("", <<Leaf(
           IF class \in {"U8", "U16", "U32"} THEN n
           ELSE n \o [i \in 1..(Width[class] - Len(n)) |-> 0])>>)>>)
    ELSE Rejected

MoveVectorU8(content) ==
  Node("MoveVector", [i \in DOMAIN content |-> NewUint("U8", <<content[i]>>)])
MoveVectorMoveString(texts) ==
  Node("MoveVector", [i \in DOMAIN texts |-> NewMoveString(texts[i].leaf)])

-----------------------------------------------------------------------------

(* Mutant: the elements of an encoded vector are not looked at.            *)
checkType_AnyElements(param, arg) ==
  LET kind == KindOf(param)
  IN  \/ kind \in DOMAIN ClassOf /\ arg.tag = ClassOf[kind]
      \/ kind = "vector" /\ arg.tag = "MoveVector"
      \/ kind = "Option" /\ arg.tag = "MoveOption"

isNull(arg) == arg.tag \in {"null", "undefined"}

(* An argument that is encoded already.  Of a vector only the first        *)
(* element is looked at, although the others may be of another type, or    *)
(* the first may be empty and fit any type.                                *)
RECURSIVE checkType(_, _)
checkType(param, arg) ==
  LET kind == KindOf(param)
      firstFits == arg.kids # <<>> => checkType(param.args[1], arg.kids[1])
  IN  \/ kind \in DOMAIN ClassOf /\ arg.tag = ClassOf[kind]
      \/ kind = "vector" /\ arg.tag = "MoveVector" /\ firstFits
      \/ kind = "Option" /\ arg.tag = "MoveOption" /\ firstFits

RECURSIVE checkOrConvertArgument(_, _, _)

(* The conversions of a value by itself.                                   *)
parseSimple(arg, kind) ==
  LET reading(i) == arg.kids[i].leaf
  IN  CASE kind = "bool" /\ arg.tag = "boolean" -> NewBool(arg.leaf[1])
        [] kind = "bool" /\ arg.tag = "string" /\ reading(4) # <<>> -> NewBool(reading(4)[1])
        [] kind \in {"address", "Object"} /\ arg.tag = "string" /\ reading(3) # <<>> ->
             NewAccountAddress(reading(3))
        [] kind \in {"u8", "u16", "u32"} /\ arg.tag = "number" -> NewUint(ClassOf[kind], arg.leaf)
        [] kind \in {"u8", "u16", "u32"} /\ arg.tag = "string" -> NewUint(ClassOf[kind], reading(1))
        [] kind \in {"u64", "u128", "u256"} /\ arg.tag \in {"number", "bigint"} ->
             NewUint(ClassOf[kind], arg.leaf)
        [] kind \in {"u64", "u128", "u256"} /\ arg.tag = "string" ->
             NewUint(ClassOf[kind], reading(2))
        [] kind = "String" /\ arg.tag = "string" -> NewMoveString(arg.leaf)
        [] OTHER -> Rejected

(* A new MoveVector or MoveOption, unless an element was rejected.         *)
Collect(class, elements) ==
  IF \E i \in DOMAIN elements : elements[i] = Rejected THEN Rejected ELSE Node(class, elements)

parseArg(arg, param, genericTypeParams) ==
  LET kind  == KindOf(param)
      index == IF kind = "T0" THEN 1 ELSE 2
      Inner(item) == checkOrConvertArgument(item, param.args[1], genericTypeParams)
  IN  CASE kind \in Generics /\ index \in DOMAIN genericTypeParams ->
             checkOrConvertArgument(arg, genericTypeParams[index], genericTypeParams)
        [] /\ kind = "vector" /\ KindOf(param.args[1]) = "u8"
           /\ arg.tag \in {"string", "Uint8Array", "ArrayBuffer"} -> MoveVectorU8(arg.leaf)
        [] kind = "vector" /\ arg.tag = "Array" ->
             Collect("MoveVector", [i \in DOMAIN arg.kids |-> Inner(arg.kids[i])])
        [] kind = "Option" /\ isNull(arg) -> Node("MoveOption", <<>>)
        [] kind = "Option" /\ ~isNull(arg) -> Collect("MoveOption", <<Inner(arg)>>)
        [] OTHER -> parseSimple(arg, kind)

checkOrConvertArgument(arg, param, genericTypeParams) ==
  IF isEncodedEntryFunctionArgument(arg)
    THEN IF checkType(param, arg) THEN arg ELSE Rejected
    ELSE parseArg(arg, param, genericTypeParams)

convertArgument(parameters, arg, position, genericTypeParams) ==
  IF position > Len(parameters)
    THEN Rejected
    ELSE checkOrConvertArgument(arg, parameters[position], genericTypeParams)

-----------------------------------------------------------------------------
(* What the chain reads: the layout of a value of a type.                  *)

RECURSIVE LayoutOf(_, _)
LayoutOf(tag, typeArguments) ==
  LET kind == KindOf(tag)
  IN  CASE kind = "T0" -> LayoutOf(typeArguments[1], typeArguments)
        [] kind = "T1" -> LayoutOf(typeArguments[2], typeArguments)
        [] kind = "vector" -> MoveVector(LayoutOf(tag.args[1], typeArguments))
        [] kind = "Option" -> MoveOption(LayoutOf(tag.args[1], typeArguments))
        [] kind \in DOMAIN ClassOf -> Arguments[ClassOf[kind]]

(* The bytes hold one value of the type, and an option at most one value.  *)
RECURSIVE OptionsHoldOne(_, _, _)
OptionsHoldOne(tag, typeArguments, value) ==
  LET kind == KindOf(tag)
      items == value.kids[1].kids
  IN  CASE kind \in Generics ->
             OptionsHoldOne(typeArguments[IF kind = "T0" THEN 1 ELSE 2], typeArguments, value)
        [] kind \in {"vector", "Option"} ->
             /\ kind = "Option" => Len(items) <= 1
             /\ \A i \in DOMAIN items : OptionsHoldOne(tag.args[1], typeArguments, items[i])
        [] OTHER -> TRUE

(* A value that is encoded is one of the type, with every element in it.   *)
RECURSIVE Fits(_, _, _)
Fits(tag, typeArguments, value) ==
  LET kind == KindOf(tag)
  IN  CASE kind \in Generics ->
             Fits(typeArguments[IF kind = "T0" THEN 1 ELSE 2], typeArguments, value)
        [] kind \in {"vector", "Option"} ->
             /\ value.tag = IF kind = "vector" THEN "MoveVector" ELSE "MoveOption"
             /\ \A i \in DOMAIN value.kids : Fits(tag.args[1], typeArguments, value.kids[i])
        [] OTHER -> kind \in DOMAIN ClassOf /\ value.tag = ClassOf[kind]

(* The caller's value is, or holds, a MoveVector of two or more elements.  *)
RECURSIVE HoldsLongVector(_)
HoldsLongVector(value) ==
  \/ value.tag = "MoveVector" /\ Len(value.kids) >= 2
  \/ value.tag \in {"MoveVector", "MoveOption", "Array"}
       /\ \E i \in DOMAIN value.kids : HoldsLongVector(value.kids[i])

DecodesAs(tag, typeArguments, content) ==
  LET r == Deserialize(LayoutOf(tag, typeArguments), content)
  IN  r.ok /\ r.rest = <<>> /\ OptionsHoldOne(tag, typeArguments, r.value)
=============================================================================
