------------------------------ MODULE BcsCodec ------------------------------
(***************************************************************************)
(* What serialize and deserialize do with a value of a layout: the calls   *)
(* of the methods of Serializer and Deserializer, part by part, and the    *)
(* forms that a Move value takes as an argument of an entry function or of *)
(* a script.                                                               *)
(***************************************************************************)
EXTENDS Bcs, Integers, Sequences, TLC

(***************************************************************************)
(* The BCS layout of every serializable class of the SDK: what its         *)
(* serialize writes, and what its static deserialize (or load) reads, as   *)
(* sequences of types in the order of the calls.                           *)
(*                                                                         *)
(* A class of which the two methods name the same parts in the same order  *)
(* is a Struct.  A Case is a class that writes the index of its variant    *)
(* first and whose load starts after it, and an Enum the class whose       *)
(* deserialize reads the index and picks the load.  Every other class      *)
(* gives the two sequences apart.                                          *)
(***************************************************************************)
Type(k, n, of) == [k |-> k, n |-> n, of |-> of]

uint(width) == Type("uint", width, "")       \* serializeU8, U16, U32
words(count) == Type("words", count, "")     \* serializeU64, U128, U256
bool == Type("bool", 0, "")
str == Type("bytes", 0, "")                  \* the UTF-8 bytes, with their length
bytes == Type("bytes", 0, "")
sized(n) == Type("sized", n, "")             \* bytes that the constructor requires to be n
fixed(n) == Type("fixed", n, "")             \* serializeFixedBytes
packed(n, tail) == Type("packed", n, tail)   \* n-byte items and a tail, in one serializeBytes
typeTag == Type("typeTag", 0, "")            \* TypeTag, which contains itself
vec(of) == Type("vec", 0, of)
option(of) == Type("option", 0, of)
optionStr == Type("optionStr", 0, "")
variant(index) == Type("variant", index, "")
anyVariant == Type("anyVariant", 0, "")      \* an index that is read and ignored
entryArgument == Type("entryArgument", 0, "")
scriptArgument == Type("scriptArgument", 0, "")

(* check names the class whose constructor tests what was read.            *)
Layout(writes, reads) == [k |-> "struct", check |-> "", write |-> writes, read |-> reads]
Struct(parts) == Layout(parts, parts)
Checked(class, parts) == [Struct(parts) EXCEPT !.check = class]
Case(index, parts) == Layout(<<variant(index)>> \o parts, parts)
Enum(cases) == [k |-> "enum", cases |-> cases]

u8 == uint(1)
u64 == words(2)

-----------------------------------------------------------------------------
(* Move values.                                                            *)

Bool == Struct(<<bool>>)
U8 == Struct(<<u8>>)
U16 == Struct(<<uint(2)>>)
U32 == Struct(<<uint(4)>>)
U64 == Struct(<<u64>>)
U128 == Struct(<<words(4)>>)
U256 == Struct(<<words(8)>>)
MoveString == Struct(<<str>>)
MoveVector(of) == Struct(<<vec(of)>>)

(* An option of a Move value is a vector of at most one; deserialize keeps *)
(* the first element of the vector it reads.                               *)
MoveOption(of) == Struct(<<vec(of)>>)

AccountAddress == Struct(<<fixed(32)>>)
AuthenticationKey == Struct(<<fixed(32)>>)

-----------------------------------------------------------------------------
(* Type tags and names.                                                    *)

TypeTagBool == Case(0, <<>>)
TypeTagU8 == Case(1, <<>>)
TypeTagU16 == Case(8, <<>>)
TypeTagU32 == Case(9, <<>>)
TypeTagU64 == Case(2, <<>>)
TypeTagU128 == Case(3, <<>>)
TypeTagU256 == Case(10, <<>>)
TypeTagAddress == Case(4, <<>>)
TypeTagSigner == Case(5, <<>>)
TypeTagGeneric == Case(255, <<uint(4)>>)
TypeTagVector == Case(6, <<typeTag>>)
Identifier == Struct(<<str>>)
StructTag == Struct(<<AccountAddress, Identifier, Identifier, vec(typeTag)>>)
TypeTagStruct == Case(7, <<StructTag>>)

(* Type tags.  The Reference variant has no case in deserialize, and       *)
(* writes no value: it never leaves the program.                           *)
TypeTag == Enum(0 :> TypeTagBool @@ 1 :> TypeTagU8 @@ 2 :> TypeTagU64
             @@ 3 :> TypeTagU128 @@ 4 :> TypeTagAddress @@ 5 :> TypeTagSigner
             @@ 6 :> TypeTagVector @@ 7 :> TypeTagStruct @@ 8 :> TypeTagU16
             @@ 9 :> TypeTagU32 @@ 10 :> TypeTagU256 @@ 255 :> TypeTagGeneric)

ModuleId == Struct(<<AccountAddress, Identifier>>)
ChainId == Struct(<<u8>>)

-----------------------------------------------------------------------------
(* Keys and signatures.                                                    *)

Ed25519PublicKey == Struct(<<sized(32)>>)
Ed25519PrivateKey == Struct(<<sized(32)>>)
Ed25519Signature == Struct(<<sized(64)>>)
Secp256k1PublicKey == Struct(<<sized(65)>>)
Secp256k1PrivateKey == Struct(<<sized(32)>>)
Secp256k1Signature == Struct(<<sized(64)>>)
Bls12381PublicKey == Struct(<<sized(48)>>)
Bls12381PrivateKey == Struct(<<sized(32)>>)
Bls12381Signature == Struct(<<sized(96)>>)
EphemeralEd25519Key == Case(0, <<Ed25519PublicKey>>)
EphemeralPublicKey == Enum(0 :> EphemeralEd25519Key)
EphemeralEd25519Signature == Case(0, <<Ed25519Signature>>)
EphemeralSignature == Enum(0 :> EphemeralEd25519Signature)
EphemeralEd25519KeyPair == Case(0, <<Ed25519PrivateKey, u64, fixed(31)>>)
EphemeralKeyPair == Enum(0 :> EphemeralEd25519KeyPair)
KeylessPublicKey == Struct(<<str, sized(32)>>)
G1Bytes == Struct(<<fixed(32)>>)
G2Bytes == Struct(<<fixed(64)>>)
Groth16Zkp == Struct(<<G1Bytes, G2Bytes, G1Bytes>>)

(* The two optional strings are written with a uleb128 0 or 1, and read    *)
(* with deserializeBool: the same byte.                                    *)
ZeroKnowledgeSig ==
  Layout(<<Groth16Zkp, EphemeralSignature, u64, optionStr, optionStr,
           option(EphemeralSignature)>>,
         <<Groth16Zkp, EphemeralSignature, u64, option(str), option(str),
           option(EphemeralSignature)>>)

ZkProof == Case(0, <<ZeroKnowledgeSig>>)
EphemeralCertificate == Enum(0 :> ZkProof)
KeylessSignature ==
  Struct(<<EphemeralCertificate, str, u64, EphemeralPublicKey,
           EphemeralSignature>>)
AnyEd25519Key == Case(0, <<Ed25519PublicKey>>)
AnySecp256k1Key == Case(1, <<Secp256k1PublicKey>>)
AnyKeylessKey == Case(3, <<KeylessPublicKey>>)
AnyPublicKey ==
  Enum(0 :> AnyEd25519Key @@ 1 :> AnySecp256k1Key @@ 3 :> AnyKeylessKey)
AnyEd25519Signature == Case(0, <<Ed25519Signature>>)
AnySecp256k1Signature == Case(1, <<Secp256k1Signature>>)
AnyKeylessSignature == Case(3, <<KeylessSignature>>)
AnySignature ==
  Enum(0 :> AnyEd25519Signature @@ 1 :> AnySecp256k1Signature @@ 3 :> AnyKeylessSignature)
MultiKey == Checked("MultiKey", <<vec(AnyPublicKey), u8>>)
MultiKeySignature == Checked("MultiKeySignature", <<vec(AnySignature), sized(4)>>)
MultiAuthKeyPublicKey == Struct(<<vec(AnyPublicKey)>>)
MultiAuthKeySignature == Struct(<<vec(AnySignature)>>)
MultiEd25519PublicKey == Checked("MultiEd25519PublicKey", <<packed(32, 1)>>)
MultiEd25519Signature == Checked("MultiEd25519Signature", <<packed(64, 4)>>)
KeylessAccount == Struct(<<str, str, fixed(31), EphemeralKeyPair, ZeroKnowledgeSig>>)

-----------------------------------------------------------------------------
(* Transactions.                                                           *)

EntryFunction ==
  Struct(<<ModuleId, Identifier, vec(typeTag), vec(entryArgument)>>)
TransactionPayloadEntryFunction == Case(2, <<EntryFunction>>)
SafeEntryFunction == Case(5, <<EntryFunction, fixed(32)>>)
Script == Struct(<<bytes, vec(typeTag), vec(scriptArgument)>>)
TransactionPayloadScript == Case(0, <<Script>>)
SafeScript == Case(4, <<Script, fixed(32)>>)
MultiSigTransactionPayload ==
  Layout(<<variant(0), EntryFunction>>, <<anyVariant, EntryFunction>>)
MultiSig == Struct(<<AccountAddress, option(MultiSigTransactionPayload)>>)
TransactionPayloadMultiSig == Case(3, <<MultiSig>>)

(* The payload classes write another variant when a payment checksum is    *)
(* set, and the checksum after the rest.                                   *)
TransactionPayload ==
  Enum(0 :> TransactionPayloadScript @@ 2 :> TransactionPayloadEntryFunction
    @@ 3 :> TransactionPayloadMultiSig @@ 4 :> SafeScript @@ 5 :> SafeEntryFunction)

RawTransaction ==
  Struct(<<AccountAddress, u64, TransactionPayload, u64, u64, u64, ChainId>>)
MultiAgentRawTransaction == Case(0, <<RawTransaction, vec(AccountAddress)>>)
FeePayerRawTransaction == Case(1, <<RawTransaction, vec(AccountAddress), AccountAddress>>)
RawTransactionWithData ==
  Enum(0 :> MultiAgentRawTransaction @@ 1 :> FeePayerRawTransaction)
(* Mutant: deserialize does not read the fee payer.                        *)
SimpleTransaction_NoPayer == Layout(<<RawTransaction, option(AccountAddress)>>, <<RawTransaction>>)
SimpleTransaction == Struct(<<RawTransaction, option(AccountAddress)>>)
MultiAgentTransaction == Struct(<<RawTransaction, vec(AccountAddress), option(AccountAddress)>>)

(* Only ever written: the new public key's owner signs these bytes.        *)
RotationProofChallenge ==
  Layout(<<AccountAddress, MoveString, MoveString, U64, AccountAddress, AccountAddress,
           MoveVector(U8)>>, <<>>)

-----------------------------------------------------------------------------
(* Authenticators.                                                         *)

AccountAuthenticatorEd25519 == Case(0, <<Ed25519PublicKey, Ed25519Signature>>)
AccountAuthenticatorMultiEd25519 ==
  Case(1, <<MultiEd25519PublicKey, MultiEd25519Signature>>)
AccountAuthenticatorSingleKey == Case(2, <<AnyPublicKey, AnySignature>>)
AccountAuthenticatorMultiKey == Case(3, <<MultiKey, MultiKeySignature>>)
AccountAuthenticatorMultiAuthKey ==
  Case(4, <<MultiAuthKeyPublicKey, MultiAuthKeySignature>>)
AccountAuthenticatorBls12381 == Case(5, <<Bls12381PublicKey, Bls12381Signature>>)
AccountAuthenticatorMock == Case(6, <<AccountAddress>>)
AccountAuthenticator ==
  Enum(0 :> AccountAuthenticatorEd25519 @@ 1 :> AccountAuthenticatorMultiEd25519
    @@ 2 :> AccountAuthenticatorSingleKey @@ 3 :> AccountAuthenticatorMultiKey
    @@ 4 :> AccountAuthenticatorMultiAuthKey @@ 5 :> AccountAuthenticatorBls12381
    @@ 6 :> AccountAuthenticatorMock)
TransactionAuthenticatorEd25519 ==
  Case(0, <<Ed25519PublicKey, Ed25519Signature>>)
TransactionAuthenticatorMultiEd25519 ==
  Case(1, <<MultiEd25519PublicKey, MultiEd25519Signature>>)
TransactionAuthenticatorMultiAgent ==
  Case(2, <<AccountAuthenticator, vec(AccountAddress), vec(AccountAuthenticator)>>)
TransactionAuthenticatorFeePayer ==
  Case(3, <<AccountAuthenticator, vec(AccountAddress), vec(AccountAuthenticator),
            AccountAddress, AccountAuthenticator>>)
TransactionAuthenticatorSingleSender == Case(4, <<AccountAuthenticator>>)
TransactionAuthenticator ==
  Enum(0 :> TransactionAuthenticatorEd25519 @@ 1 :> TransactionAuthenticatorMultiEd25519
    @@ 2 :> TransactionAuthenticatorMultiAgent @@ 3 :> TransactionAuthenticatorFeePayer
    @@ 4 :> TransactionAuthenticatorSingleSender)
SignedTransaction == Struct(<<RawTransaction, TransactionAuthenticator>>)
-----------------------------------------------------------------------------

(* The classes whose values are arguments.  An argument is a node tagged   *)
(* with its class, whose kid is the value.                                 *)
Arguments ==
  [Bool |-> Bool, U8 |-> U8, U16 |-> U16, U32 |-> U32, U64 |-> U64, U128 |-> U128,
   U256 |-> U256, AccountAddress |-> AccountAddress, MoveString |-> MoveString,
   U8Vector |-> MoveVector(U8), StringVector |-> MoveVector(MoveString),
   U64Option |-> MoveOption(U64), StringOption |-> MoveOption(MoveString)]

ScriptVariants ==
  [U8 |-> 0, U64 |-> 1, U128 |-> 2, AccountAddress |-> 3, U8Vector |-> 4, Bool |-> 5,
   U16 |-> 6, U32 |-> 7, U256 |-> 8]

RECURSIVE Serialize(_, _)

(* A part that carries no information has no value among the kids.         *)
IsMark(type) == type.k \in {"variant", "anyVariant"}

RECURSIVE SerializeParts(_, _)
SerializeParts(parts, kids) ==
  IF parts = <<>> THEN <<>>
  ELSE IF Head(parts).k = "variant"
    THEN serializeU32AsUleb128(Head(parts).n) \o SerializeParts(Tail(parts), kids)
    ELSE Serialize(Head(parts), Head(kids)) \o SerializeParts(Tail(parts), Tail(kids))

SerializeAll(type, kids) == FlattenSeq([i \in 1..Len(kids) |-> Serialize(type, kids[i])])

serializeVector(type, kids) == serializeU32AsUleb128(Len(kids)) \o SerializeAll(type, kids)

(* Bytes that were read without their type are written back as they are; a *)
(* MoveVector or a MoveOption of arguments is the vector of their bytes.   *)
RECURSIVE bcsToBytes(_)
bcsToBytes(argument) ==
  CASE argument.tag = "EntryFunctionBytes" -> argument.leaf
    [] argument.tag \in {"MoveVector", "MoveOption"} ->
         serializeU32AsUleb128(Len(argument.kids))
           \o FlattenSeq([i \in DOMAIN argument.kids |-> bcsToBytes(argument.kids[i])])
    [] argument.tag \in DOMAIN Arguments -> Serialize(Arguments[argument.tag], argument.kids[1])

serializeForEntryFunction(argument) == serializeBytes(bcsToBytes(argument))

(* A string becomes a vector<u8> of its BCS bytes without the first.       *)
serializeForScriptFunction(argument) ==
  IF argument.tag = "MoveString"
    THEN serializeU32AsUleb128(ScriptVariants["U8Vector"])
           \o serializeBytes(Tail(bcsToBytes(argument)))
    ELSE serializeU32AsUleb128(ScriptVariants[argument.tag]) \o bcsToBytes(argument)

Serialize(type, value) ==
  CASE type.k = "struct" -> SerializeParts(type.write, value.kids)
    [] type.k = "enum" -> SerializeParts(type.cases[value.leaf[1]].write, value.kids)
    [] type.k = "typeTag" -> Serialize(TypeTag, value)
    [] type.k = "uint" -> serializeUint(value.leaf[1], type.n)
    [] type.k = "words" -> serializeWords(value.leaf)
    [] type.k = "bool" -> value.leaf
    [] type.k \in {"bytes", "sized"} -> serializeBytes(value.leaf)
    [] type.k = "fixed" -> value.leaf
    [] type.k = "packed" -> serializeBytes(FlattenSeq([i \in DOMAIN value.kids |-> value.kids[i].leaf]))
    [] type.k = "vec" -> serializeVector(type.of, value.kids)
    [] type.k = "option" -> <<Len(value.kids)>> \o SerializeAll(type.of, value.kids)
    [] type.k = "optionStr" ->
         serializeU32AsUleb128(Len(value.kids)) \o SerializeAll(str, value.kids)
    [] type.k = "entryArgument" -> serializeForEntryFunction(value)
    [] type.k = "scriptArgument" -> serializeForScriptFunction(value)

-----------------------------------------------------------------------------

RECURSIVE Deserialize(_, _)

RECURSIVE DeserializeParts(_, _, _)
DeserializeParts(parts, kids, input) ==
  IF parts = <<>> THEN Got(Node("", kids), input)
  ELSE Then(Deserialize(Head(parts), input), LAMBDA value, rest :
         DeserializeParts(Tail(parts), IF IsMark(Head(parts)) THEN kids ELSE Append(kids, value), rest))

(* The constructors that test the parts against each other.                *)
BitCount(byte) == Cardinality({b \in 0..7 : (byte \div 2^b) % 2 = 1})
SumOfBits(bitmap) == FoldLeft(LAMBDA n, byte : n + BitCount(byte), 0, bitmap)

NewMultiKey(kids) == kids[2].leaf[1] \in 1..Len(kids[1].kids)
NewMultiKeySignature(kids) ==
  Len(kids[1].kids) <= 32 /\ SumOfBits(kids[2].leaf) = Len(kids[1].kids)
NewMultiEd25519PublicKey(kids) ==
  LET n == Len(kids[1].kids) - 1
  IN  n \in 2..32 /\ kids[1].kids[n + 1].leaf[1] \in 1..n
NewMultiEd25519Signature(kids) == Len(kids[1].kids) - 1 <= 32

Constructs(check, kids) ==
  CASE check = "MultiKey" -> NewMultiKey(kids)
    [] check = "MultiKeySignature" -> NewMultiKeySignature(kids)
    [] check = "MultiEd25519PublicKey" -> NewMultiEd25519PublicKey(kids)
    [] check = "MultiEd25519Signature" -> NewMultiEd25519Signature(kids)
    [] check = "" -> TRUE

DeserializeStruct(type, input) ==
  Then(DeserializeParts(type.read, <<>>, input), LAMBDA object, rest :
    IF Constructs(type.check, object.kids) THEN Got(object, rest) ELSE Thrown)

DeserializeMany(type, many, input) == DeserializeParts([i \in 1..many |-> type], <<>>, input)

deserializeVector(type, input) ==
  Then(deserializeUleb128AsU32(input), LAMBDA length, rest :
    DeserializeMany(type, length.leaf[1], rest))

deserializeOption(type, input) ==
  Then(deserializeBool(input), LAMBDA exists, rest : DeserializeMany(type, exists.leaf[1], rest))

DeserializeCase(cases, input) ==
  Then(deserializeUleb128AsU32(input), LAMBDA index, body :
    IF index.leaf[1] \notin DOMAIN cases THEN Thrown
    ELSE Then(DeserializeParts(cases[index.leaf[1]].read, <<>>, body), LAMBDA value, rest :
           Got([value EXCEPT !.leaf = index.leaf], rest)))

(* MultiEd25519PublicKey and MultiEd25519Signature cut the bytes that one  *)
(* deserializeBytes returns into items of n bytes, up to the tail, and the *)
(* constructor of an item throws unless it has n.                          *)
NewPacked(all, n, tail, rest) ==
  LET many   == Cardinality({i \in 1..Len(all) : (i - 1) * n < Len(all) - tail})
      Cut(i) == SubSeq(all, (i - 1) * n + 1, IF i * n > Len(all) THEN Len(all) ELSE i * n)
  IN  IF Len(all) >= tail /\ \A i \in 1..many : Len(Cut(i)) = n
        THEN Got(Node("", [i \in 1..(many + 1) |->
                   Leaf(IF i <= many THEN Cut(i) ELSE SubSeq(all, Len(all) - tail + 1, Len(all)))]), rest)
        ELSE Thrown

DeserializePacked(n, tail, input) ==
  Then(deserializeBytes(input), LAMBDA items, rest : NewPacked(items.leaf, n, tail, rest))

(* The argument keeps its bytes: its type is not known here.               *)
DeserializeEntryArgument(input) ==
  Then(deserializeBytes(input), LAMBDA argument, rest :
    Got([argument EXCEPT !.tag = "EntryFunctionBytes"], rest))

deserializeFromScriptArgument(input) ==
  Then(deserializeUleb128AsU32(input), LAMBDA index, body :
    LET classes == {c \in DOMAIN ScriptVariants : ScriptVariants[c] = index.leaf[1]}
    IN  IF classes = {} THEN Thrown
        ELSE LET class == CHOOSE c \in classes : TRUE
             IN  Then(Deserialize(Arguments[class], body), LAMBDA value, rest :
                   Got(Node(class, <<value>>), rest)))

Deserialize(type, input) ==
  CASE type.k = "struct" -> DeserializeStruct(type, input)
    [] type.k = "enum" -> DeserializeCase(type.cases, input)
    [] type.k = "typeTag" -> Deserialize(TypeTag, input)
    [] type.k = "uint" -> deserializeUint(type.n, input)
    [] type.k = "words" -> deserializeWords(type.n, input)
    [] type.k = "bool" -> deserializeBool(input)
    [] type.k = "bytes" -> deserializeBytes(input)
    [] type.k = "sized" -> Then(deserializeBytes(input), LAMBDA value, rest :
                             IF Len(value.leaf) = type.n THEN Got(value, rest) ELSE Thrown)
    [] type.k = "fixed" -> read(type.n, input)
    [] type.k = "packed" -> DeserializePacked(type.n, type.of, input)
    [] type.k = "vec" -> deserializeVector(type.of, input)
    [] type.k = "option" -> deserializeOption(type.of, input)
    [] type.k = "anyVariant" -> deserializeUleb128AsU32(input)
    [] type.k = "entryArgument" -> DeserializeEntryArgument(input)
    [] type.k = "scriptArgument" -> deserializeFromScriptArgument(input)
=============================================================================
