---------------------------- MODULE WireFormats ----------------------------
(***************************************************************************)
(* An object of the SDK on its way between programs that share it as       *)
(* bytes: a transaction that a sender builds, serializes and hands to a    *)
(* fee payer or a second signer, a signed transaction that goes to a node, *)
(* a key or an account that is stored.  Each program deserializes the      *)
(* bytes it got, out of a buffer that may hold more, and serializes what   *)
(* it read again.                                                          *)
(*                                                                         *)
(* The second part of the module is what is hashed: the message a signer   *)
(* signs for a transaction, and the input of an authentication key or of a *)
(* derived address.  A hash is taken to be one-to-one, so that the state   *)
(* keeps what goes in.                                                     *)
(***************************************************************************)
EXTENDS BcsCodec

CONSTANTS
  Objects,    \* the objects that travel: [class, value]
  Transactions,   \* raw transactions to be signed, values of RawTransaction
  Keys,       \* account public keys: [class, value]
  Rests,      \* bytes that may follow an object in a buffer, and seeds
  MaxHops     \* the number of programs an object passes through

(* The classes whose objects travel whole; the others are parts of them.   *)
Travelling ==
  [SignedTransaction |-> SignedTransaction, RawTransaction |-> RawTransaction,
   RawTransactionWithData |-> RawTransactionWithData, SimpleTransaction |-> SimpleTransaction,
   MultiAgentTransaction |-> MultiAgentTransaction, TransactionPayload |-> TransactionPayload,
   EntryFunction |-> EntryFunction, Script |-> Script, TypeTag |-> TypeTag,
   AccountAuthenticator |-> AccountAuthenticator, AnyPublicKey |-> AnyPublicKey,
   MultiKey |-> MultiKey, KeylessPublicKey |-> KeylessPublicKey,
   Ed25519PublicKey |-> Ed25519PublicKey, MultiEd25519PublicKey |-> MultiEd25519PublicKey,
   Bls12381PublicKey |-> Bls12381PublicKey, KeylessAccount |-> KeylessAccount,
   MultiAuthKeyPublicKey |-> MultiAuthKeyPublicKey, AuthenticationKey |-> AuthenticationKey,
   Secp256k1PrivateKey |-> Secp256k1PrivateKey, Bls12381PrivateKey |-> Bls12381PrivateKey]

VARIABLES
  object,     \* the one that travels, as its first program built it
  held,       \* its value, in the program that holds it
  wire,       \* the bytes on their way, <<>> while a program holds the object
  sent,       \* the bytes of every hop so far
  rest,       \* what followed the object in the last buffer
  left,       \* what the last deserialize left unread
  thrown      \* has a deserialize thrown?

wireVars == <<object, held, wire, sent, rest, left, thrown>>

NoObject == [class |-> "none", value |-> Leaf(<<>>)]

InitWith(o) ==
  /\ object = o
  /\ held = object.value
  /\ wire = <<>> /\ sent = <<>> /\ rest = <<>> /\ left = <<>>
  /\ thrown = FALSE

bcsToBytesOf == Serialize(Travelling[object.class], held)

Hand ==
  /\ object # NoObject /\ wire = <<>> /\ ~thrown /\ Len(sent) < MaxHops
  /\ wire' = bcsToBytesOf
  /\ sent' = Append(sent, wire')
  /\ UNCHANGED <<object, held, rest, left, thrown>>

Take ==
  /\ wire # <<>>
  /\ \E more \in Rests :
       LET r == Deserialize(Travelling[object.class], wire \o more)
       IN  /\ held' = r.value
           /\ left' = r.rest
           /\ thrown' = ~r.ok
           /\ rest' = more
  /\ wire' = <<>>
  /\ UNCHANGED <<object, sent>>

Travel == Hand \/ Take

-----------------------------------------------------------------------------
(* What is signed, and what addresses are made of.                         *)

ArgumentsOf(o) == IF o.class = "Script" THEN o.value.kids[3].kids ELSE o.value.kids[4].kids

NotGiven == <<>>
Given(v) == <<v>>

(* An AnyRawTransaction: a SimpleTransaction has no list of secondary      *)
(* signers, a MultiAgentTransaction has one, and either may have a payer.  *)
AnyRawTransactions ==
  {[raw |-> raw, secondary |-> secondary, feePayer |-> feePayer] :
     raw \in Transactions,
     secondary \in {NotGiven} \cup {Given(s) : s \in {<<>>, <<1>>, <<1, 2>>}},
     feePayer \in {NotGiven} \cup {Given(a) : a \in {1, 2}}}

Account(a) == Node("", <<Leaf([i \in 1..32 |-> a])>>)
AccountList(s) == [leaf |-> <<>>, tag |-> "", kids |-> [i \in DOMAIN s |-> Account(s[i])]]

(* Mutant: secondary signers are looked at before the fee payer.           *)
deriveTransactionType_SignersFirst(t) ==
  LET secondary == AccountList(IF t.secondary = NotGiven THEN <<>> ELSE t.secondary[1])
  IN  IF t.secondary # NotGiven
        THEN Serialize(MultiAgentRawTransaction, Node("", <<t.raw, secondary>>))
        ELSE IF t.feePayer # NotGiven
          THEN Serialize(FeePayerRawTransaction, Node("", <<t.raw, secondary, Account(t.feePayer[1])>>))
          ELSE Serialize(RawTransaction, t.raw)

deriveTransactionType(t) ==
  LET secondary == AccountList(IF t.secondary = NotGiven THEN <<>> ELSE t.secondary[1])
  IN  IF t.feePayer # NotGiven
        THEN Serialize(FeePayerRawTransaction, Node("", <<t.raw, secondary, Account(t.feePayer[1])>>))
        ELSE IF t.secondary # NotGiven
          THEN Serialize(MultiAgentRawTransaction, Node("", <<t.raw, secondary>>))
          ELSE Serialize(RawTransaction, t.raw)

generateSigningMessageForTransaction(t) ==
  <<IF t.feePayer # NotGiven \/ t.secondary # NotGiven
      THEN "ENDLESS::RawTransactionWithData" ELSE "ENDLESS::RawTransaction",
    deriveTransactionType(t)>>

(* The input of the hash of an authentication key: the key's own bytes (a  *)
(* keyless key adds its variant, as AnyPublicKey does), then the scheme.   *)
fromSchemeAndBytes(scheme, input) == Append(input, scheme)
Contents(value) == FlattenSeq([i \in DOMAIN value.kids |-> value.kids[i].leaf])

(* Mutant: the threshold of a multi-key is not hashed.                     *)
authKey_NoThreshold(class, value) ==
  CASE class = "Ed25519PublicKey" -> fromSchemeAndBytes(0, Contents(value))
    [] class = "MultiEd25519PublicKey" ->
         fromSchemeAndBytes(1, Front(Contents(value.kids[1])))
    [] class = "AnyPublicKey" -> fromSchemeAndBytes(2, Serialize(AnyPublicKey, value))
    [] class = "KeylessPublicKey" ->
         fromSchemeAndBytes(2, serializeU32AsUleb128(3) \o Serialize(KeylessPublicKey, value))
    [] class = "MultiKey" -> fromSchemeAndBytes(3, Serialize(MultiKey, value))
    [] class = "Bls12381PublicKey" -> fromSchemeAndBytes(5, Contents(value))

authKey(class, value) ==
  CASE class = "Ed25519PublicKey" -> fromSchemeAndBytes(0, Contents(value))
    [] class = "MultiEd25519PublicKey" -> fromSchemeAndBytes(1, Contents(value.kids[1]))
    [] class = "AnyPublicKey" -> fromSchemeAndBytes(2, Serialize(AnyPublicKey, value))
    [] class = "KeylessPublicKey" ->
         fromSchemeAndBytes(2, serializeU32AsUleb128(3) \o Serialize(KeylessPublicKey, value))
    [] class = "MultiKey" -> fromSchemeAndBytes(3, Serialize(MultiKey, value))
    [] class = "Bls12381PublicKey" -> fromSchemeAndBytes(5, Contents(value))

createObjectAddress(creator, seed) == creator \o seed \o <<254>>
createResourceAddress(creator, seed) == creator \o seed \o <<255>>

AuthKeyClasses ==
  {"Ed25519PublicKey", "MultiEd25519PublicKey", "AnyPublicKey", "KeylessPublicKey", "MultiKey",
   "Bls12381PublicKey"}

Addresses == {[i \in 1..32 |-> a] : a \in {0, 1}}

-----------------------------------------------------------------------------

TypeOK ==
  /\ object.class \in DOMAIN Travelling
  /\ wire \in Seq(Nat) /\ rest \in Rests /\ left \in Seq(Nat)
  /\ sent \in Seq(Seq(Nat)) /\ Len(sent) <= MaxHops
  /\ thrown \in BOOLEAN

(* A program that deserializes an object reads all of its bytes and none   *)
(* that follow it, no deserialize throws, and the object has the same      *)
(* bytes at every hop: the two methods of a class agree on the parts,      *)
(* their order and their widths, so that an object can stand anywhere in a *)
(* larger one, and what a second signer deserializes, signs and serializes *)
(* again is the transaction the first one signed.  That is so also where   *)
(* deserialize gives a part another type (the arguments of an entry        *)
(* function become bytes, a script's string a vector).                     *)
ObjectsSurviveTheWire ==
  /\ wire = <<>> => ~thrown /\ left = rest
  /\ \A i \in DOMAIN sent : sent[i] = sent[1]

(* A string of a script whose length takes two bytes: the code cuts one.   *)
HalfCut(o, argument) ==
  o.class = "Script" /\ argument.tag = "MoveString" /\ Len(argument.kids[1].kids[1].leaf) >= Base \div 2

(* An argument keeps its BCS bytes from the caller to whoever reads the    *)
(* payload: the chain decodes these bytes by the type of the parameter.    *)
(* The comment of MoveString.serializeForScriptFunction says that only the *)
(* length prefix is left out of the string: so it is while the length has  *)
(* one byte, and of a longer one the second byte is read as text.          *)
ArgumentsKeepTheirBytes ==
  (object.class \in {"Script", "EntryFunction"} /\ Len(sent) = 1 /\ wire = <<>>) =>
    \A i \in DOMAIN ArgumentsOf(object) :
      LET given    == ArgumentsOf(object)[i]
          received == bcsToBytes(ArgumentsOf([object EXCEPT !.value = held])[i])
      IN  IF HalfCut(object, given)
            THEN received = serializeBytes(Tail(bcsToBytes(given)))
            ELSE received = bcsToBytes(given)

(* What a program gets that is sent an object.                             *)
ValuesSurviveTheWire == ObjectsSurviveTheWire /\ ArgumentsKeepTheirBytes

(* A signature over one transaction is a signature over no other: two      *)
(* transactions have the same signing message only if they have the same   *)
(* raw transaction, fee payer and secondary signers (where a fee payer is  *)
(* given, no list of secondary signers counts as an empty one).            *)
SigningMessagesDiffer ==
  object.class = "RawTransaction" =>
    LET all  == AnyRawTransactions
        mine == {t \in all : t.raw = object.value}
    IN  \A t \in mine, u \in all :
          generateSigningMessageForTransaction(t) = generateSigningMessageForTransaction(u) =>
            /\ t.raw = u.raw /\ t.feePayer = u.feePayer
            /\ \/ t.secondary = u.secondary
               \/ /\ t.feePayer # NotGiven
                  /\ {t.secondary, u.secondary} = {NotGiven, Given(<<>>)}

(* Two keys have the same authentication key, and an account's address is  *)
(* that of an object or a resource account, never: only a keyless key and  *)
(* the AnyPublicKey around it share theirs.                                *)
AddressesDiffer ==
  object.class \in AuthKeyClasses =>
    /\ \A other \in Keys :
         authKey(other.class, other.value) = authKey(object.class, object.value) =>
           \/ other = object
           \/ {other.class, object.class} = {"KeylessPublicKey", "AnyPublicKey"}
    /\ \A a \in Addresses, seed \in Rests :
         authKey(object.class, object.value) \notin
           {createObjectAddress(a, seed), createResourceAddress(a, seed)}

(* What is signed and what an address is derived from tell apart what the  *)
(* chain tells apart.                                                      *)
HashInputsDiffer == SigningMessagesDiffer /\ AddressesDiffer
=============================================================================
